----------------------------- MODULE Campaigns -----------------------------
(***************************************************************************)
(* The campaigns an organization runs: POST /api/campaigns, PATCH and      *)
(* DELETE /api/campaigns/[id], and the page they are managed from          *)
(* (CampaignManager).  The page keeps the rows it was loaded with; its     *)
(* form is a copy of one of them and a save sends every field of the copy. *)
(* PATCH decides on the row it reads again under the Campaign lock, which  *)
(* admissions and bag issuances take too.  DELETE runs in no transaction:  *)
(* it counts sessions, then ends the campaign, or removes its rates and    *)
(* then its row; the foreign keys clear the sessions and rates that still  *)
(* name the row, and refuse when a trip does.                              *)
(***************************************************************************)
EXTENDS Naturals

CONSTANTS
    CampaignIds,
    CampaignSessions,   \* deposit sessions
    CampaignTrips,
    CampaignRates,      \* RewardRate rows
    Managers,           \* administrators' pages, each with one request at a time
    NoCampaign,
    CampaignKinds,      \* campaign types in use
    Enforcing,          \* REWARD_FUNDING enforcement is on
    MaxUpdates          \* bound: campaigns created or changed

ASSUME CampaignAssumption ==
    /\ NoCampaign \notin CampaignIds /\ Enforcing \in BOOLEAN /\ MaxUpdates \in Nat
    /\ CampaignKinds \subseteq {"MACHINE_DEPOSIT", "TRASH_BAG", "EVENT"}
    /\ CampaignSessions \cap CampaignTrips = {} /\ CampaignSessions \cap CampaignRates = {}
    /\ CampaignTrips \cap CampaignRates = {}

VARIABLES
    campaign,       \* the row of each campaign; budget, ceiling: configured
    standing,       \* per campaign: "unborn", "there" or "deleted"
    enrolled,       \* the sessions, trips and rates created for a campaign
    campaignOf,     \* their campaignId now; of a removed rate too: none
    sources,        \* sessions and trips that can still earn
    paying,         \* sources that were admitted to a paying program
    manager,        \* per page: the form, or what DELETE has done so far
    updates         \* writes of a campaign (bound)

campaignVars == <<campaign, standing, enrolled, campaignOf, sources, paying, manager, updates>>

Holders == CampaignSessions \cup CampaignTrips \cup CampaignRates
Standing == {c \in CampaignIds : standing[c] = "there"}
HeldBy(X, c) == {x \in X : campaignOf[x] = c}

\* What each field of the form can be set to.  EVENT stands for SCHOOL_PROGRAM
\* too, TRASH_BAG for TOURISM_PROGRAM, and ENDED for DRAFT and PAUSED: each is
\* just not ACTIVE to what is modelled.
Fields == [status |-> {"ACTIVE", "ENDED"}, money |-> BOOLEAN,
           kind |-> CampaignKinds, supports |-> BOOLEAN,
           budget |-> BOOLEAN, ceiling |-> BOOLEAN]
EmptyForm == [status |-> "ENDED", money |-> TRUE, kind |-> "MACHINE_DEPOSIT", supports |-> FALSE,
              budget |-> FALSE, ceiling |-> FALSE]

CampaignRows == [status : Fields.status, money : BOOLEAN, kind : Fields.kind,
                 supports : BOOLEAN, budget : BOOLEAN, ceiling : BOOLEAN]

\* The row with one field, or none, set to something else: a save is bounded to
\* one change.
Edited(row) == UNION {{[row EXCEPT ![f] = v] : v \in Fields[f]} : f \in DOMAIN Fields}

\* What the form sends of its copy.
Sent(row) == IF row.kind = "EVENT" THEN row ELSE [row EXCEPT !.supports = FALSE]

AtMachines(row) == row.kind = "MACHINE_DEPOSIT" \/ (row.kind = "EVENT" /\ row.supports)
PaysAtMachines(row) == row.money /\ AtMachines(row)
PaysTrips(row) == row.money /\ row.kind = "TRASH_BAG"

assertMoneyProgramConfigured(row) ==
    Enforcing /\ row.status = "ACTIVE" /\ row.money => row.budget /\ (AtMachines(row) => row.ceiling)

\* Mutant: only sessions are looked at, not the bags of trips.
guardBySessions(c, next) ==
    Enforcing /\ (\/ ~PaysTrips(campaign[c]) /\ PaysTrips(next)
                  \/ ~PaysAtMachines(campaign[c]) /\ PaysAtMachines(next))
    => HeldBy(sources \cap CampaignSessions, c) = {}

\* A program with sources that can still earn does not start to pay.
guardProgramChange(c, next) ==
    Enforcing /\ (\/ ~PaysTrips(campaign[c]) /\ PaysTrips(next)
                  \/ ~PaysAtMachines(campaign[c]) /\ PaysAtMachines(next))
    => HeldBy(sources, c) = {}

NoForm == [at |-> "idle", campaign |-> NoCampaign, row |-> EmptyForm, joined |-> {}]

CampaignInit ==
    /\ campaign = [c \in CampaignIds |-> EmptyForm]
    /\ standing = [c \in CampaignIds |-> "unborn"]
    /\ enrolled = {} /\ campaignOf = [x \in Holders |-> NoCampaign]
    /\ sources = {} /\ paying = {}
    /\ manager = [m \in Managers |-> NoForm] /\ updates = 0

\* A session or rate that comes to name c is noted by the deletions of c that
\* have passed the step which would have seen it.
JoinsAt(x, c, steps) ==
    manager' = [m \in Managers |->
        IF manager[m].campaign = c /\ manager[m].at \in steps
        THEN [manager[m] EXCEPT !.joined = @ \cup {x}] ELSE manager[m]]

OpenForm(m, c) ==
    /\ manager[m].at = "idle" /\ c \in Standing
    /\ manager' = [manager EXCEPT ![m] = [NoForm EXCEPT !.at = "form", !.campaign = c, !.row = campaign[c]]]
    /\ UNCHANGED <<campaign, standing, enrolled, campaignOf, sources, paying, updates>>

CloseForm(m) ==
    /\ manager[m].at = "form"
    /\ manager' = [manager EXCEPT ![m] = NoForm]
    /\ UNCHANGED <<campaign, standing, enrolled, campaignOf, sources, paying, updates>>

CreateCampaign(c, row) ==
    /\ standing[c] = "unborn" /\ updates < MaxUpdates
    /\ assertMoneyProgramConfigured(row)
    /\ campaign' = [campaign EXCEPT ![c] = row] /\ standing' = [standing EXCEPT ![c] = "there"]
    /\ updates' = updates + 1
    /\ UNCHANGED <<enrolled, campaignOf, sources, paying, manager>>

\* PATCH under the Campaign lock.
UpdateCampaign(c, next) ==
    /\ c \in Standing /\ updates < MaxUpdates
    /\ assertMoneyProgramConfigured(next) /\ guardProgramChange(c, next)
    /\ campaign' = [campaign EXCEPT ![c] = next] /\ updates' = updates + 1
    /\ UNCHANGED <<standing, enrolled, campaignOf, sources, paying>>

\* The form sends its whole copy; a client of the route a field of its own.
SaveForm(m) ==
    /\ manager[m].at = "form"
    /\ \E row \in Edited(manager[m].row) : UpdateCampaign(manager[m].campaign, Sent(row))
    /\ manager' = [manager EXCEPT ![m] = NoForm]

PatchField(c) ==
    /\ \E row \in Edited(campaign[c]) : UpdateCampaign(c, row)
    /\ UNCHANGED manager

\* DELETE: a campaign with sessions is ended, one without loses its rates and
\* then its row.
CountSessions(m, c) ==
    /\ manager[m].at = "idle" /\ c \in Standing
    /\ manager' = [manager EXCEPT ![m] =
         [NoForm EXCEPT !.at = IF HeldBy(CampaignSessions, c) = {} THEN "rates" ELSE "end", !.campaign = c]]
    /\ UNCHANGED <<campaign, standing, enrolled, campaignOf, sources, paying, updates>>

EndCampaign(m) ==
    LET c == manager[m].campaign IN
    /\ manager[m].at = "end"
    /\ campaign' = IF c \in Standing THEN [campaign EXCEPT ![c].status = "ENDED"] ELSE campaign
    /\ manager' = [manager EXCEPT ![m] = NoForm]
    /\ UNCHANGED <<standing, enrolled, campaignOf, sources, paying, updates>>

RemoveRates(m) ==
    /\ manager[m].at = "rates"
    /\ campaignOf' = [x \in Holders |->
         IF x \in HeldBy(CampaignRates, manager[m].campaign) THEN NoCampaign ELSE campaignOf[x]]
    /\ manager' = [manager EXCEPT ![m].at = "row"]
    /\ UNCHANGED <<campaign, standing, enrolled, sources, paying, updates>>

DeleteCampaign(m) ==
    LET c == manager[m].campaign IN
    /\ manager[m].at = "row"
    /\ IF c \in Standing /\ HeldBy(CampaignTrips, c) = {}
       THEN /\ standing' = [standing EXCEPT ![c] = "deleted"]
            /\ campaignOf' = [x \in Holders |-> IF campaignOf[x] = c THEN NoCampaign ELSE campaignOf[x]]
       ELSE UNCHANGED <<standing, campaignOf>>
    /\ manager' = [manager EXCEPT ![m] = NoForm]
    /\ UNCHANGED <<campaign, enrolled, sources, paying, updates>>

\* Admission of a session to the campaign, under its lock.
Admit(s, c) ==
    /\ s \notin enrolled
    /\ c \in Standing /\ campaign[c].status = "ACTIVE" /\ AtMachines(campaign[c])
    /\ enrolled' = enrolled \cup {s} /\ campaignOf' = [campaignOf EXCEPT ![s] = c] /\ sources' = sources \cup {s}
    /\ paying' = IF campaign[c].money THEN paying \cup {s} ELSE paying
    /\ JoinsAt(s, c, {"rates", "row"})
    /\ UNCHANGED <<campaign, standing, updates>>

\* POST /api/trips, and the issuance of its bags under the Campaign lock.
TripFor(t, c) ==
    /\ t \notin enrolled
    /\ c \in Standing /\ campaign[c].status = "ACTIVE" /\ campaign[c].kind = "TRASH_BAG"
    /\ enrolled' = enrolled \cup {t} /\ campaignOf' = [campaignOf EXCEPT ![t] = c]
    /\ UNCHANGED <<campaign, standing, sources, paying, manager, updates>>

IssueBags(t) ==
    /\ t \in enrolled \ sources
    /\ sources' = sources \cup {t}
    /\ paying' = IF PaysTrips(campaign[campaignOf[t]]) THEN paying \cup {t} ELSE paying \ {t}
    /\ UNCHANGED <<campaign, standing, enrolled, campaignOf, manager, updates>>

SourceCloses(x) ==
    /\ x \in sources /\ sources' = sources \ {x}
    /\ UNCHANGED <<campaign, standing, enrolled, campaignOf, paying, manager, updates>>

\* POST /api/reward-rates for a campaign.
RateForCampaign(k, c) ==
    /\ k \notin enrolled /\ c \in Standing
    /\ enrolled' = enrolled \cup {k} /\ campaignOf' = [campaignOf EXCEPT ![k] = c] /\ JoinsAt(k, c, {"row"})
    /\ UNCHANGED <<campaign, standing, sources, paying, updates>>

CampaignNext ==
    \/ \E c \in CampaignIds : \/ \E row \in CampaignRows : CreateCampaign(c, row)
                              \/ PatchField(c)
    \/ \E m \in Managers, c \in CampaignIds : OpenForm(m, c) \/ CountSessions(m, c)
    \/ \E m \in Managers : \/ CloseForm(m) \/ SaveForm(m)
                           \/ EndCampaign(m) \/ RemoveRates(m) \/ DeleteCampaign(m)
    \/ \E s \in CampaignSessions, c \in CampaignIds : Admit(s, c)
    \/ \E t \in CampaignTrips, c \in CampaignIds : TripFor(t, c)
    \/ \E t \in CampaignTrips : IssueBags(t)
    \/ \E x \in sources : SourceCloses(x)
    \/ \E k \in CampaignRates, c \in CampaignIds : RateForCampaign(k, c)

CampaignSpec == CampaignInit /\ [][CampaignNext]_campaignVars
----------------------------------------------------------------------------
(* Properties.                                                             *)

\* Under enforcement an active program that pays has its budget and, at
\* machines, its ceiling, whoever edits it from whichever copy.
ProgramsConfigured == \A c \in Standing : assertMoneyProgramConfigured(campaign[c])

\* A source admitted to a program that paid nothing never finds it paying
\* while it can still earn.
TermsKept ==
    Enforcing => \A c \in Standing :
        /\ PaysAtMachines(campaign[c]) => HeldBy(sources \cap CampaignSessions, c) \subseteq paying
        /\ PaysTrips(campaign[c]) => HeldBy(sources \cap CampaignTrips, c) \subseteq paying

\* A deletion takes a campaign only from the sessions and rates that came to
\* it after it had looked, and never from a trip.
DeletionSpares ==
    /\ \A m \in Managers :
        /\ manager[m].at \in {"rates", "row"} =>
             HeldBy(CampaignSessions, manager[m].campaign) \subseteq manager[m].joined
        /\ manager[m].at = "row" => HeldBy(CampaignRates, manager[m].campaign) \subseteq manager[m].joined
    /\ \A t \in enrolled \cap CampaignTrips : campaignOf[t] \in Standing

CampaignsHold == ProgramsConfigured /\ TermsKept /\ DeletionSpares
=============================================================================
