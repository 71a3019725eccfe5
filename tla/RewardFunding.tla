--------------------------- MODULE RewardFunding ---------------------------
(***************************************************************************)
(* The funding side of rewards (lib/reward-funding.ts): confirmed cash and *)
(* held capacity of each organization, budget counters of each campaign,   *)
(* the reservation a deposit session or trip is admitted under, the        *)
(* obligations (commits) its earnings draw from it, keyed releases, cash   *)
(* entries and payout attribution.                                         *)
(*                                                                         *)
(* Every writer holds the funding account and the campaign row (and every  *)
(* commit writer the owner's User row, module Wallet), so a transaction is *)
(* one step here; what remains is the order of the transactions.  The      *)
(* funding rows are one record f, and the service's functions are          *)
(* operators from f to f, composed as the callers compose them.  A counter *)
(* that leaves MaxFunding is a 422: the whole transaction is refused.      *)
(*                                                                         *)
(* Abstractions: prices, ceilings and caps are small numbers; a trip is    *)
(* OPEN (PLANNED or ACTIVE), CANCELLED or COMPLETED; a campaign's budget   *)
(* is not edited; sessions admitted without money (COMPLIANCE_ONLY, fixed  *)
(* by their policy snapshot) touch no row and are left out; sources older  *)
(* than the funding cutover do not occur.                                  *)
(***************************************************************************)
EXTENDS Integers, Sequences, Functions, FiniteSets

CONSTANTS Orgs, Campaigns, Sessions, Trips, Items, Users,
          Refs,        \* bank references of cash entries
          Payouts,     \* redemptions
          OrgOf,       \* organization of each session or trip
          CampaignOf,  \* campaign of each session or trip, or NoCampaign
          UserOf,      \* owner of each session or trip
          SessionOf,   \* session of each deposit item
          Budget,      \* rewardBudgetRupiah of each campaign, 0 when not configured
          Enforced,    \* REWARD_FUNDING_ENFORCED
          Ceilings,    \* session ceilings, 0 when not configured
          Prices,      \* what an item may be worth
          ItemCap,     \* snapshotMaxItemCap
          Grosses,     \* amounts of payouts
          CashAmounts, \* amounts of cash entries, either sign
          MaxRows,     \* bound: bags issued per trip
          MaxMult,     \* bound: largest campaign multiplier
          MaxFunding,  \* MAX_FUNDING_RUPIAH
          NoCampaign, NoOrg

Sources == Sessions \cup Trips
Earnings == Items \cup Trips        \* deposit-item:<i>:earn, trip:<t>:return

ASSUME FundingConstants ==
    /\ IsFiniteSet(Orgs) /\ IsFiniteSet(Campaigns) /\ IsFiniteSet(Sessions) /\ IsFiniteSet(Trips)
    /\ IsFiniteSet(Items) /\ IsFiniteSet(Refs) /\ IsFiniteSet(Payouts)
    /\ Sessions \cap Trips = {} /\ Items \cap Trips = {}
    /\ NoCampaign \notin Campaigns /\ NoOrg \notin Orgs
    /\ OrgOf \in [Sources -> Orgs]
    /\ CampaignOf \in [Sources -> Campaigns \cup {NoCampaign}]
    /\ \A t \in Trips : CampaignOf[t] # NoCampaign
    /\ UserOf \in [Sources -> Users]
    /\ SessionOf \in [Items -> Sessions]
    /\ Budget \in [Campaigns -> Nat]
    /\ Enforced \in BOOLEAN
    /\ Ceilings \subseteq Nat /\ Prices \subseteq Nat /\ ItemCap \in Nat
    /\ Grosses \subseteq Nat \ {0} /\ CashAmounts \subseteq Int \ {0}
    /\ MaxRows \in Nat /\ MaxMult \in Nat \ {0} /\ MaxFunding \in Nat

VARIABLES
    f,        \* funding rows: account, campaign, res, commit, order (commits, oldest first)
    program,  \* reward mode and multiplier of each campaign
    source,   \* status of each session and trip
    marked,   \* sessions whose close watermark is recorded
    rows,     \* bags issued to each trip
    item,     \* progress of each deposit item
    cash,     \* cash-confirming and negative correction entry of each reference
    payout    \* what each redemption's success drew from each account

vars == <<f, program, source, marked, rows, item, cash, payout>>

-----------------------------------------------------------------------------
(* Rows.                                                                   *)

NoReservation == [status |-> "NONE", ceiling |-> 0, remaining |-> 0, short |-> 0, campaignShort |-> 0, late |-> FALSE]

NoCommit == [exists |-> FALSE, held |-> 0, paid |-> 0, uncovered |-> 0, pending |-> FALSE]

NoEntry == [org |-> NoOrg, amount |-> 0]
Unpaid == [o \in Orgs |-> 0]

Least(a, b) == IF a < b THEN a ELSE b
Most(a, b) == IF a > b THEN a ELSE b

SourceOf(e) == IF e \in Items THEN SessionOf[e] ELSE e

\* bumpAccount
bumpAccount(g, o, confirmed, hold) ==
    [g EXCEPT !.account[o] = [confirmed |-> @.confirmed + confirmed, held |-> @.held + hold]]

\* bumpCampaign: nothing for a source without a campaign.
bumpCampaign(g, s, hold, spent) ==
    IF CampaignOf[s] = NoCampaign THEN g
    ELSE [g EXCEPT !.campaign[CampaignOf[s]] = [held |-> @.held + hold, spent |-> @.spent + spent]]

\* The 422 of bumpAccount, for the whole transaction.
InRange(g) ==
    \A o \in Orgs : g.account[o].confirmed \in -MaxFunding..MaxFunding
                    /\ g.account[o].held \in -MaxFunding..MaxFunding

-----------------------------------------------------------------------------
(* Reservations.                                                           *)

CommittedUnder(g, s) ==
    SumFunction([e \in Earnings |-> IF SourceOf(e) = s THEN g.commit[e].held ELSE 0])

\* What a ceiling adds to the hold: everything above what is committed for a
\* released reservation, the difference for a live or a new one.
ReserveDelta(g, s, ceiling) ==
    IF g.res[s].status = "RELEASED" THEN Most(0, ceiling - CommittedUnder(g, s))
    ELSE ceiling - g.res[s].ceiling

\* checkCapacity: what the account and the campaign's budget lack.
checkCapacity(g, s, delta) ==
    LET a == g.account[OrgOf[s]]
        c == CampaignOf[s]
    IN  [account |-> Most(0, delta - (a.confirmed - a.held)),
         campaign |-> IF c = NoCampaign \/ Budget[c] = 0 THEN 0
                      ELSE Most(0, delta - (Budget[c] - g.campaign[c].held - g.campaign[c].spent))]

\* Mutant: enforcement that checks nothing.
AdmitsWithoutCheck(g, s, ceiling, delta) == TRUE

\* Under enforcement: a positive ceiling, a configured budget, no shortfall.
Admits(g, s, ceiling, delta) ==
    Enforced => /\ ceiling > 0
                /\ CampaignOf[s] # NoCampaign => Budget[CampaignOf[s]] > 0
                /\ checkCapacity(g, s, delta) = [account |-> 0, campaign |-> 0]

AlreadyReserved(g, s, ceiling) == g.res[s].status = "ACTIVE" /\ g.res[s].ceiling >= ceiling

\* The row of a reservation whose ceiling is raised.
Reserved(g, s, ceiling) ==
    LET delta == ReserveDelta(g, s, ceiling)
        lack == checkCapacity(g, s, delta)
    IN  [g.res[s] EXCEPT !.status = "ACTIVE", !.ceiling = ceiling,
             !.remaining = IF g.res[s].status = "RELEASED" THEN delta ELSE @ + delta,
             !.short = @ + lack.account, !.campaignShort = @ + lack.campaign]

reserveRewardBudget(g, s, ceiling) ==
    LET delta == ReserveDelta(g, s, ceiling)
        bumped == bumpCampaign(bumpAccount(g, OrgOf[s], 0, delta), s, delta, 0)
    IN  IF AlreadyReserved(g, s, ceiling) THEN g ELSE [bumped EXCEPT !.res[s] = Reserved(g, s, ceiling)]

MayReserve(g, s, ceiling) ==
    AlreadyReserved(g, s, ceiling) \/ Admits(g, s, ceiling, ReserveDelta(g, s, ceiling))

\* resolveSourceReservation: an earning of a source without a reservation gets
\* a late one with ceiling 0.
resolveSourceReservation(g, s) ==
    IF g.res[s].status # "NONE" THEN g
    ELSE [g EXCEPT !.res[s] = [NoReservation EXCEPT !.status = "ACTIVE", !.late = TRUE]]

\* Draws from what remains of the reservation; the excess is held on the
\* account anyway (uncovered).
Draw(g, s, amount) ==
    LET covered == IF g.res[s].status = "ACTIVE" THEN Least(amount, g.res[s].remaining) ELSE 0
        drawn == [g EXCEPT !.res[s].remaining = @ - covered]
    IN  bumpCampaign(bumpAccount(drawn, OrgOf[s], 0, amount - covered), s, -covered, amount)

UncoveredBy(g, s, amount) ==
    amount - (IF g.res[s].status = "ACTIVE" THEN Least(amount, g.res[s].remaining) ELSE 0)

commitRewardAgainstBudget(g, e, amount, pending) ==
    LET s == SourceOf(e) IN
    IF g.commit[e].exists THEN g
    ELSE [Draw(g, s, amount) EXCEPT
            !.commit[e] = [exists |-> TRUE, held |-> amount, paid |-> 0,
                           uncovered |-> UncoveredBy(g, s, amount), pending |-> pending],
            !.order = Append(@, e)]

\* checkRewardFunding: a positive ceiling is committed, late if need be.
checkRewardFunding(g, e, ceiling, pending) ==
    IF ceiling <= 0 THEN g
    ELSE commitRewardAgainstBudget(resolveSourceReservation(g, SourceOf(e)), e, ceiling, pending)

\* The obligation never falls below what was already paid out.
NewObligation(target, paid) == Most(target, paid)

settleCommittedReward(g, e, target, pending) ==
    LET s == SourceOf(e)
        newHeld == NewObligation(target, g.commit[e].paid)
        delta == newHeld - g.commit[e].held
        moved == IF delta > 0 THEN Draw(g, s, delta)
                 ELSE bumpCampaign(bumpAccount(g, OrgOf[s], 0, delta), s, 0, delta)
        more == IF delta > 0 THEN UncoveredBy(g, s, delta) ELSE 0
    IN  [moved EXCEPT !.commit[e] =
            [g.commit[e] EXCEPT !.held = newHeld, !.pending = pending, !.uncovered = @ + more]]

\* A decision refused into a case (target "keep") leaves the obligation as it is.
settleOrCommitReward(g, e, target, keep) ==
    IF g.commit[e].exists
    THEN settleCommittedReward(g, e, IF keep THEN g.commit[e].held ELSE target, FALSE)
    ELSE IF keep THEN g ELSE checkRewardFunding(g, e, target, FALSE)

markCommitReviewPending(g, e) ==
    IF g.commit[e].exists THEN [g EXCEPT !.commit[e].pending = TRUE] ELSE g

\* Mutant: the account keeps what the reservation gave back.
ReleaseKeepingHold(g, s, amount, close) ==
    LET given == Least(amount, g.res[s].remaining) IN
    IF g.res[s].status = "RELEASED" THEN g
    ELSE [bumpCampaign(g, s, -given, 0) EXCEPT
            !.res[s].remaining = @ - given, !.res[s].status = IF close THEN "RELEASED" ELSE @]

releaseUnusedRewardBudget(g, s, amount, close) ==
    LET given == Least(amount, g.res[s].remaining) IN
    IF g.res[s].status = "RELEASED" THEN g
    ELSE [bumpCampaign(bumpAccount(g, OrgOf[s], 0, -given), s, -given, 0) EXCEPT
            !.res[s].remaining = @ - given, !.res[s].status = IF close THEN "RELEASED" ELSE @]

closeReservation(g, s) ==
    IF g.res[s].status = "ACTIVE" THEN releaseUnusedRewardBudget(g, s, g.res[s].remaining, TRUE) ELSE g

\* sessionReviewExposure: what accepted items still in review may yet draw.
sessionReviewExposure(g, s, it) ==
    SumFunction([i \in Items |-> IF SessionOf[i] = s /\ it[i] = "REVIEW"
                                 THEN Most(0, ItemCap - g.commit[i].held) ELSE 0])

\* Mutant: the decision leaves a watermarked reservation open.
NeverClosedByReview(g, s, it) == g

closeWatermarkedSessionIfSettled(g, s, it) ==
    IF s \in marked /\ g.res[s].status = "ACTIVE" /\ sessionReviewExposure(g, s, it) = 0
    THEN releaseUnusedRewardBudget(g, s, g.res[s].remaining, TRUE) ELSE g

-----------------------------------------------------------------------------
(* Payout attribution.                                                     *)

Due(g, e) == g.commit[e].held - g.commit[e].paid

\* Mutant: obligations under review are drawn too.
DrawsPending(g, u, e) == UserOf[SourceOf(e)] = u

\* The owner's obligations a payout may draw from.
Drawable(g, u, e) == UserOf[SourceOf(e)] = u /\ ~g.commit[e].pending

\* What each obligation gives to a payout, oldest first, until the gross is reached.
Takes(g, u, gross) ==
    LET due == [n \in DOMAIN g.order |-> IF Drawable(g, u, g.order[n]) THEN Due(g, g.order[n]) ELSE 0]
        before(n) == SumFunctionOnSet(due, 1..(n - 1))
    IN  [e \in Earnings |->
            SumFunction([n \in DOMAIN g.order |->
                IF g.order[n] = e THEN Least(due[n], Most(0, gross - before(n))) ELSE 0])]

\* The PAYOUT entry of each account.
PerAccount(takes) ==
    [o \in Orgs |-> SumFunction([e \in Earnings |-> IF OrgOf[SourceOf(e)] = o THEN takes[e] ELSE 0])]

Attributed(g, takes) ==
    LET drawn == PerAccount(takes) IN
    [g EXCEPT !.commit = [e \in Earnings |-> [g.commit[e] EXCEPT !.paid = @ + takes[e]]],
              !.account = [o \in Orgs |-> [confirmed |-> g.account[o].confirmed - drawn[o],
                                           held |-> g.account[o].held - drawn[o]]]]

-----------------------------------------------------------------------------
(* Transactions.                                                           *)

Init ==
    /\ f = [account |-> [o \in Orgs |-> [confirmed |-> 0, held |-> 0]],
            campaign |-> [c \in Campaigns |-> [held |-> 0, spent |-> 0]],
            res |-> [s \in Sources |-> NoReservation],
            commit |-> [e \in Earnings |-> NoCommit],
            order |-> <<>>]
    /\ program \in [Campaigns -> [money : BOOLEAN, mult : {1}]]
    /\ source = [s \in Sources |-> IF s \in Trips THEN "OPEN" ELSE "NONE"]
    /\ marked = {}
    /\ rows = [t \in Trips |-> 0]
    /\ item = [i \in Items |-> "PENDING"]
    /\ cash = [k \in {"cash", "correction"} \X Refs |-> NoEntry]
    /\ payout = [rd \in Payouts |-> Unpaid]

\* decideStart with reserveSessionCeiling: a money session is admitted.
admitSession(s, ceiling) ==
    /\ source[s] = "NONE"
    /\ CampaignOf[s] # NoCampaign => program[CampaignOf[s]].money
    /\ MayReserve(f, s, ceiling)
    /\ f' = reserveRewardBudget(f, s, ceiling)
    /\ source' = [source EXCEPT ![s] = "OPEN"]
    /\ UNCHANGED <<program, marked, rows, item, cash, payout>>

\* The owner finished or cancelled it, or it timed out: its hold stays.
endSession(s) ==
    /\ source[s] = "OPEN"
    /\ source' = [source EXCEPT ![s] = "ENDED"]
    /\ UNCHANGED <<f, program, marked, rows, item, cash, payout>>

\* An acceptance of an open or ended session; after its watermark the machine
\* sends nothing more.  An item in review commits its full price as pending.
handleAcceptance(i, decision, price) ==
    /\ source[SessionOf[i]] # "NONE" /\ SessionOf[i] \notin marked
    /\ item[i] \in {"PENDING", "HELD"}
    /\ decision = "ACCEPTED" => item[i] # "HELD"
    /\ f' = IF decision = "CLOSED" THEN f ELSE checkRewardFunding(f, i, price, decision = "REVIEW")
    /\ item' = [item EXCEPT ![i] = decision]
    /\ UNCHANGED <<program, source, marked, rows, cash, payout>>

holdItemForFraud(i) ==
    /\ source[SessionOf[i]] # "NONE"
    /\ item[i] # "CLOSED"
    /\ item' = [item EXCEPT ![i] = IF @ \in {"PENDING", "HELD"} THEN "HELD" ELSE "REVIEW"]
    /\ f' = markCommitReviewPending(f, i)
    /\ UNCHANGED <<program, source, marked, rows, cash, payout>>

\* The decision settles the obligation; "refused" when the ledger correction
\* became a reconciliation case.
decideDepositReview(i, target, refused) ==
    /\ item[i] \in {"REVIEW", "HELD"}
    /\ item[i] = "HELD" => target = 0
    /\ item' = [item EXCEPT ![i] = "CLOSED"]
    /\ f' = closeWatermarkedSessionIfSettled(settleOrCommitReward(f, i, target, refused), SessionOf[i], item')
    /\ UNCHANGED <<program, source, marked, rows, cash, payout>>

\* The machine confirmed that every event of the ended session is synced: the
\* residue is released, except what accepted items in review may still draw.
handleCloseWatermark(s) ==
    LET kept == Least(sessionReviewExposure(f, s, item), f.res[s].remaining) IN
    /\ source[s] = "ENDED" /\ s \notin marked
    /\ marked' = marked \cup {s}
    /\ f' = IF f.res[s].status = "ACTIVE"
            THEN releaseUnusedRewardBudget(f, s, f.res[s].remaining - kept, kept = 0) ELSE f
    /\ UNCHANGED <<program, source, rows, item, cash, payout>>

\* A superadmin releases the residue of an ended source.
releaseResidualReservation(s) ==
    /\ f.res[s].status = "ACTIVE"
    /\ source[s] \in {"ENDED", "CANCELLED", "COMPLETED"}
    /\ f' = releaseUnusedRewardBudget(f, s, f.res[s].remaining, TRUE)
    /\ UNCHANGED <<program, source, marked, rows, item, cash, payout>>

\* reserveTripIssuance: nothing for no bags or a program that pays no money.
PaysFor(t, n) == n > 0 /\ program[CampaignOf[t]].money
TripCeiling(t, n) == n * program[CampaignOf[t]].mult

ReserveTripIssuance(t, n) ==
    IF PaysFor(t, n)
    THEN MayReserve(f, t, TripCeiling(t, n)) /\ f' = reserveRewardBudget(f, t, TripCeiling(t, n))
    ELSE f' = f

issueTrashBags(t) ==
    /\ source[t] = "OPEN"
    /\ rows[t] < MaxRows
    /\ ReserveTripIssuance(t, rows[t] + 1)
    /\ rows' = [rows EXCEPT ![t] = @ + 1]
    /\ UNCHANGED <<program, source, marked, item, cash, payout>>

cancelTrip(t) ==
    /\ source[t] = "OPEN"
    /\ source' = [source EXCEPT ![t] = "CANCELLED"]
    /\ f' = closeReservation(f, t)
    /\ UNCHANGED <<program, marked, rows, item, cash, payout>>

\* Mutant: a reopened trip does not reserve its bags again.
ReopenWithoutReserve(t) ==
    /\ source[t] = "CANCELLED"
    /\ f' = f
    /\ source' = [source EXCEPT ![t] = "OPEN"]
    /\ UNCHANGED <<program, marked, rows, item, cash, payout>>

reopenTrip(t) ==
    /\ source[t] = "CANCELLED"
    /\ ReserveTripIssuance(t, rows[t])
    /\ source' = [source EXCEPT ![t] = "OPEN"]
    /\ UNCHANGED <<program, marked, rows, item, cash, payout>>

\* The check-out that reviewed the last bag: the returned bags are paid at the
\* campaign's multiplier of now, then the residue is released.
completeTrip(t, amount) ==
    /\ source[t] = "OPEN"
    /\ amount <= IF PaysFor(t, rows[t]) THEN TripCeiling(t, rows[t]) ELSE 0
    /\ source' = [source EXCEPT ![t] = "COMPLETED"]
    /\ f' = closeReservation(checkRewardFunding(f, t, amount, FALSE), t)
    /\ UNCHANGED <<program, marked, rows, item, cash, payout>>

\* openSessionWhere and countHeldEndedSessions: it may still create obligations.
SessionStillEarns(s) ==
    \/ source[s] = "OPEN"
    \/ source[s] = "ENDED" /\ f.res[s].status = "ACTIVE"
    \/ /\ source[s] = "ENDED"
       /\ \E i \in Items : /\ SessionOf[i] = s
                            /\ item[i] \in IF s \in marked THEN {"REVIEW"} ELSE {"PENDING", "HELD", "REVIEW"}

hasOpenProgramSources(c) ==
    \/ \E s \in Sessions : CampaignOf[s] = c /\ SessionStillEarns(s)
    \/ \E t \in Trips : CampaignOf[t] = c /\ source[t] = "OPEN" /\ rows[t] > 0

guardProgramRewardChange(c, next) ==
    Enforced /\ next.money /\ (~program[c].money \/ next.mult > program[c].mult) => ~hasOpenProgramSources(c)

updateProgram(c, next) ==
    /\ next # program[c]
    /\ guardProgramRewardChange(c, next)
    /\ program' = [program EXCEPT ![c] = next]
    /\ UNCHANGED <<f, source, marked, rows, item, cash, payout>>

\* One bank reference confirms cash once, across organizations.
Unrecorded(o, key) == cash[key] = NoEntry

recordFundingEntry(o, ref, amount) ==
    LET key == <<IF amount > 0 THEN "cash" ELSE "correction", ref>> IN
    /\ Unrecorded(o, key)
    /\ cash' = [cash EXCEPT ![key] = [org |-> o, amount |-> amount]]
    /\ f' = bumpAccount(f, o, amount, 0)
    /\ UNCHANGED <<program, source, marked, rows, item, payout>>

\* The success of a redemption, once; gross beyond the obligations is legacy.
settlePayoutFunding(rd, u, gross) ==
    LET takes == Takes(f, u, gross) IN
    /\ payout[rd] = Unpaid
    /\ PerAccount(takes) # Unpaid
    /\ f' = Attributed(f, takes)
    /\ payout' = [payout EXCEPT ![rd] = PerAccount(takes)]
    /\ UNCHANGED <<program, source, marked, rows, item, cash>>

-----------------------------------------------------------------------------
(* The funding page of an organization and the reconciliation report.      *)

activeReservations(o) == {s \in Sources : OrgOf[s] = o /\ f.res[s].status = "ACTIVE"}

\* classifyHold: why an active reservation needs an operator; `old' when it is
\* older than STALE_HOLD_AFTER_MS.
classifyHold(s, old) ==
    LET r == f.res[s]
        ended == source[s] \in {"ENDED", "CANCELLED", "COMPLETED"}
    IN  {x \in {"SOURCE_CLOSED_AWAITING_WATERMARK"} : r.remaining > 0 /\ ended}
        \cup {x \in {"SOURCE_OPEN_TOO_LONG"} : r.remaining > 0 /\ ~ended /\ old}
        \cup {x \in {"ADMITTED_WITHOUT_RESERVATION"} : r.late}
        \cup {x \in {"CEILING_NOT_CONFIGURED"} : ~r.late /\ s \in Sessions /\ r.ceiling = 0}
        \cup {x \in {"CAPACITY_SHORTFALL"} : r.short > 0 \/ r.campaignShort > 0}

readFundingVisibility(o) ==
    [heldRupiah |-> f.account[o].held,
     capacity |-> f.account[o].confirmed - f.account[o].held,
     reservedRemaining |-> SumFunction([s \in activeReservations(o) |-> f.res[s].remaining]),
     uncovered |-> SumFunction([e \in Earnings |-> IF OrgOf[SourceOf(e)] = o THEN f.commit[e].uncovered ELSE 0]),
     staleHolds |-> [old \in BOOLEAN |-> {s \in activeReservations(o) : classifyHold(s, old) # {}}],
     programsWithoutBudget |-> {c \in Campaigns : /\ program[c].money /\ Budget[c] = 0
                                               /\ \E s \in Sources : CampaignOf[s] = c /\ OrgOf[s] = o}]

\* The page: the view of the organization and what its commits amount to.
getOrganizationFunding(o) ==
    LET commits == {e \in Earnings : f.commit[e].exists /\ OrgOf[SourceOf(e)] = o}
    IN  [view |-> readFundingVisibility(o),
         commits |-> [active |-> Cardinality(commits),
                      heldRupiah |-> SumFunction([e \in commits |-> f.commit[e].held]),
                      paidRupiah |-> SumFunction([e \in commits |-> f.commit[e].paid]),
                      reviewPending |-> Cardinality({e \in commits : f.commit[e].pending})]]

-----------------------------------------------------------------------------
Deposits ==
    \/ \E s \in Sessions : \/ \E ceiling \in Ceilings : admitSession(s, ceiling)
                           \/ endSession(s)
                           \/ handleCloseWatermark(s)
    \/ \E i \in Items :
          \/ \E d \in {"ACCEPTED", "REVIEW", "CLOSED"}, price \in Prices : handleAcceptance(i, d, price)
          \/ holdItemForFraud(i)
          \/ \E target \in Prices \cup {0}, refused \in BOOLEAN : decideDepositReview(i, target, refused)

TripSteps ==
    \E t \in Trips : \/ issueTrashBags(t)
                     \/ cancelTrip(t)
                     \/ reopenTrip(t)
                     \/ \E amount \in 0..(MaxRows * MaxMult) : completeTrip(t, amount)

Operators ==
    \/ \E s \in Sources : releaseResidualReservation(s)
    \/ \E c \in Campaigns, next \in [money : BOOLEAN, mult : 1..MaxMult] : updateProgram(c, next)
    \/ \E o \in Orgs, ref \in Refs, amount \in CashAmounts : recordFundingEntry(o, ref, amount)
    \/ \E rd \in Payouts, u \in Users, gross \in Grosses : settlePayoutFunding(rd, u, gross)

Next == (Deposits \/ TripSteps \/ Operators) /\ InRange(f')

Spec == Init /\ [][Next]_vars

-----------------------------------------------------------------------------
(* Properties.                                                             *)

\* A campaign's counters agree with its rows: held is what its reservations
\* still hold, spent what its earnings are owed or were paid.
CampaignConserved ==
    \A c \in Campaigns :
        /\ f.campaign[c].held
             = SumFunction([s \in Sources |-> IF CampaignOf[s] = c THEN f.res[s].remaining ELSE 0])
        /\ f.campaign[c].spent
             = SumFunction([e \in Earnings |-> IF CampaignOf[SourceOf(e)] = c THEN f.commit[e].held ELSE 0])

\* No obligation is paid beyond what is held for it, also when a reviewer
\* rejects an item whose reward was already paid out (settleCommittedReward).
PaidWithinHeld == \A e \in Earnings : f.commit[e].paid <= f.commit[e].held

\* The figures an organization's funding page shows add up: what is held is
\* what its active reservations still hold plus its unpaid obligations,
\* whatever order commits, settlements, watermarks, releases, reactivations
\* and payouts run in; the campaigns' counters agree with the same rows.
HeldConserved ==
    /\ \A o \in Orgs :
          LET page == getOrganizationFunding(o)
          IN  page.view.heldRupiah
                = page.view.reservedRemaining + page.commits.heldRupiah - page.commits.paidRupiah
    /\ CampaignConserved
    /\ PaidWithinHeld

\* Confirmed cash is the sum of an account's entries, and one bank reference
\* confirms cash for one organization only (recordFundingEntry).
CashConserved ==
    \A o \in Orgs :
        f.account[o].confirmed
          = SumFunction([k \in DOMAIN cash |-> IF cash[k].org = o THEN cash[k].amount ELSE 0])
          - SumFunction([rd \in Payouts |-> payout[rd][o]])

\* A payout never draws on an obligation a fraud hold or review keeps pending.
PayoutSparesReviews ==
    [][\A e \in Earnings : f.commit[e].pending => f'.commit[e].paid = f.commit[e].paid]_vars

\* What reservations were let in beyond capacity.
Shortfalls(o) == SumFunction([s \in Sources |-> IF OrgOf[s] = o THEN f.res[s].short ELSE 0])

\* Cash withdrawn by negative corrections.
Withdrawn(o) ==
    SumFunction([k \in DOMAIN cash |-> IF cash[k].org = o /\ cash[k].amount < 0 THEN -cash[k].amount ELSE 0])

\* An organization holds no more than its confirmed cash, apart from what the
\* page reports: obligations beyond a reservation (uncovered), shortfalls that
\* shadow mode let pass (none under enforcement), and cash an operator withdrew
\* by a correction afterwards.  The cash itself is what was recorded and paid.
CapacityRespected ==
    /\ CashConserved
    /\ \A o \in Orgs :
          LET view == getOrganizationFunding(o).view
          IN  -view.capacity <= view.uncovered + Withdrawn(o) + (IF Enforced THEN 0 ELSE Shortfalls(o))

\* Under enforcement a trip's return reward is always covered by its issuance
\* reservation, whatever cancellations, reopenings, further bags and program
\* changes came before (guardProgramRewardChange, reserveTripIssuance).
TripRewardCovered ==
    Enforced => \A t \in Trips : f.commit[t].uncovered = 0 /\ ~f.res[t].late

\* Once the watermark is in and nothing accepted is left to review, a session
\* holds no capacity: the last decision closes what the watermark kept.
WatermarkedResidueFreed ==
    \A s \in marked : s \in activeReservations(OrgOf[s]) => sessionReviewExposure(f, s, item) > 0
=============================================================================
