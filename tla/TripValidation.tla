--------------------------- MODULE TripValidation ---------------------------
(***************************************************************************)
(* A trip, its bags and its outcome: lib/trip-validation.ts, lib/trip.ts,  *)
(* lib/trip-issuance.ts, lib/tourism.ts and the routes trips, trash-bags   *)
(* and manual-validations.                                                 *)
(*                                                                         *)
(* One trip.  A transaction under the trip locks re-reads the aggregate    *)
(* and is one step; what a request read before it (the status of PATCH     *)
(* trips/[id], the checks of an issuance) is kept until it commits.        *)
(* What the reservation does to the organization's money is in module      *)
(* RewardFunding; here it is the ceiling held for the trip.                *)
(***************************************************************************)
EXTENDS Naturals, FiniteSets

CONSTANTS
    Bags,           \* bag rows that may be issued
    Conditions,     \* conditions an operator reports
    MaxReopens      \* bound: cancelled trips opened again

CONDITION_STATUSES == {"GOOD", "PARTIAL", "POOR", "NOT_RETURNED"}

ASSUME TripAssumption ==
    IsFiniteSet(Bags) /\ Conditions \subseteq CONDITION_STATUSES /\ MaxReopens \in Nat

VARIABLES
    trip,           \* status, reward (money program with a recipient), agent (has one)
    bags,           \* per bag: not issued, issued (status null), or its condition
    invited,        \* the travel agent is INVITED by the organization
    held,           \* ceiling of the ACTIVE issuance reservation; 0: none
    earned,         \* amounts of the trip return EARN rows
    checkOuts,      \* CHECK_OUT validations
    tripPickups,        \* BANK_SAMPAH_PICKUP validations
    patching,       \* status changes between the read and the transaction
    issuing,        \* an issuance passed its checks and has not locked yet
    reopened

tripVars == <<trip, bags, invited, held, earned, checkOuts, tripPickups, patching, issuing, reopened>>

TripStatus == {"none", "PLANNED", "ACTIVE", "COMPLETED", "CANCELLED"}
PER_BAG    == 2000      \* TRASH_BAG_REWARD_PER_BAG

TripInit ==
    /\ trip = [status |-> "none", reward |-> FALSE, agent |-> FALSE]
    /\ bags = [b \in Bags |-> "absent"] /\ invited = TRUE
    /\ held = 0 /\ earned = {} /\ checkOuts = 0 /\ tripPickups = 0
    /\ patching = {} /\ issuing = FALSE /\ reopened = 0

----------------------------------------------------------------------------
(* The outcome, from the bag rows alone.                                   *)

Issued(rows)     == {b \in Bags : rows[b] # "absent"}
Reviewed(rows)   == {b \in Bags : rows[b] \in CONDITION_STATUSES}
Returned(rows)   == {b \in Reviewed(rows) : rows[b] # "NOT_RETURNED"}
Rewardable(rows) == {b \in Bags : rows[b] \in {"GOOD", "PARTIAL"}}

aggregateBagCondition(rows) ==
    LET known == {rows[b] : b \in Reviewed(rows)} IN
    CASE known = {}               -> "none"
      [] known = {"NOT_RETURNED"} -> "NOT_RETURNED"
      [] known = {"GOOD"}         -> "GOOD"
      [] "POOR" \in known         -> "POOR"
      [] OTHER                    -> "PARTIAL"

calculateCompliance(rows, appCompleted) ==
    LET assigned == Cardinality(Issued(rows))
        returned == Cardinality(Returned(rows))
        condition == aggregateBagCondition(rows)
    IN  (IF appCompleted THEN 30 ELSE 0)
        + (IF returned = 0 THEN 0 ELSE IF returned >= assigned THEN 40 ELSE 20)
        + (CASE condition = "GOOD" -> 30 [] condition = "PARTIAL" -> 20 [] OTHER -> 0)

evaluateTripBags(rows, appCompleted) ==
    IF trip.reward
    THEN (Cardinality(Rewardable(rows)) * PER_BAG * calculateCompliance(rows, appCompleted)) \div 100
    ELSE 0

\* The closing of refreshTripOutcome: one EARN unless there is one, and the
\* reservation's residue is given back.
Closed(rows, appCompleted) ==
    LET amount == evaluateTripBags(rows, appCompleted) IN
    /\ trip' = [trip EXCEPT !.status = "COMPLETED"]
    /\ earned' = IF amount > 0 /\ earned = {} THEN {<<amount, 1>>} ELSE earned
    /\ held' = 0
    /\ checkOuts' = checkOuts + 1

----------------------------------------------------------------------------
(* Trips and bags.                                                         *)

\* POST trips: a money program needs a recipient, the agent must be invited.
CreateTrip(reward, agent) ==
    /\ trip.status = "none" /\ (agent => invited)
    /\ trip' = [status |-> "PLANNED", reward |-> reward, agent |-> agent]
    /\ UNCHANGED <<bags, invited, held, earned, checkOuts, tripPickups, patching, issuing, reopened>>

AgentBlocked == trip.agent /\ ~invited

\* A travel agent is suspended, or invited again.
AgentChanges ==
    /\ trip.agent /\ invited' = ~invited
    /\ UNCHANGED <<trip, bags, held, earned, checkOuts, tripPickups, patching, issuing, reopened>>

Issuable == trip.status \in {"PLANNED", "ACTIVE"}

IssueChecks ==
    /\ ~issuing /\ Issuable /\ ~AgentBlocked /\ issuing' = TRUE
    /\ UNCHANGED <<trip, bags, invited, held, earned, checkOuts, tripPickups, patching, reopened>>

\* Under the locks the status is read again; the reservation covers every
\* bag of the trip before the new rows exist.
reserveTripIssuance(rows) == IF trip.reward THEN rows * PER_BAG ELSE 0

\* Mutant: the trip's status is not read again under its lock.
IssuedAsPlanned(new) ==
    /\ issuing /\ issuing' = FALSE
    /\ new # {} /\ new \cap Issued(bags) = {}
    /\ held' = reserveTripIssuance(Cardinality(Issued(bags) \cup new))
    /\ bags' = [b \in Bags |-> IF b \in new THEN "issued" ELSE bags[b]]
    /\ UNCHANGED <<trip, invited, earned, checkOuts, tripPickups, patching, reopened>>

issueTrashBags(new) ==
    /\ issuing /\ issuing' = FALSE
    /\ new # {} /\ new \cap Issued(bags) = {}
    /\ IF Issuable
       THEN /\ held' = reserveTripIssuance(Cardinality(Issued(bags) \cup new))
            /\ bags' = [b \in Bags |-> IF b \in new THEN "issued" ELSE bags[b]]
       ELSE UNCHANGED <<held, bags>>
    /\ UNCHANGED <<trip, invited, earned, checkOuts, tripPickups, patching, reopened>>

\* PATCH trips/[id]: the status is read and the change allowed ...
canManuallySetTripStatus(current, next) ==
    \/ next = "CANCELLED" /\ current \in {"PLANNED", "ACTIVE", "CANCELLED"}
    \/ next = "PLANNED" /\ current \in {"CANCELLED", "PLANNED"}

PatchReads(next) ==
    /\ trip.status # "none" /\ canManuallySetTripStatus(trip.status, next)
    /\ patching' = patching \cup {<<trip.status, next>>}
    /\ UNCHANGED <<trip, bags, invited, held, earned, checkOuts, tripPickups, issuing, reopened>>

\* ... and applied under the locks if the status is still the one read.
changeTripStatus(change) ==
    /\ change \in patching /\ patching' = patching \ {change}
    /\ LET expected == change[1]
           next     == change[2]
           reopens  == expected = "CANCELLED" /\ next = "PLANNED"
       IN  IF trip.status # expected THEN UNCHANGED <<trip, held, reopened>>
           ELSE /\ reopens => reopened < MaxReopens
                /\ reopened' = IF reopens THEN reopened + 1 ELSE reopened
                /\ trip' = [trip EXCEPT !.status = next]
                /\ held' = CASE next = "CANCELLED" -> 0
                             [] reopens -> reserveTripIssuance(Cardinality(Issued(bags)))
                             [] OTHER -> held
    /\ UNCHANGED <<bags, invited, earned, checkOuts, tripPickups, issuing>>

----------------------------------------------------------------------------
(* The gate.                                                               *)

\* POST manual-validations, CHECK_IN.
CheckIn ==
    /\ trip.status = "PLANNED" /\ ~AgentBlocked
    /\ trip' = [trip EXCEPT !.status = "ACTIVE"]
    /\ UNCHANGED <<bags, invited, held, earned, checkOuts, tripPickups, patching, issuing, reopened>>

\* CHECK_OUT with bag ids: bags that were not listed nor scanned before did
\* not come back.
BulkCheckOut(listed, appCompleted) ==
    LET rows == [b \in Bags |-> IF b \in DOMAIN listed THEN listed[b]
                                ELSE IF bags[b] = "issued" THEN "NOT_RETURNED" ELSE bags[b]]
    IN  /\ trip.status = "ACTIVE" /\ ~AgentBlocked
        /\ DOMAIN listed # {} /\ DOMAIN listed \subseteq Issued(bags)
        /\ bags' = rows /\ Closed(rows, appCompleted)
        /\ UNCHANGED <<invited, tripPickups, patching, issuing, reopened>>

\* CHECK_OUT by a count: refused for a reward trip with bags; the bags stay
\* as they are and no money is earned.
CountCheckOut ==
    /\ trip.status = "ACTIVE" /\ ~AgentBlocked
    /\ ~(trip.reward /\ Issued(bags) # {})
    /\ trip' = [trip EXCEPT !.status = "COMPLETED"] /\ checkOuts' = checkOuts + 1
    /\ UNCHANGED <<bags, invited, held, earned, tripPickups, patching, issuing, reopened>>

RecordPickup ==
    /\ trip.status = "COMPLETED" /\ tripPickups = 0 /\ tripPickups' = 1
    /\ UNCHANGED <<trip, bags, invited, held, earned, checkOuts, patching, issuing, reopened>>

\* Only the scan that reviews the last unreviewed bag closes the trip.
Closes(b, rows) == bags[b] = "issued" /\ Reviewed(rows) = Issued(rows)

\* PATCH trash-bags on an ACTIVE trip.
Scan(b, status, appCompleted) ==
    LET rows == [bags EXCEPT ![b] = status] IN
    /\ trip.status = "ACTIVE" /\ ~AgentBlocked
    /\ bags[b] # "absent" /\ bags[b] # status
    /\ bags' = rows
    /\ IF Closes(b, rows) THEN Closed(rows, appCompleted)
       ELSE UNCHANGED <<trip, earned, held, checkOuts>>
    /\ UNCHANGED <<invited, tripPickups, patching, issuing, reopened>>

\* The same on a COMPLETED trip, with a reason: bag and compliance only.
Correct(b, status) ==
    /\ trip.status = "COMPLETED" /\ bags[b] \notin {"absent", status}
    /\ bags' = [bags EXCEPT ![b] = status]
    /\ UNCHANGED <<trip, invited, held, earned, checkOuts, tripPickups, patching, issuing, reopened>>

----------------------------------------------------------------------------
Listings == UNION {[S -> Conditions] : S \in SUBSET Bags}

TripNext ==
    \/ \E reward, agent \in BOOLEAN : CreateTrip(reward, agent)
    \/ AgentChanges
    \/ IssueChecks
    \/ \E new \in SUBSET Bags : issueTrashBags(new)
    \/ \E next \in {"PLANNED", "CANCELLED"} : PatchReads(next)
    \/ \E change \in patching : changeTripStatus(change)
    \/ CheckIn \/ CountCheckOut \/ RecordPickup
    \/ \E listed \in Listings, appCompleted \in BOOLEAN : BulkCheckOut(listed, appCompleted)
    \/ \E b \in Bags, status \in Conditions :
         Correct(b, status) \/ \E appCompleted \in BOOLEAN : Scan(b, status, appCompleted)

TripSpec == TripInit /\ [][TripNext]_tripVars

----------------------------------------------------------------------------
(* Properties.                                                             *)

\* "the last two bags scanned in parallel still close the trip exactly once
\* and earn exactly once" (trash-bags PATCH), and so for a check-out, a
\* cancellation, a reopening and an issuance that overlap: money is earned by
\* a closed trip only, once and within what its reservation could cover; a
\* closed reward trip has no bag left to review and holds nothing.
TripSettledOnce ==
    /\ checkOuts = IF trip.status = "COMPLETED" THEN 1 ELSE 0
    /\ Cardinality(earned) <= checkOuts
    /\ \A row \in earned : row[1] <= Cardinality(Issued(bags)) * PER_BAG
    /\ trip.status \in {"COMPLETED", "CANCELLED"} => held = 0
    /\ trip.reward /\ trip.status = "COMPLETED" => Reviewed(bags) = Issued(bags)
    /\ trip.reward /\ Issuable => held = Cardinality(Issued(bags)) * PER_BAG
=============================================================================
