------------------------------ MODULE LockOrder ------------------------------
(***************************************************************************)
(* The row locks of the money, session, trip and pickup transactions       *)
(* (lib/db-locks.ts) and what PostgreSQL does when they wait for each      *)
(* other.                                                                  *)
(*                                                                         *)
(* Each definition below is the sequence of rows one handler locks, in the *)
(* order in which its statements take them; an UPDATE locks its row like   *)
(* FOR NO KEY UPDATE does.  The rows are those of one user with one        *)
(* machine, session of two items, campaign, trip, pickup and payout, and   *)
(* of a second user whose payout draws on the same two funding accounts.   *)
(* A lock a transaction already holds is not waited for, so re-entrant     *)
(* locks are left out.  A row is held until COMMIT or ROLLBACK.            *)
(***************************************************************************)
EXTENDS Integers, Sequences

CONSTANT Backends       \* concurrent transactions

VARIABLES
    txn,                \* per backend: the handler it runs ("none": between transactions)
    taken               \* per backend: how many locks of its plan it holds

lockVars == <<txn, taken>>

-----------------------------------------------------------------------------
(* Classes in the documented global order; two rows of a class by id.       *)

\* db-locks.ts: User -> PayoutAccount -> RewardFundingAccount -> Campaign ->
\* Machine -> Trip (-> bags) -> DepositSession -> DepositItem -> Redemption;
\* a pickup after its machine, the audit chain lock last.
LockRank ==
    [user |-> 1, other |-> 2, payoutAccount |-> 3, account1 |-> 4, account2 |-> 5,
     campaign |-> 6, machine |-> 7, trip |-> 8, bags |-> 9, session |-> 10,
     item1 |-> 11, item2 |-> 12, redemption |-> 13, redemption2 |-> 14,
     link |-> 15, pickup |-> 16, partner |-> 17, chain |-> 18]

\* Mutant: the owner's finish locks the session it ends before the machine.
sessionBeforeMachine == <<"user", "session", "machine", "item1", "item2">>

\* decideStart, and expireTimedOutSessions for the sessions in the way.
startLocks == <<"user", "account1", "campaign", "machine", "session", "item1", "item2">>
\* ensureSessionPolicy.
policyLocks == <<"user", "account1", "campaign", "machine", "session">>
\* endDepositByOwner; past the deadline it applies the timeout policy.
ownerEndLocks == <<"user", "machine", "session", "item1", "item2">>
\* currentMachineSession on a machine poll.
pollLocks == <<"user", "machine", "session", "item1", "item2">>
\* handleAcceptance.
acceptanceLocks(i) == <<"user", "account1", "campaign", "session", i>>
\* handleItemRejected, recordItemEvidence and holdItemForFraud.
evidenceLocks(i) == <<"user", "session", i>>
\* ITEM_DETECTED, CHAMBER_OPENED and CHAMBER_TIMEOUT: the session alone.
detectedLocks == <<"session">>
\* SENSOR_SEQUENCE: depositItem.update, then flagAnomaly's depositSession.update.
sensorLocks(i) == <<i, "session">>
\* SAFE_STATE_ENTERED: machine.update, then depositSession.update.
safeStateLocks == <<"machine", "session">>
\* HEARTBEAT, STATUS_CHANGED and FILL_LEVEL_UPDATED: the machine alone.
machineLocks == <<"machine">>
\* handleCloseWatermark.
watermarkLocks == <<"user", "account1", "campaign", "machine", "session">>
\* decideDepositReview.
reviewLocks(i) == <<"user", "account1", "campaign", "machine", "session", i>>
\* requestRedemption holds the destination account after the user.
requestLocks == <<"other", "payoutAccount">>
\* lockRedemptionForChange, a success: every account the earnings draw from.
payoutLocks(u, r) == <<u, "account1", "account2", r>>
\* lockRedemptionForChange, any other transition.
redemptionLocks(u, r) == <<u, r>>
\* anonymizeAccount, audited in its transaction.
erasureLocks == <<"user", "payoutAccount", "redemption", "chain">>
\* lockTripAggregate (check-out, bag scan) and bag issuance.
tripLocks == <<"user", "account1", "campaign", "trip", "bags">>
\* PATCH campaigns/[id]; PATCH organizations/[id] and funding entries.
campaignLocks == <<"campaign">>
accountLocks(a) == <<a>>
\* acceptInvitation: the account, then the organization's link row.
inviteLocks == <<"user", "link">>
\* transitionPickup "complete" and createReplacementPickup, audited inside.
completeLocks == <<"machine", "pickup", "partner", "chain">>
\* assignPickup and the field transitions, audited inside.
pickupLocks == <<"pickup", "partner", "chain">>
\* escalateOverduePickups: one conditional UPDATE, audited inside.
escalateLocks == <<"pickup", "chain">>

LockPlan ==
    [start |-> startLocks, policy |-> policyLocks, ownerEnd |-> ownerEndLocks,
     poll |-> pollLocks, accept1 |-> acceptanceLocks("item1"),
     accept2 |-> acceptanceLocks("item2"), evidence1 |-> evidenceLocks("item1"),
     evidence2 |-> evidenceLocks("item2"), detected |-> detectedLocks,
     sensor1 |-> sensorLocks("item1"), sensor2 |-> sensorLocks("item2"),
     safeState |-> safeStateLocks, machineEvent |-> machineLocks,
     watermark |-> watermarkLocks, review1 |-> reviewLocks("item1"),
     review2 |-> reviewLocks("item2"), request |-> requestLocks,
     payout1 |-> payoutLocks("user", "redemption"),
     payout2 |-> payoutLocks("other", "redemption2"),
     redemption1 |-> redemptionLocks("user", "redemption"),
     redemption2 |-> redemptionLocks("other", "redemption2"),
     erasure |-> erasureLocks, trip |-> tripLocks, campaign |-> campaignLocks,
     account1 |-> accountLocks("account1"), account2 |-> accountLocks("account2"),
     invite |-> inviteLocks, complete |-> completeLocks, pickup |-> pickupLocks,
     escalate |-> escalateLocks]

Handlers == DOMAIN LockPlan
SensorHandlers == {"sensor1", "sensor2"}

-----------------------------------------------------------------------------
Plan(b) == IF txn[b] = "none" THEN <<>> ELSE LockPlan[txn[b]]
Held(b) == {Plan(b)[n] : n \in 1..taken[b]}
Wants(b, r) == taken[b] < Len(Plan(b)) /\ Plan(b)[taken[b] + 1] = r
WaitsFor(b, c) == b # c /\ \E r \in Held(c) : Wants(b, r)

\* A set of backends none of which can go on before another of the set does.
Deadlocked(S) == S # {} /\ \A b \in S : \E c \in S : WaitsFor(b, c)

BeginTxn(b, h) ==
    /\ txn[b] = "none"
    /\ txn' = [txn EXCEPT ![b] = h]
    /\ taken' = [taken EXCEPT ![b] = 0]

TakeLock(b) ==
    /\ taken[b] < Len(Plan(b))
    /\ \A c \in Backends : ~WaitsFor(b, c)
    /\ taken' = [taken EXCEPT ![b] = @ + 1]
    /\ UNCHANGED txn

EndTxn(b) ==
    /\ txn' = [txn EXCEPT ![b] = "none"]
    /\ taken' = [taken EXCEPT ![b] = 0]

CommitTxn(b) == txn[b] # "none" /\ taken[b] = Len(Plan(b)) /\ EndTxn(b)

\* An early return (any 404/409 under the locks), lock_timeout (5 s) or
\* PostgreSQL's deadlock detector: 503 or an ingest error, nothing committed.
AbortTxn(b) == txn[b] # "none" /\ taken[b] < Len(Plan(b)) /\ EndTxn(b)

LockInit == txn = [b \in Backends |-> "none"] /\ taken = [b \in Backends |-> 0]

LockNext ==
    \E b \in Backends :
        \/ \E h \in Handlers : BeginTxn(b, h)
        \/ TakeLock(b) \/ CommitTxn(b) \/ AbortTxn(b)

LockSpec == LockInit /\ [][LockNext]_lockVars

-----------------------------------------------------------------------------
\* Whatever transactions run together, they come to wait for each other in a
\* circle only where a SENSOR_SEQUENCE event takes part: every other handler
\* keeps the order of lib/db-locks.ts, while side-effects.ts:285-299 updates
\* the item before the session.
OnlySensorDeadlocks ==
    \A S \in SUBSET Backends : Deadlocked(S) => \E b \in S : txn[b] \in SensorHandlers
=============================================================================
