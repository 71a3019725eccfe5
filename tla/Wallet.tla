------------------------------- MODULE Wallet -------------------------------
(***************************************************************************)
(* The wallet of the users: payout requests (lib/wallet-service.ts), the   *)
(* append-only reward ledger (lib/ledger.ts), keyed money effects and      *)
(* reconciliation cases (lib/reward-credit.ts, lib/reward-cases.ts), and   *)
(* the writers of deposit money: the acceptance point, the fraud hold and  *)
(* the deposit review.                                                     *)
(*                                                                         *)
(* Every one of them is a ReadCommitted transaction that first locks the   *)
(* User row, then re-reads what it decides on, then writes.  Here a        *)
(* transaction is LockUser -> Read -> one committing action, or Abort at   *)
(* any point: a lock timeout, a crash or an HttpError rolls back and       *)
(* leaves nothing.  The committing action decides on the snapshot taken by *)
(* Read and writes to the rows as they are now, so a lock that does not    *)
(* exclude would show as a lost update.                                    *)
(*                                                                         *)
(* Abstractions: a redemption is named by its (user, idempotency key), the *)
(* database's unique index; notes, destinations and audit rows are left    *)
(* out; prices are the set Rewards; the funding side of an effect is       *)
(* module RewardFunding; rows written before the present code (legacy      *)
(* rows) do not occur.                                                     *)
(***************************************************************************)
EXTENDS Integers, Functions, FiniteSets

CONSTANTS Users,         \* wallet owners
          Txns,          \* database connections, each running one transaction at a time
          Keys,          \* idempotency keys a client may send
          Items,         \* deposit items, per user
          Refs,          \* transfer references an operator may type
          Amounts,       \* amounts a client may ask for
          Rewards,       \* prices an item may be given
          MinRedemption, \* the configured minimum payout
          NoUser, NoTxn, NoRef, ErasedRef

ASSUME WalletConstants ==
    /\ IsFiniteSet(Users) /\ IsFiniteSet(Keys) /\ IsFiniteSet(Items)    \* rows of a database
    /\ NoUser \notin Users
    /\ NoTxn \notin Txns
    /\ NoRef \notin Refs
    /\ ErasedRef \notin Refs \cup {NoRef}
    /\ Amounts \subseteq Nat \ {0}
    /\ Rewards \subseteq Nat
    /\ MinRedemption \in Nat

VARIABLES
    db,       \* the committed rows of each user
    account,  \* status of each user's PayoutAccount
    holder,   \* which transaction holds the User row lock
    pc,       \* progress of each transaction
    who,      \* the user a transaction locked
    snap,     \* the rows a transaction read under its lock
    share,    \* the PayoutAccount status it read and holds FOR SHARE, or "NONE"
    acked     \* transfer references the service answered a success for

vars == <<db, account, holder, pc, who, snap, share, acked>>

-----------------------------------------------------------------------------
(* Rows.                                                                   *)

RedemptionStatus == {"REQUESTED", "APPROVED", "PROCESSING", "SUCCESS", "FAILED", "REVERSED"}
TERMINAL_STATUSES == {"SUCCESS", "FAILED", "REVERSED"}
LedgerStatus == {"PENDING", "AVAILABLE", "REDEEMED", "REVERSED", "REJECTED"}
EntryType == {"EARN", "REDEEM", "ADJUST", "REVERSE"}

NoRow == [type |-> "NONE", amount |-> 0, status |-> "NONE"]
LedgerRow == [type : EntryType, amount : Int, status : LedgerStatus] \cup {NoRow}

NoRedemption == [status |-> "NONE", amount |-> 0, ref |-> NoRef, proof |-> FALSE, recon |-> FALSE]
Redemption == [status : RedemptionStatus, amount : Amounts, ref : Refs \cup {NoRef, ErasedRef},
               proof : BOOLEAN, recon : BOOLEAN] \cup {NoRedemption}

\* accepted: acceptanceEventId is set; final: a reviewer's REVIEW_* code (isReviewFinal)
DepositItem == [status : {"PENDING", "ACCEPTED", "REVIEW", "REJECTED"}, accepted : BOOLEAN,
                final : BOOLEAN, fraud : BOOLEAN, reward : Nat]

NoCase == [status |-> "NONE", reason |-> "NONE", amount |-> 0]
RewardCase == [status : {"OPEN", "RESOLVED"}, reason : {"ALREADY_PAID_OUT", "RECIPIENT_ERASED"},
               amount : Nat] \cup {NoCase}

\* Business keys of money effects and of the cases that stand for refused ones:
\* deposit-item:<i>:earn, review:<i>:decision:v1, fraud:<i>:hold:v1.
EffectKeys == {"earn", "decision"} \X Items
CaseKeys == {"earn", "decision", "fraud"} \X Items

Wallets == [red : [Keys -> Redemption], reserve : [Keys -> LedgerRow], item : [Items -> DepositItem],
            effect : [EffectKeys -> LedgerRow], case : [CaseKeys -> RewardCase], erased : BOOLEAN]

-----------------------------------------------------------------------------
(* Balance.                                                                *)

\* The (type, status) groups computeBalance adds to `available`.
Spendable == {<<"EARN", "AVAILABLE">>, <<"REDEEM", "PENDING">>, <<"REDEEM", "REDEEMED">>,
              <<"ADJUST", "AVAILABLE">>, <<"REVERSE", "AVAILABLE">>}

Counted(row) == IF <<row.type, row.status>> \in Spendable THEN row.amount ELSE 0

available(w) == SumFunction([k \in Keys |-> Counted(w.reserve[k])])
                + SumFunction([e \in EffectKeys |-> Counted(w.effect[e])])

pending(w) == SumFunction([e \in EffectKeys |->
                 IF w.effect[e].status = "PENDING" THEN w.effect[e].amount ELSE 0])

IsOpenDebit(c) == c.status = "OPEN" /\ c.reason = "ALREADY_PAID_OUT"

\* heldByOpenDebitCases: each deposit item once, at its largest open debit case.
HeldByItem(w, i) ==
    LET open == {w.case[e].amount : e \in {x \in CaseKeys : x[2] = i /\ IsOpenDebit(w.case[x])}}
    IN  IF open = {} THEN 0 ELSE CHOOSE a \in open : \A b \in open : a >= b

held(w) == SumFunction([i \in Items |-> HeldByItem(w, i)])

expectedReserveStatus(status) ==
    CASE status = "SUCCESS" -> "REDEEMED"
      [] status \in {"FAILED", "REVERSED"} -> "REVERSED"
      [] OTHER -> "PENDING"

-----------------------------------------------------------------------------
(* Transactions.                                                           *)

NewItem(status) ==
    [status |-> status, accepted |-> FALSE, final |-> FALSE, fraud |-> FALSE, reward |-> 0]

BlankWallet(it) ==
    [red |-> [k \in Keys |-> NoRedemption], reserve |-> [k \in Keys |-> NoRow], item |-> it,
     effect |-> [e \in EffectKeys |-> NoRow], case |-> [e \in CaseKeys |-> NoCase], erased |-> FALSE]

\* An item is created PENDING, or in REVIEW when its type is unknown.
NewWallets == {BlankWallet(it) : it \in [Items -> {NewItem("PENDING"), NewItem("REVIEW")}]}

NothingRead == BlankWallet([i \in Items |-> NewItem("PENDING")])

Init ==
    /\ db \in [Users -> NewWallets]
    /\ account = [u \in Users |-> "ENABLED"]
    /\ holder = [u \in Users |-> NoTxn]
    /\ pc = [t \in Txns |-> "idle"]
    /\ who = [t \in Txns |-> NoUser]
    /\ snap = [t \in Txns |-> NothingRead]
    /\ share = [t \in Txns |-> "NONE"]
    /\ acked = [u \in Users |-> [k \in Keys |-> {}]]

\* Mutant: a writer that forgot lockUser.
RowNotLocked(u) == TRUE

\* SELECT ... FOR NO KEY UPDATE on the User row: waits while another holds it.
RowFree(u) == holder[u] = NoTxn

LockUser(t, u) ==
    /\ pc[t] = "idle"
    /\ RowFree(u)
    /\ holder' = [holder EXCEPT ![u] = t]
    /\ who' = [who EXCEPT ![t] = u]
    /\ pc' = [pc EXCEPT ![t] = "locked"]
    /\ UNCHANGED <<db, account, snap, share, acked>>

\* Everything the decision depends on is re-read under the lock; a payout
\* request also takes its PayoutAccount row FOR SHARE.
Read(t, sharing) ==
    /\ pc[t] = "locked"
    /\ snap' = [snap EXCEPT ![t] = db[who[t]]]
    /\ share' = [share EXCEPT ![t] = IF sharing THEN account[who[t]] ELSE "NONE"]
    /\ pc' = [pc EXCEPT ![t] = "read"]
    /\ UNCHANGED <<db, account, holder, who, acked>>

\* COMMIT or ROLLBACK: the transaction is over and its row locks are released.
Release(t) ==
    /\ pc' = [pc EXCEPT ![t] = "idle"]
    /\ who' = [who EXCEPT ![t] = NoUser]
    /\ snap' = [snap EXCEPT ![t] = NothingRead]
    /\ share' = [share EXCEPT ![t] = "NONE"]
    /\ holder' = [u \in Users |-> IF holder[u] = t THEN NoTxn ELSE holder[u]]

\* Lock timeout, deadlock victim, crash, or an HttpError after the locks
\* (409/422/404): nothing was written, the client may retry the same key.
Abort(t) ==
    /\ pc[t] # "idle"
    /\ Release(t)
    /\ UNCHANGED <<db, account, acked>>

Committing(t) == pc[t] = "read" /\ share[t] = "NONE"

-----------------------------------------------------------------------------
(* Payout requests.                                                        *)

\* Mutant: open debit cases are forgotten.
CoversIgnoringCases(w, amount) == available(w) >= amount

\* The balance left after the open debit cases covers the amount.
Covers(w, amount) == available(w) - held(w) >= amount

\* A request and the reserve behind it are written in one transaction.
WriteRedemption(cur, k, r, row) == [cur EXCEPT !.red[k] = r, !.reserve[k] = row]

requestRedemption(t, k, amount) ==
    LET u == who[t] IN
    /\ pc[t] = "read" /\ share[t] = "ENABLED"
    /\ snap[t].red[k] = NoRedemption
    /\ amount >= MinRedemption
    /\ Covers(snap[t], amount)
    /\ db[u].red[k] = NoRedemption                      \* unique (userId, idempotencyKey)
    /\ db' = [db EXCEPT ![u] = WriteRedemption(db[u], k,
                 [status |-> "REQUESTED", amount |-> amount, ref |-> NoRef, proof |-> FALSE, recon |-> FALSE],
                 [type |-> "REDEEM", amount |-> -amount, status |-> "PENDING"])]
    /\ Release(t)
    /\ UNCHANGED <<account, acked>>

\* Mutant: a cancel leaves its reserve pending.
TransitionsKeepingReserve ==
    [approve |-> [from |-> {"REQUESTED"}, to |-> "APPROVED", reserve |-> "PENDING"],
     process |-> [from |-> {"APPROVED"}, to |-> "PROCESSING", reserve |-> "PENDING"],
     success |-> [from |-> {"PROCESSING"}, to |-> "SUCCESS", reserve |-> "REDEEMED"],
     fail    |-> [from |-> {"REQUESTED", "APPROVED", "PROCESSING"}, to |-> "FAILED", reserve |-> "REVERSED"],
     cancel  |-> [from |-> {"REQUESTED"}, to |-> "REVERSED", reserve |-> "PENDING"]]

TRANSITIONS ==
    [approve |-> [from |-> {"REQUESTED"}, to |-> "APPROVED", reserve |-> "PENDING"],
     process |-> [from |-> {"APPROVED"}, to |-> "PROCESSING", reserve |-> "PENDING"],
     success |-> [from |-> {"PROCESSING"}, to |-> "SUCCESS", reserve |-> "REDEEMED"],
     fail    |-> [from |-> {"REQUESTED", "APPROVED", "PROCESSING"}, to |-> "FAILED", reserve |-> "REVERSED"],
     cancel  |-> [from |-> {"REQUESTED"}, to |-> "REVERSED", reserve |-> "REVERSED"]]

RedemptionActions == {"approve", "process", "success", "fail", "cancel"}

\* loadRedeemReserve: the live reserve of the request, for the same amount.
HasReserve(w, k) ==
    /\ w.red[k] # NoRedemption
    /\ w.reserve[k].type = "REDEEM"
    /\ w.reserve[k].amount = -w.red[k].amount
    /\ w.reserve[k].status # "REJECTED"

\* An input reference overwrites the stored one, an absent one leaves it.
WithRef(stored, ref) == IF ref = NoRef THEN stored ELSE ref

\* Mutant: any repeat of the outcome is a replay.
AnyReplay(r, ref) == TRUE

\* A repeat is a replay only when it names no other transfer reference.
assertIdenticalReplay(r, ref) == ref = NoRef \/ ref = r.ref

\* The service answered 200 to a success that named a transfer reference.
Acknowledge(u, k, action, ref) ==
    acked' = IF action = "success" /\ ref # NoRef
             THEN [acked EXCEPT ![u][k] = @ \cup {ref}] ELSE acked

\* A terminal outcome resolves an open reconciliation.
ReconciliationAfter(recon, to) == recon /\ to \notin TERMINAL_STATUSES

MayTransition(w, k, action, ref) ==
    /\ HasReserve(w, k)
    /\ w.red[k].status \in TRANSITIONS[action].from
    /\ w.reserve[k].status = "PENDING"
    /\ action = "success" => ref # NoRef \/ w.red[k].proof

transitionRedemption(t, k, action, ref) ==
    LET u == who[t]
        rule == TRANSITIONS[action]
    IN
    /\ Committing(t)
    /\ MayTransition(snap[t], k, action, ref)
    /\ db[u].red[k].status = snap[t].red[k].status                 \* compareAndSet
    /\ rule.reserve # "PENDING" => db[u].reserve[k].status = "PENDING"  \* settleRedeemLedger
    /\ db' = [db EXCEPT ![u] = WriteRedemption(db[u], k,
                 [db[u].red[k] EXCEPT !.status = rule.to, !.ref = WithRef(@, ref),
                                      !.recon = ReconciliationAfter(@, rule.to)],
                 [db[u].reserve[k] EXCEPT !.status = IF rule.reserve = "PENDING" THEN @ ELSE rule.reserve])]
    /\ Acknowledge(u, k, action, ref)
    /\ Release(t)
    /\ UNCHANGED account

\* The outcome the request already has is acknowledged again, nothing is written.
replayTransition(t, k, action, ref) ==
    LET u == who[t] IN
    /\ Committing(t)
    /\ HasReserve(snap[t], k)
    /\ snap[t].red[k].status = TRANSITIONS[action].to
    /\ snap[t].reserve[k].status = expectedReserveStatus(snap[t].red[k].status)
    /\ assertIdenticalReplay(snap[t].red[k], ref)
    /\ Acknowledge(u, k, action, ref)
    /\ Release(t)
    /\ UNCHANGED <<db, account>>

flagRedemptionForReconciliation(t, k) ==
    LET u == who[t] IN
    /\ Committing(t)
    /\ HasReserve(snap[t], k)
    /\ snap[t].red[k].status = "PROCESSING"
    /\ snap[t].reserve[k].status = "PENDING"
    /\ ~snap[t].red[k].recon
    /\ db[u].red[k].status = "PROCESSING" /\ ~db[u].red[k].recon
    /\ db' = [db EXCEPT ![u] = WriteRedemption(db[u], k, [db[u].red[k] EXCEPT !.recon = TRUE], db[u].reserve[k])]
    /\ Release(t)
    /\ UNCHANGED <<account, acked>>

attachRedemptionProof(t, k) ==
    LET u == who[t] IN
    /\ Committing(t)
    /\ snap[t].red[k] # NoRedemption
    /\ snap[t].red[k].status \notin TERMINAL_STATUSES
    /\ db[u].red[k].status = snap[t].red[k].status
    /\ db' = [db EXCEPT ![u] = WriteRedemption(db[u], k, [db[u].red[k] EXCEPT !.proof = TRUE], db[u].reserve[k])]
    /\ Release(t)
    /\ UNCHANGED <<account, acked>>

\* No request of the user holds its PayoutAccount row FOR SHARE.
NotShared(u) == \A t \in Txns : ~(share[t] # "NONE" /\ who[t] = u)

\* PATCH or DELETE of a PayoutAccount by its owner, who cannot log in once
\* erased: takes no User lock, waits for the FOR SHARE holders.
setAccountStatus(u, status) ==
    /\ ~db[u].erased
    /\ NotShared(u)
    /\ account' = [account EXCEPT ![u] = status]
    /\ UNCHANGED <<db, holder, pc, who, snap, share, acked>>

-----------------------------------------------------------------------------
(* Deposit money.                                                          *)

\* openRewardReconciliationCase: once per business key.
OpenCase(w, key, reason, amount) ==
    IF w.case[key] # NoCase THEN w
    ELSE [w EXCEPT !.case[key] = [status |-> "OPEN", reason |-> reason, amount |-> amount]]

Abs(n) == IF n < 0 THEN -n ELSE n

\* Read under the User lock, which the erasure takes too.
isRecipientErased(w) == w.erased

\* applyRewardEffect: at most one row or case per key (a key that carries
\* another amount is a 409, which the item's own status already excludes); a
\* debit the balance does not cover and any effect on an erased account
\* become a case.
applyRewardEffect(w, key, type, amount, status) ==
    IF amount = 0 \/ w.effect[key] # NoRow \/ w.case[key] # NoCase THEN w
    ELSE IF isRecipientErased(w) THEN OpenCase(w, key, "RECIPIENT_ERASED", Abs(amount))
    ELSE IF amount < 0 /\ status = "AVAILABLE" /\ available(w) + amount < 0
         THEN OpenCase(w, key, "ALREADY_PAID_OUT", -amount)
    ELSE [w EXCEPT !.effect[key] = [type |-> type, amount |-> amount, status |-> status]]

\* Writes the rows of one item decided in w over the rows as they are now.
WriteItem(cur, w, i) ==
    [cur EXCEPT !.item[i] = w.item[i],
                !.effect = [e \in EffectKeys |-> IF e[2] = i THEN w.effect[e] ELSE cur.effect[e]],
                !.case = [e \in CaseKeys |-> IF e[2] = i THEN w.case[e] ELSE cur.case[e]]]

WithItem(w, i, row) == [w EXCEPT !.item[i] = row]

CommitItem(t, i, w) ==
    LET u == who[t] IN
    /\ Committing(t)
    /\ db' = [db EXCEPT ![u] = WriteItem(db[u], w, i)]
    /\ Release(t)
    /\ UNCHANGED <<account, acked>>

Undecided(item) == ~item.accepted /\ item.status \in {"PENDING", "REVIEW"}

\* The compare-and-set of the update itself.
StillUndecided(t, i) == Committing(t) /\ Undecided(db[who[t]].item[i])

REVIEW_HOLD(base) == base \div 2

\* decideReward: an invalid weight rejects, an anomaly or mismatch holds half
\* for review, otherwise the full price is paid.
AcceptedWallet(w, i, decision, base) ==
    LET amount == CASE decision = "ACCEPTED" -> base
                    [] decision = "REVIEW"   -> REVIEW_HOLD(base)
                    [] decision = "REJECTED" -> 0
        priced == WithItem(w, i, [w.item[i] EXCEPT !.status = decision, !.accepted = TRUE, !.reward = amount])
    IN  applyRewardEffect(priced, <<"earn", i>>, "EARN", amount,
                          IF decision = "REVIEW" THEN "PENDING" ELSE "AVAILABLE")

handleAcceptance(t, i, decision, base) ==
    /\ Undecided(snap[t].item[i])
    /\ StillUndecided(t, i)
    /\ decision = "ACCEPTED" => ~snap[t].item[i].fraud     \* a fraud flag is an anomaly
    /\ CommitItem(t, i, AcceptedWallet(snap[t], i, decision, base))

\* ITEM_REJECTED: the machine returned an item nobody has decided or paid.
handleItemRejected(t, i) ==
    /\ Undecided(snap[t].item[i])
    /\ \A e \in EffectKeys : e[2] = i => snap[t].effect[e] = NoRow
    /\ StillUndecided(t, i)
    /\ CommitItem(t, i, WithItem(snap[t], i, [snap[t].item[i] EXCEPT !.status = "REJECTED"]))

\* Mutant: an earning that is already paid out is left alone.
HoldIfCovered(w, i) ==
    IF w.effect[<<"earn", i>>].status = "AVAILABLE" /\ available(w) >= w.effect[<<"earn", i>>].amount
    THEN [w EXCEPT !.effect[<<"earn", i>>].status = "PENDING"]
    ELSE w

\* The earning is held while the balance still covers it, else a case records it.
HoldEarning(w, i) ==
    LET earn == w.effect[<<"earn", i>>]
    IN  IF earn.status # "AVAILABLE" THEN w
        ELSE IF available(w) >= earn.amount
             THEN [w EXCEPT !.effect[<<"earn", i>>].status = "PENDING"]
             ELSE OpenCase(w, <<"fraud", i>>, "ALREADY_PAID_OUT", earn.amount)

holdItemForFraud(t, i) ==
    LET item == snap[t].item[i]
        closed == item.status = "REJECTED" \/ item.final
        flagged == [item EXCEPT !.fraud = TRUE]
    IN  CommitItem(t, i, IF closed THEN WithItem(snap[t], i, flagged)
                         ELSE HoldEarning(WithItem(snap[t], i, [flagged EXCEPT !.status = "REVIEW"]), i))

\* planReviewSettlement, first half: the decision releases or rejects the hold.
SettleHold(w, i, pays) ==
    IF w.effect[<<"earn", i>>].status = "PENDING"
    THEN [w EXCEPT !.effect[<<"earn", i>>].status = IF pays THEN "AVAILABLE" ELSE "REJECTED"]
    ELSE w

Committed(w, i) == Counted(w.effect[<<"earn", i>>]) + Counted(w.effect[<<"decision", i>>])

\* Mutant: the hold's release is not counted as committed.
CorrectionBeforeRelease(before, after, i, target) == target - Committed(before, i)

\* target - committed, after the status changes of the hold.
Correction(before, after, i, target) == target - Committed(after, i)

\* planReviewSettlement, second half: the type of the correction.
CorrectionType(w, i, approve, delta) ==
    CASE ~approve -> IF delta < 0 THEN "REVERSE" ELSE "ADJUST"
      [] approve /\ delta > 0 /\ w.effect[<<"earn", i>>] = NoRow -> "EARN"
      [] OTHER -> "ADJUST"

\* resolveItemDebitCases: the decision settled the item's money.
ResolveItemDebitCases(w, i) ==
    [w EXCEPT !.case = [e \in CaseKeys |->
        IF e[2] = i /\ IsOpenDebit(w.case[e]) THEN [w.case[e] EXCEPT !.status = "RESOLVED"]
        ELSE w.case[e]]]

ReviewedWallet(w, i, approve, target) ==
    LET decided == WithItem(w, i, [w.item[i] EXCEPT !.status = IF approve THEN "ACCEPTED" ELSE "REJECTED",
                                                    !.final = TRUE,
                                                    !.fraud = IF approve THEN FALSE ELSE @,
                                                    !.reward = target])
        freed == SettleHold(decided, i, approve /\ target > 0)
        delta == Correction(decided, freed, i, target)
        paid == applyRewardEffect(freed, <<"decision", i>>, CorrectionType(freed, i, approve, delta),
                                  delta, "AVAILABLE")
    IN  IF paid.case[<<"decision", i>>] = NoCase THEN ResolveItemDebitCases(paid, i) ELSE paid

decideDepositReview(t, i, approve, target) ==
    /\ snap[t].item[i].status = "REVIEW"
    /\ approve => snap[t].item[i].accepted
    /\ ~approve => target = 0
    /\ Committing(t) /\ db[who[t]].item[i].status = "REVIEW"
    /\ CommitItem(t, i, ReviewedWallet(snap[t], i, approve, target))

\* An operator closes a case: the ledger is untouched, the hold lifts.
resolveRewardCase(t, key) ==
    LET u == who[t] IN
    /\ Committing(t)
    /\ snap[t].case[key].status = "OPEN"
    /\ db[u].case[key].status = "OPEN"
    /\ db' = [db EXCEPT ![u] = [db[u] EXCEPT !.case[key] = [db[u].case[key] EXCEPT !.status = "RESOLVED"]]]
    /\ Release(t)
    /\ UNCHANGED <<account, acked>>

\* obligationsSettled: nothing is owed and nothing is open or under review.
ObligationsSettled(w) ==
    /\ available(w) <= 0
    /\ pending(w) = 0
    /\ \A k \in Keys : w.red[k].status \in TERMINAL_STATUSES \cup {"NONE"}
    /\ \A i \in Items : w.item[i].status # "REVIEW"

\* References become fingerprints, proofs are detached.
ErasedRedemption(r) ==
    IF r = NoRedemption THEN r
    ELSE [r EXCEPT !.ref = IF r.ref = NoRef THEN NoRef ELSE ErasedRef, !.proof = FALSE]

\* Money rows stay.
ErasedWallet(w) ==
    [w EXCEPT !.erased = TRUE, !.red = [k \in Keys |-> ErasedRedemption(w.red[k])]]

\* The account is anonymized once nothing is owed, and its payout account disabled.
anonymizeAccount(t) ==
    LET u == who[t] IN
    /\ Committing(t)
    /\ ~snap[t].erased
    /\ ObligationsSettled(snap[t])
    /\ NotShared(u)
    /\ db' = [db EXCEPT ![u] = ErasedWallet(db[u])]
    /\ account' = [account EXCEPT ![u] = "DISABLED"]
    /\ Release(t)
    /\ UNCHANGED acked

-----------------------------------------------------------------------------
Payouts(t) ==
    \E k \in Keys :
        \/ \E a \in Amounts : requestRedemption(t, k, a)
        \/ \E act \in RedemptionActions, ref \in Refs \cup {NoRef} :
               transitionRedemption(t, k, act, ref) \/ replayTransition(t, k, act, ref)
        \/ flagRedemptionForReconciliation(t, k)
        \/ attachRedemptionProof(t, k)

Deposits(t) ==
    \E i \in Items :
        \/ \E d \in {"ACCEPTED", "REVIEW", "REJECTED"}, base \in Rewards : handleAcceptance(t, i, d, base)
        \/ handleItemRejected(t, i)
        \/ holdItemForFraud(t, i)
        \/ \E approve \in BOOLEAN, target \in Rewards \cup {0} : decideDepositReview(t, i, approve, target)

Next ==
    \/ \E t \in Txns :
          \/ \E u \in Users : LockUser(t, u)
          \/ \E sharing \in BOOLEAN : Read(t, sharing)
          \/ Abort(t)
          \/ Payouts(t)
          \/ Deposits(t)
          \/ \E key \in CaseKeys : resolveRewardCase(t, key)
          \/ anonymizeAccount(t)
    \/ \E u \in Users, status \in {"ENABLED", "DISABLED"} : setAccountStatus(u, status)

Spec == Init /\ [][Next]_vars

-----------------------------------------------------------------------------
(* Properties.                                                             *)

\* Every variable has its type: rows are well-formed, and a transaction is
\* idle, or has locked a user (lib/db-locks.ts lockUser), or has read it.
TypeOK ==
    /\ db \in [Users -> Wallets]
    /\ account \in [Users -> {"ENABLED", "DISABLED"}]
    /\ holder \in [Users -> Txns \cup {NoTxn}]
    /\ pc \in [Txns -> {"idle", "locked", "read"}]
    /\ who \in [Txns -> Users \cup {NoUser}]
    /\ snap \in [Txns -> Wallets]
    /\ share \in [Txns -> {"NONE", "ENABLED", "DISABLED"}]
    /\ acked \in [Users -> [Keys -> SUBSET Refs]]

\* A reserve row that agrees with its request, or neither exists.
ReserveMatches(r, row) ==
    IF r = NoRedemption THEN row = NoRow
    ELSE row = [type |-> "REDEEM", amount |-> -r.amount, status |-> expectedReserveStatus(r.status)]

\* The reserve backing a payout request always agrees with the request's
\* status and amount (expectedReserveStatus), and no reserve exists without a
\* request: no crash, retry or race of transitions separates the two rows.
ReserveAgrees == \A u \in Users, k \in Keys : ReserveMatches(db[u].red[k], db[u].reserve[k])

\* A ledger row only appears, or changes its status while it is not settled.
RowEvolves(old, new) ==
    \/ old = NoRow
    \/ new = old
    \/ /\ new = [old EXCEPT !.status = new.status]
       /\ old.status \in {"PENDING", "AVAILABLE"}

\* Money stays where a decision put it.  A ledger row is never removed or
\* repriced and changes no more once settled (assertAppendOnlyPolicy); and a
\* new payout request never reserves what an open reconciliation case still
\* claims, nor for an account its owner disabled before it commits, although
\* the owner does so without the User lock (requestRedemption).
HeldMoneyStaysPut ==
    [][\A u \in Users :
        /\ \A e \in EffectKeys : RowEvolves(db[u].effect[e], db'[u].effect[e])
        /\ \A k \in Keys :
            /\ RowEvolves(db[u].reserve[k], db'[u].reserve[k])
            /\ db[u].red[k] = NoRedemption /\ db'[u].red[k] # NoRedemption
                 => available(db'[u]) >= held(db'[u]) /\ account[u] = "ENABLED"]_vars

\* A finally reviewed item has paid exactly what the reviewer decided, or the
\* difference stands in a reconciliation case: whatever order acceptance,
\* fraud holds, payouts and the review happened in.
ItemMoneySettled ==
    \A u \in Users, i \in Items :
        LET w == db[u]
            owed == w.item[i].reward - Committed(w, i)
        IN  w.item[i].final =>
                IF w.case[<<"decision", i>>] = NoCase THEN owed = 0
                ELSE w.case[<<"decision", i>>].amount = Abs(owed)

\* An item waiting for review never leaves its earning freely spendable: the
\* earning is held, or a fraud case exists for it (holdItemForFraud).
FraudHeldOrCased ==
    \A u \in Users, i \in Items :
        db[u].item[i].status = "REVIEW" /\ db[u].effect[<<"earn", i>>].status = "AVAILABLE"
            => db[u].case[<<"fraud", i>>] # NoCase

\* At most one bank transfer is ever acknowledged for a payout request: a
\* success repeated with another reference is refused (assertIdenticalReplay),
\* also after an erasure replaced the stored reference by a fingerprint.
OneTransferReference ==
    \A u \in Users, k \in Keys :
        /\ Cardinality(acked[u][k]) <= 1
        /\ acked[u][k] # {} => /\ db[u].red[k].status = "SUCCESS"
                               /\ db[u].red[k].ref \in acked[u][k] \cup {ErasedRef}

\* A request flagged for reconciliation stays PROCESSING with its money held
\* until a terminal outcome clears the flag (flagRedemptionForReconciliation).
ReconciliationHoldsMoney ==
    \A u \in Users, k \in Keys :
        db[u].red[k].recon => /\ db[u].red[k].status = "PROCESSING"
                              /\ db[u].reserve[k].status = "PENDING"

=============================================================================
