---------------------------- MODULE WalletProofs ----------------------------
(***************************************************************************)
(* Wallet, for any users, connections, keys, items and prices: the types,  *)
(* the exclusion the User row lock gives, and that a reserve never         *)
(* separates from its payout request.                                      *)
(*                                                                         *)
(* ReserveAgrees is not inductive: a commit decides on a snapshot.  The    *)
(* strengthening is LockInv: a transaction past its lock is the holder of  *)
(* its user's row, so what it has read is what is committed now.           *)
(***************************************************************************)
EXTENDS Reconciliation, Sums, TLAPS

\* A transaction past lockUser holds its user's row, and what it read under
\* the lock is still what is committed.
LockInv ==
    /\ \A t \in Txns : pc[t] # "idle" => who[t] \in Users /\ holder[who[t]] = t
    /\ \A t \in Txns : pc[t] = "read" => snap[t] = db[who[t]]

\* An earning is never negative (assertEffect).
EarnsSound(w) == \A i \in Items : w.effect[<<"earn", i>>].amount \in Nat

\* A request agrees with its reserve, and only a PROCESSING one is flagged.
PayoutSound(r, row) == ReserveMatches(r, row) /\ (r.recon => r.status = "PROCESSING")

\* Rows of one user that the invariants speak about.
WalletSound(w) ==
    /\ w \in Wallets
    /\ EarnsSound(w)
    /\ \A k \in Keys : PayoutSound(w.red[k], w.reserve[k])

IInv ==
    /\ TypeOK
    /\ LockInv
    /\ \A u \in Users : WalletSound(db[u])

-----------------------------------------------------------------------------
(* Operators.                                                              *)

\* A blank wallet is sound.
LEMMA BlankSound ==
    ASSUME NEW it \in [Items -> DepositItem]
    PROVE  WalletSound(BlankWallet(it))
  <1> DEFINE w == BlankWallet(it)
  <1>1. w \in Wallets
    BY DEF BlankWallet, Wallets, Redemption, LedgerRow, RewardCase
  <1>2. EarnsSound(w)
    BY DEF BlankWallet, EarnsSound, EffectKeys, NoRow
  <1>3. \A k \in Keys : PayoutSound(w.red[k], w.reserve[k])
    BY DEF BlankWallet, PayoutSound, ReserveMatches, NoRedemption
  <1> QED BY <1>1, <1>2, <1>3 DEF WalletSound

\* Writing one request and a reserve that matches it keeps a wallet sound.
LEMMA WriteRedemptionSound ==
    ASSUME NEW w, WalletSound(w), NEW k \in Keys, NEW r \in Redemption, NEW row \in LedgerRow,
           PayoutSound(r, row)
    PROVE  WalletSound(WriteRedemption(w, k, r, row))
  <1> DEFINE v == WriteRedemption(w, k, r, row)
  <1>1. v \in Wallets
    BY DEF WalletSound, Wallets, WriteRedemption
  <1>2. EarnsSound(v)
    BY DEF WalletSound, EarnsSound, WriteRedemption, Wallets
  <1>3. \A j \in Keys : PayoutSound(v.red[j], v.reserve[j])
    BY DEF WalletSound, WriteRedemption, Wallets
  <1> QED BY <1>1, <1>2, <1>3 DEF WalletSound

\* Opening a case touches no ledger row and keeps a wallet sound.
LEMMA OpenCaseSound ==
    ASSUME NEW w, WalletSound(w), NEW key \in CaseKeys, NEW amount \in Nat,
           NEW reason \in {"ALREADY_PAID_OUT", "RECIPIENT_ERASED"}
    PROVE  WalletSound(OpenCase(w, key, reason, amount))
  <1> DEFINE v == OpenCase(w, key, reason, amount)
  <1>1. v \in Wallets
    BY DEF WalletSound, Wallets, OpenCase, RewardCase
  <1>2. v.effect = w.effect /\ v.red = w.red /\ v.reserve = w.reserve
    BY DEF WalletSound, Wallets, OpenCase
  <1> QED BY <1>1, <1>2 DEF WalletSound, EarnsSound

\* A keyed money effect keeps a wallet sound: a row, a case, or nothing.
LEMMA EffectSound ==
    ASSUME NEW w, WalletSound(w), NEW key \in EffectKeys, NEW amount \in Int,
           NEW type \in {"EARN", "ADJUST", "REVERSE"}, NEW status \in {"PENDING", "AVAILABLE"},
           key[1] = "earn" => amount \in Nat
    PROVE  WalletSound(applyRewardEffect(w, key, type, amount, status))
  <1> DEFINE v == applyRewardEffect(w, key, type, amount, status)
             paid == [w EXCEPT !.effect[key] = [type |-> type, amount |-> amount, status |-> status]]
  <1>1. key \in CaseKeys
    BY DEF EffectKeys, CaseKeys
  <1>2. Abs(amount) \in Nat /\ (amount < 0 => -amount \in Nat)
    BY DEF Abs
  <1>3. WalletSound(paid)
    <2>1. paid \in Wallets
      BY DEF WalletSound, Wallets, LedgerRow, EntryType, LedgerStatus
    <2>2. EarnsSound(paid)
      BY DEF WalletSound, EarnsSound, Wallets, EffectKeys
    <2>3. paid.red = w.red /\ paid.reserve = w.reserve
      BY DEF WalletSound, Wallets
    <2> QED BY <2>1, <2>2, <2>3 DEF WalletSound
  <1>4. v \in {w, OpenCase(w, key, "RECIPIENT_ERASED", Abs(amount)),
               OpenCase(w, key, "ALREADY_PAID_OUT", -amount), paid}
    BY DEF applyRewardEffect
  <1>5. v = OpenCase(w, key, "ALREADY_PAID_OUT", -amount) => amount < 0 \/ v = w \/ v = paid
                     \/ v = OpenCase(w, key, "RECIPIENT_ERASED", Abs(amount))
    BY DEF applyRewardEffect
  <1> QED BY <1>1, <1>2, <1>3, <1>4, <1>5, OpenCaseSound

\* Merging the rows of one item of a sound wallet keeps a wallet sound.
LEMMA WriteItemSound ==
    ASSUME NEW cur, WalletSound(cur), NEW w, WalletSound(w), NEW i \in Items
    PROVE  WalletSound(WriteItem(cur, w, i))
  <1> DEFINE v == WriteItem(cur, w, i)
  <1>1. v \in Wallets
    BY DEF WalletSound, Wallets, WriteItem
  <1>2. EarnsSound(v)
    BY DEF WalletSound, EarnsSound, WriteItem, Wallets, EffectKeys
  <1>3. v.red = cur.red /\ v.reserve = cur.reserve
    BY DEF WalletSound, Wallets, WriteItem
  <1> QED BY <1>1, <1>2, <1>3 DEF WalletSound

\* Changing the item row alone keeps a wallet sound.
LEMMA ItemRowSound ==
    ASSUME NEW w, WalletSound(w), NEW i \in Items, NEW row \in DepositItem
    PROVE  WalletSound(WithItem(w, i, row))
  <1> DEFINE v == WithItem(w, i, row)
  <1>1. v \in Wallets
    BY DEF WalletSound, Wallets, WithItem
  <1>2. v.effect = w.effect /\ v.red = w.red /\ v.reserve = w.reserve
    BY DEF WalletSound, Wallets, WithItem
  <1> QED BY <1>1, <1>2 DEF WalletSound, EarnsSound

\* Changing the status of an existing earning keeps a wallet sound.
LEMMA EarnStatusSound ==
    ASSUME NEW w, WalletSound(w), NEW i \in Items, NEW status \in LedgerStatus,
           w.effect[<<"earn", i>>] # NoRow
    PROVE  WalletSound([w EXCEPT !.effect[<<"earn", i>>].status = status])
  <1> DEFINE key == <<"earn", i>>
             v == [w EXCEPT !.effect[key].status = status]
  <1>1. key \in EffectKeys
    BY DEF EffectKeys
  <1>2. w.effect[key] \in [type : EntryType, amount : Int, status : LedgerStatus]
    BY <1>1 DEF WalletSound, Wallets, LedgerRow
  <1>3. v \in Wallets
    BY <1>1, <1>2 DEF WalletSound, Wallets, LedgerRow
  <1>4. EarnsSound(v)
    BY <1>1, <1>2 DEF WalletSound, EarnsSound, Wallets, EffectKeys
  <1>5. v.red = w.red /\ v.reserve = w.reserve
    BY DEF WalletSound, Wallets
  <1> QED BY <1>3, <1>4, <1>5 DEF WalletSound

\* The acceptance point keeps a wallet sound.
LEMMA AcceptedSound ==
    ASSUME NEW w, WalletSound(w), NEW i \in Items, NEW base \in Rewards,
           NEW decision \in {"ACCEPTED", "REVIEW", "REJECTED"}
    PROVE  WalletSound(AcceptedWallet(w, i, decision, base))
  <1> DEFINE amount == CASE decision = "ACCEPTED" -> base
                         [] decision = "REVIEW"   -> REVIEW_HOLD(base)
                         [] decision = "REJECTED" -> 0
             row == [w.item[i] EXCEPT !.status = decision, !.accepted = TRUE, !.reward = amount]
             priced == WithItem(w, i, row)
  <1>1. amount \in Nat
    BY WalletConstants DEF REVIEW_HOLD
  <1>2. w.item[i] \in DepositItem
    BY DEF WalletSound, Wallets
  <1>3. row \in DepositItem
    BY <1>1, <1>2 DEF DepositItem
  <1> HIDE DEF row
  <1>5. WalletSound(priced)
    BY <1>3, ItemRowSound
  <1>6. <<"earn", i>> \in EffectKeys
    BY DEF EffectKeys
  <1> HIDE DEF amount, priced
  <1>7. WalletSound(applyRewardEffect(priced, <<"earn", i>>, "EARN", amount,
                        IF decision = "REVIEW" THEN "PENDING" ELSE "AVAILABLE"))
    BY <1>1, <1>5, <1>6, EffectSound
  <1> QED BY <1>7 DEF AcceptedWallet, amount, priced, row

\* The fraud hold keeps a wallet sound.
LEMMA HoldEarningSound ==
    ASSUME NEW w, WalletSound(w), NEW i \in Items
    PROVE  WalletSound(HoldEarning(w, i))
  <1> DEFINE key == <<"earn", i>>
  <1>1. key \in EffectKeys /\ <<"fraud", i>> \in CaseKeys
    BY DEF EffectKeys, CaseKeys
  <1>2. w.effect[key].amount \in Nat
    BY DEF WalletSound, EarnsSound
  <1>3. CASE w.effect[key].status # "AVAILABLE"
    BY <1>3 DEF HoldEarning
  <1>4. CASE w.effect[key].status = "AVAILABLE" /\ available(w) >= w.effect[key].amount
    <2>1. w.effect[key] # NoRow
      BY <1>4 DEF NoRow
    <2>2. WalletSound([w EXCEPT !.effect[key].status = "PENDING"])
      BY <2>1, EarnStatusSound DEF LedgerStatus
    <2> QED BY <1>4, <2>2 DEF HoldEarning
  <1>5. CASE w.effect[key].status = "AVAILABLE" /\ ~(available(w) >= w.effect[key].amount)
    <2>1. WalletSound(OpenCase(w, <<"fraud", i>>, "ALREADY_PAID_OUT", w.effect[key].amount))
      BY <1>1, <1>2, OpenCaseSound
    <2> QED BY <1>5, <2>1 DEF HoldEarning
  <1> QED BY <1>3, <1>4, <1>5

\* Resolving the open debit cases of an item keeps a wallet sound.
LEMMA ResolveSound ==
    ASSUME NEW w, WalletSound(w), NEW i \in Items
    PROVE  WalletSound(ResolveItemDebitCases(w, i))
  <1> DEFINE v == ResolveItemDebitCases(w, i)
  <1>1. \A e \in CaseKeys : IsOpenDebit(w.case[e]) => [w.case[e] EXCEPT !.status = "RESOLVED"] \in RewardCase
    BY DEF WalletSound, Wallets, RewardCase, NoCase, IsOpenDebit
  <1>2. v \in Wallets
    BY <1>1 DEF WalletSound, Wallets, ResolveItemDebitCases
  <1>3. v.effect = w.effect /\ v.red = w.red /\ v.reserve = w.reserve
    BY DEF WalletSound, Wallets, ResolveItemDebitCases
  <1> QED BY <1>2, <1>3 DEF WalletSound, EarnsSound

\* Releasing or rejecting the hold keeps a wallet sound.
LEMMA SettleHoldSound ==
    ASSUME NEW w, WalletSound(w), NEW i \in Items, NEW pays \in BOOLEAN
    PROVE  WalletSound(SettleHold(w, i, pays))
  <1> DEFINE key == <<"earn", i>>
             status == IF pays THEN "AVAILABLE" ELSE "REJECTED"
  <1>1. CASE w.effect[key].status # "PENDING"
    BY <1>1 DEF SettleHold
  <1>2. CASE w.effect[key].status = "PENDING"
    <2>1. w.effect[key] # NoRow
      BY <1>2 DEF NoRow
    <2>2. status \in LedgerStatus
      BY DEF LedgerStatus
    <2> HIDE DEF status
    <2>3. WalletSound([w EXCEPT !.effect[key].status = status])
      BY <2>1, <2>2, EarnStatusSound
    <2> QED BY <1>2, <2>3 DEF SettleHold, status
  <1> QED BY <1>1, <1>2

\* What an item has committed is an amount of money.
LEMMA CommittedInt ==
    ASSUME NEW w, WalletSound(w), NEW i \in Items
    PROVE  Committed(w, i) \in Int
  <1>1. \A e \in EffectKeys : w.effect[e].amount \in Int
    BY DEF WalletSound, Wallets, LedgerRow, NoRow
  <1>2. <<"earn", i>> \in EffectKeys /\ <<"decision", i>> \in EffectKeys
    BY DEF EffectKeys
  <1> QED BY <1>1, <1>2 DEF Committed, Counted

\* The deposit review keeps a wallet sound.
LEMMA ReviewedSound ==
    ASSUME NEW w, WalletSound(w), NEW i \in Items, NEW approve \in BOOLEAN, NEW target \in Nat
    PROVE  WalletSound(ReviewedWallet(w, i, approve, target))
  <1> DEFINE row == [w.item[i] EXCEPT !.status = IF approve THEN "ACCEPTED" ELSE "REJECTED",
                                      !.final = TRUE,
                                      !.fraud = IF approve THEN FALSE ELSE @,
                                      !.reward = target]
             decided == WithItem(w, i, row)
             pays == approve /\ target > 0
             freed == SettleHold(decided, i, pays)
             delta == Correction(decided, freed, i, target)
             type == CorrectionType(freed, i, approve, delta)
             paid == applyRewardEffect(freed, <<"decision", i>>, type, delta, "AVAILABLE")
  <1>1. row \in DepositItem
    <2>1. w.item[i] \in DepositItem
      BY DEF WalletSound, Wallets
    <2>2. CASE approve
      BY <2>1, <2>2 DEF DepositItem
    <2>3. CASE ~approve
      BY <2>1, <2>3 DEF DepositItem
    <2> QED BY <2>2, <2>3
  <1>2. pays \in BOOLEAN
    OBVIOUS
  <1> HIDE DEF row, pays
  <1>3. WalletSound(decided)
    BY <1>1, ItemRowSound
  <1> HIDE DEF decided
  <1>4. WalletSound(freed)
    BY <1>2, <1>3, SettleHoldSound
  <1> HIDE DEF freed
  <1>5. delta \in Int
    BY <1>4, CommittedInt DEF Correction
  <1> HIDE DEF delta
  <1>6. type \in {"EARN", "ADJUST", "REVERSE"}
    BY DEF CorrectionType
  <1>7. <<"decision", i>> \in EffectKeys /\ <<"decision", i>>[1] # "earn"
    BY DEF EffectKeys
  <1> HIDE DEF type
  <1>8. WalletSound(paid)
    BY <1>4, <1>5, <1>6, <1>7, EffectSound
  <1> HIDE DEF paid
  <1>9. WalletSound(ResolveItemDebitCases(paid, i))
    BY <1>8, ResolveSound
  <1>10. ReviewedWallet(w, i, approve, target)
           = IF paid.case[<<"decision", i>>] = NoCase THEN ResolveItemDebitCases(paid, i) ELSE paid
    BY DEF ReviewedWallet, row, decided, pays, freed, delta, type, paid
  <1> QED BY <1>8, <1>9, <1>10

\* The erasure keeps a wallet sound: it touches no amount and no status.
LEMMA ErasedSound ==
    ASSUME NEW w, WalletSound(w)
    PROVE  WalletSound(ErasedWallet(w))
  <1> DEFINE v == ErasedWallet(w)
  <1>1. v = [w EXCEPT !.erased = TRUE, !.red = v.red]
    BY DEF ErasedWallet, WalletSound, Wallets
  <1>2. \A k \in Keys : v.red[k] \in Redemption /\ v.red[k].amount = w.red[k].amount
                       /\ v.red[k].status = w.red[k].status /\ v.red[k].recon = w.red[k].recon
                       /\ (w.red[k] = NoRedemption <=> v.red[k] = NoRedemption)
    <2> SUFFICES ASSUME NEW k \in Keys
                 PROVE  v.red[k] \in Redemption /\ v.red[k].amount = w.red[k].amount
                        /\ v.red[k].status = w.red[k].status /\ v.red[k].recon = w.red[k].recon
                        /\ (w.red[k] = NoRedemption <=> v.red[k] = NoRedemption)
      OBVIOUS
    <2>1. w.red[k] \in Redemption
      BY DEF WalletSound, Wallets
    <2>2. v.red[k] = ErasedRedemption(w.red[k])
      BY DEF ErasedWallet, WalletSound, Wallets
    <2> HIDE DEF v
    <2>3. CASE w.red[k] = NoRedemption
      BY <2>1, <2>2, <2>3 DEF ErasedRedemption
    <2>4. CASE w.red[k] # NoRedemption
      <3>1. w.red[k] \in [status : RedemptionStatus, amount : Amounts, ref : Refs \cup {NoRef, ErasedRef},
                          proof : BOOLEAN, recon : BOOLEAN]
        BY <2>1, <2>4 DEF Redemption
      <3>2. v.red[k] = [w.red[k] EXCEPT !.ref = IF w.red[k].ref = NoRef THEN NoRef ELSE ErasedRef,
                                        !.proof = FALSE]
        BY <2>2, <2>4 DEF ErasedRedemption
      <3>3. v.red[k].amount = w.red[k].amount /\ v.red[k].status = w.red[k].status /\ v.red[k].recon = w.red[k].recon
        BY <3>1, <3>2
      <3>4. v.red[k] \in Redemption
        BY <3>1, <3>2 DEF Redemption
      <3>5. v.red[k].status # "NONE"
        BY <3>1, <3>3 DEF RedemptionStatus
      <3> QED BY <2>4, <3>3, <3>4, <3>5 DEF NoRedemption
    <2> QED BY <2>3, <2>4
  <1>3. v \in Wallets
    BY <1>1, <1>2 DEF ErasedWallet, WalletSound, Wallets
  <1>4. v.effect = w.effect /\ v.reserve = w.reserve
    BY DEF WalletSound, Wallets, ErasedWallet
  <1>5. \A k \in Keys : PayoutSound(v.red[k], v.reserve[k])
    BY <1>2, <1>4 DEF WalletSound, PayoutSound, ReserveMatches
  <1> QED BY <1>3, <1>4, <1>5 DEF WalletSound, EarnsSound

-----------------------------------------------------------------------------
(* Steps.                                                                  *)

\* A sound wallet of a user, under the invariant.
LEMMA ReadSound ==
    ASSUME IInv, NEW t \in Txns, pc[t] = "read"
    PROVE  who[t] \in Users /\ snap[t] = db[who[t]] /\ WalletSound(db[who[t]]) /\ WalletSound(snap[t])
  BY DEF IInv, LockInv

\* The end of a transaction frees its own lock and no other.
LEMMA ReleaseStep ==
    ASSUME IInv, NEW t \in Txns, Release(t)
    PROVE  /\ holder' \in [Users -> Txns \cup {NoTxn}]
           /\ pc' \in [Txns -> {"idle", "locked", "read"}]
           /\ who' \in [Txns -> Users \cup {NoUser}]
           /\ snap' \in [Txns -> Wallets]
           /\ share' \in [Txns -> {"NONE", "ENABLED", "DISABLED"}]
           /\ pc'[t] = "idle"
           /\ \A s \in Txns : s # t => /\ pc'[s] = pc[s] /\ who'[s] = who[s] /\ snap'[s] = snap[s]
                                       /\ pc[s] # "idle" => holder'[who[s]] = s /\ who[s] \in Users
  <1>1. NothingRead \in Wallets
    <2>1. [i \in Items |-> NewItem("PENDING")] \in [Items -> DepositItem]
      BY DEF NewItem, DepositItem
    <2> QED BY <2>1, BlankSound DEF NothingRead, WalletSound
  <1>2. /\ holder' \in [Users -> Txns \cup {NoTxn}]
        /\ pc' \in [Txns -> {"idle", "locked", "read"}]
        /\ who' \in [Txns -> Users \cup {NoUser}]
        /\ snap' \in [Txns -> Wallets]
        /\ share' \in [Txns -> {"NONE", "ENABLED", "DISABLED"}]
    BY <1>1 DEF IInv, TypeOK, Release
  <1>3. /\ pc'[t] = "idle"
        /\ \A s \in Txns \ {t} : pc'[s] = pc[s] /\ who'[s] = who[s] /\ snap'[s] = snap[s]
    BY DEF IInv, TypeOK, Release
  <1>4. \A s \in Txns \ {t} : pc[s] # "idle" => holder'[who[s]] = s /\ who[s] \in Users
    BY DEF IInv, TypeOK, LockInv, Release
  <1> QED BY <1>2, <1>3, <1>4

\* A commit that leaves the user's rows sound preserves the invariant: nobody
\* else holds this user's lock, so nobody's snapshot goes stale.
LEMMA CommitStep ==
    ASSUME IInv, NEW t \in Txns, pc[t] = "read", NEW w, WalletSound(w),
           db' = [db EXCEPT ![who[t]] = w], Release(t),
           account' \in [Users -> {"ENABLED", "DISABLED"}],
           acked' \in [Users -> [Keys -> SUBSET Refs]]
    PROVE  IInv'
  <1>1. who[t] \in Users /\ holder[who[t]] = t
    BY DEF IInv, LockInv
  <1>2. db' \in [Users -> Wallets]
    BY <1>1 DEF IInv, TypeOK, WalletSound
  <1>3. TypeOK'
    BY <1>2, ReleaseStep DEF TypeOK
  <1>4. \A s \in Txns \ {t} : pc[s] # "idle" => who[s] # who[t] /\ who[s] \in Users
    BY <1>1 DEF IInv, LockInv
  <1>5. \A s \in Txns \ {t} : pc[s] # "idle" => db'[who[s]] = db[who[s]]
    BY <1>1, <1>4 DEF IInv, TypeOK
  <1>6. LockInv'
    <2>0. /\ pc'[t] = "idle"
          /\ \A s \in Txns : s # t => /\ pc'[s] = pc[s] /\ who'[s] = who[s] /\ snap'[s] = snap[s]
                                      /\ pc[s] # "idle" => holder'[who[s]] = s /\ who[s] \in Users
      BY ReleaseStep
    <2>1. \A s \in Txns : pc'[s] # "idle" => who'[s] \in Users /\ holder'[who'[s]] = s
      <3> TAKE s \in Txns
      <3>1. CASE s = t
        BY <2>0, <3>1
      <3>2. CASE s # t
        BY <2>0, <3>2
      <3> QED BY <3>1, <3>2
    <2>2. \A s \in Txns : pc'[s] = "read" => snap'[s] = db'[who'[s]]
      <3> TAKE s \in Txns
      <3>1. CASE s = t
        BY <2>0, <3>1
      <3>2. CASE s # t
        BY <2>0, <3>2, <1>5 DEF IInv, LockInv
      <3> QED BY <3>1, <3>2
    <2> QED BY <2>1, <2>2 DEF LockInv
  <1>7. \A u \in Users : WalletSound(db'[u])
    BY <1>1 DEF IInv, TypeOK
  <1> QED BY <1>3, <1>6, <1>7 DEF IInv

\* A transaction that ends without writing preserves the invariant.
LEMMA QuietStep ==
    ASSUME IInv, NEW t \in Txns, db' = db, Release(t),
           account' \in [Users -> {"ENABLED", "DISABLED"}],
           acked' \in [Users -> [Keys -> SUBSET Refs]]
    PROVE  IInv'
  <1>1. TypeOK'
    BY ReleaseStep DEF IInv, TypeOK
  <1>2. LockInv'
    <2>0. /\ pc'[t] = "idle"
          /\ \A s \in Txns : s # t => /\ pc'[s] = pc[s] /\ who'[s] = who[s] /\ snap'[s] = snap[s]
                                      /\ pc[s] # "idle" => holder'[who[s]] = s /\ who[s] \in Users
      BY ReleaseStep
    <2>1. \A s \in Txns : pc'[s] # "idle" => who'[s] \in Users /\ holder'[who'[s]] = s
      <3> TAKE s \in Txns
      <3>1. CASE s = t
        BY <2>0, <3>1
      <3>2. CASE s # t
        BY <2>0, <3>2
      <3> QED BY <3>1, <3>2
    <2>2. \A s \in Txns : pc'[s] = "read" => snap'[s] = db'[who'[s]]
      <3> TAKE s \in Txns
      <3>1. CASE s = t
        BY <2>0, <3>1
      <3>2. CASE s # t
        BY <2>0, <3>2 DEF IInv, LockInv
      <3> QED BY <3>1, <3>2
    <2> QED BY <2>1, <2>2 DEF LockInv
  <1>3. \A u \in Users : WalletSound(db'[u])
    BY DEF IInv
  <1> QED BY <1>1, <1>2, <1>3 DEF IInv

\* Taking the User lock: it was free, so no other transaction had this user.
LEMMA LockStep ==
    ASSUME IInv, NEW t \in Txns, NEW u \in Users, LockUser(t, u)
    PROVE  IInv'
  <1>1. TypeOK'
    BY DEF IInv, TypeOK, LockUser
  <1>2. LockInv'
    <2>1. \A s \in Txns \ {t} : pc[s] # "idle" => who[s] # u
      BY WalletConstants DEF IInv, LockInv, LockUser, RowFree
    <2>2. \A s \in Txns : pc'[s] # "idle" => who'[s] \in Users /\ holder'[who'[s]] = s
      BY <2>1 DEF IInv, TypeOK, LockInv, LockUser
    <2>3. \A s \in Txns : pc'[s] = "read" => snap'[s] = db'[who'[s]]
      BY DEF IInv, TypeOK, LockInv, LockUser
    <2> QED BY <2>2, <2>3 DEF LockInv
  <1>3. \A v \in Users : WalletSound(db'[v])
    BY DEF IInv, LockUser
  <1> QED BY <1>1, <1>2, <1>3 DEF IInv

\* Reading under the lock.
LEMMA ReadStep ==
    ASSUME IInv, NEW t \in Txns, NEW sharing \in BOOLEAN, Read(t, sharing)
    PROVE  IInv'
  <1>1. who[t] \in Users /\ db[who[t]] \in Wallets /\ account[who[t]] \in {"ENABLED", "DISABLED"}
    BY DEF IInv, TypeOK, LockInv, Read
  <1>2. TypeOK'
    BY <1>1 DEF IInv, TypeOK, Read
  <1>3. LockInv'
    BY <1>1 DEF IInv, TypeOK, LockInv, Read
  <1>4. \A v \in Users : WalletSound(db'[v])
    BY DEF IInv, Read
  <1> QED BY <1>2, <1>3, <1>4 DEF IInv

\* A payout request is written with its reserve.
LEMMA RequestStep ==
    ASSUME IInv, NEW t \in Txns, NEW k \in Keys, NEW amount \in Amounts, requestRedemption(t, k, amount)
    PROVE  IInv'
  <1> DEFINE r == [status |-> "REQUESTED", amount |-> amount, ref |-> NoRef, proof |-> FALSE, recon |-> FALSE]
             row == [type |-> "REDEEM", amount |-> -amount, status |-> "PENDING"]
             w == WriteRedemption(db[who[t]], k, r, row)
  <1>1. pc[t] = "read" /\ Release(t) /\ db' = [db EXCEPT ![who[t]] = w]
    BY DEF requestRedemption
  <1>2. r \in Redemption /\ row \in LedgerRow /\ PayoutSound(r, row)
    BY WalletConstants DEF Redemption, RedemptionStatus, LedgerRow, EntryType, LedgerStatus, PayoutSound,
       ReserveMatches, NoRedemption, expectedReserveStatus
  <1> HIDE DEF r, row
  <1>3. WalletSound(w)
    BY <1>1, <1>2, ReadSound, WriteRedemptionSound
  <1> HIDE DEF w
  <1>4. account' = account /\ acked' = acked
    BY DEF requestRedemption
  <1> QED BY <1>1, <1>3, <1>4, CommitStep DEF IInv, TypeOK

\* The references answered for stay references.
LEMMA AcknowledgeType ==
    ASSUME IInv, NEW u \in Users, NEW k \in Keys, NEW action, NEW ref \in Refs \cup {NoRef},
           Acknowledge(u, k, action, ref)
    PROVE  acked' \in [Users -> [Keys -> SUBSET Refs]]
  BY DEF Acknowledge, IInv, TypeOK

\* The status and the reserve status a transition leads to agree.
LEMMA TransitionAgrees ==
    ASSUME NEW action \in RedemptionActions
    PROVE  /\ TRANSITIONS[action].to \in RedemptionStatus
           /\ TRANSITIONS[action].reserve = expectedReserveStatus(TRANSITIONS[action].to)
           /\ TRANSITIONS[action].reserve \in LedgerStatus
           /\ \A x \in TRANSITIONS[action].from : expectedReserveStatus(x) = "PENDING"
           /\ TRANSITIONS[action].to \in TERMINAL_STATUSES \/ "PROCESSING" \notin TRANSITIONS[action].from
  BY DEF RedemptionActions, TRANSITIONS, RedemptionStatus, expectedReserveStatus, LedgerStatus,
     TERMINAL_STATUSES

\* A transition moves the request and its reserve together.
LEMMA TransitionStep ==
    ASSUME IInv, NEW t \in Txns, NEW k \in Keys, NEW action \in RedemptionActions,
           NEW ref \in Refs \cup {NoRef}, transitionRedemption(t, k, action, ref)
    PROVE  IInv'
  <1> DEFINE u == who[t]
             rule == TRANSITIONS[action]
             old == db[u].red[k]
             oldRow == db[u].reserve[k]
             r == [old EXCEPT !.status = rule.to, !.ref = WithRef(old.ref, ref),
                              !.recon = ReconciliationAfter(old.recon, rule.to)]
             row == [oldRow EXCEPT !.status = IF rule.reserve = "PENDING" THEN oldRow.status ELSE rule.reserve]
             w == WriteRedemption(db[u], k, r, row)
  <1>1. pc[t] = "read" /\ Release(t) /\ db' = [db EXCEPT ![u] = w]
    BY DEF transitionRedemption, Committing
  <1>2. u \in Users /\ snap[t] = db[u] /\ WalletSound(db[u])
    BY <1>1, ReadSound
  <1>3. old \in Redemption \ {NoRedemption} /\ PayoutSound(old, oldRow) /\ old.status \in rule.from
    BY <1>2 DEF transitionRedemption, MayTransition, HasReserve, WalletSound, Wallets
  <1>4. oldRow = [type |-> "REDEEM", amount |-> -old.amount, status |-> "PENDING"]
    BY <1>3, TransitionAgrees DEF PayoutSound, ReserveMatches
  <1>5. old \in [status : RedemptionStatus, amount : Amounts, ref : Refs \cup {NoRef, ErasedRef},
                 proof : BOOLEAN, recon : BOOLEAN]
    BY <1>3 DEF Redemption
  <1> HIDE DEF old, oldRow
  <1>6. r \in Redemption \ {NoRedemption} /\ r.amount = old.amount /\ r.status = rule.to
    BY <1>5, TransitionAgrees DEF Redemption, NoRedemption, WithRef, ReconciliationAfter, RedemptionStatus
  <1>7. row = [type |-> "REDEEM", amount |-> -old.amount, status |-> expectedReserveStatus(rule.to)]
    BY <1>4, TransitionAgrees
  <1>8. row \in LedgerRow
    BY <1>5, <1>7, TransitionAgrees, WalletConstants DEF LedgerRow, EntryType
  <1>9. ~r.recon
    <2>1. r.recon = ReconciliationAfter(old.recon, rule.to)
      BY <1>5
    <2>2. old.recon => old.status = "PROCESSING"
      BY <1>3 DEF PayoutSound
    <2> QED BY <1>3, <1>5, <2>1, <2>2, TransitionAgrees DEF ReconciliationAfter
  <1>10. PayoutSound(r, row)
    BY <1>6, <1>7, <1>9 DEF PayoutSound, ReserveMatches
  <1> HIDE DEF r, row
  <1>11. WalletSound(w)
    BY <1>2, <1>6, <1>8, <1>10, WriteRedemptionSound
  <1>12. account' = account /\ acked' \in [Users -> [Keys -> SUBSET Refs]]
    BY <1>2, AcknowledgeType DEF transitionRedemption
  <1> HIDE DEF w
  <1> QED BY <1>1, <1>11, <1>12, CommitStep DEF IInv, TypeOK

\* A flag or a proof changes the request alone.
LEMMA MarkStep ==
    ASSUME IInv, NEW t \in Txns, NEW k \in Keys,
           flagRedemptionForReconciliation(t, k) \/ attachRedemptionProof(t, k)
    PROVE  IInv'
  <1> DEFINE u == who[t]
             old == db[u].red[k]
             Write(r) == WriteRedemption(db[u], k, r, db[u].reserve[k])
  <1>1. pc[t] = "read" /\ Release(t) /\ account' = account /\ acked' = acked
    BY DEF flagRedemptionForReconciliation, attachRedemptionProof, Committing
  <1>2. u \in Users /\ snap[t] = db[u] /\ WalletSound(db[u])
    BY <1>1, ReadSound
  <1>3. db[u].reserve[k] \in LedgerRow /\ old \in Redemption /\ PayoutSound(old, db[u].reserve[k])
    BY <1>2 DEF WalletSound, Wallets
  <1>4. \A r \in Redemption : PayoutSound(r, db[u].reserve[k]) => WalletSound(Write(r))
    BY <1>2, <1>3, WriteRedemptionSound
  <1>5. \A r \in Redemption : PayoutSound(r, db[u].reserve[k]) /\ db' = [db EXCEPT ![u] = Write(r)] => IInv'
    BY <1>1, <1>4, CommitStep DEF IInv, TypeOK
  <1>6. CASE flagRedemptionForReconciliation(t, k)
    <2> DEFINE r == [old EXCEPT !.recon = TRUE]
    <2>1. old # NoRedemption /\ old.status = "PROCESSING" /\ db' = [db EXCEPT ![u] = Write(r)]
      BY <1>2, <1>6 DEF flagRedemptionForReconciliation, HasReserve
    <2>2. old \in [status : RedemptionStatus, amount : Amounts, ref : Refs \cup {NoRef, ErasedRef},
                   proof : BOOLEAN, recon : BOOLEAN]
      BY <1>3, <2>1 DEF Redemption
    <2> HIDE DEF old
    <2>3. r \in Redemption /\ r # NoRedemption /\ r.amount = old.amount /\ r.status = old.status
      BY <2>2 DEF Redemption, NoRedemption, RedemptionStatus
    <2>4. PayoutSound(r, db[u].reserve[k])
      BY <1>3, <2>1, <2>3 DEF PayoutSound, ReserveMatches
    <2> HIDE DEF r
    <2> QED BY <1>5, <2>1, <2>3, <2>4
  <1>7. CASE attachRedemptionProof(t, k)
    <2> DEFINE r == [old EXCEPT !.proof = TRUE]
    <2>1. old # NoRedemption /\ db' = [db EXCEPT ![u] = Write(r)]
      BY <1>2, <1>7 DEF attachRedemptionProof
    <2>2. old \in [status : RedemptionStatus, amount : Amounts, ref : Refs \cup {NoRef, ErasedRef},
                   proof : BOOLEAN, recon : BOOLEAN]
      BY <1>3, <2>1 DEF Redemption
    <2> HIDE DEF old
    <2>3. /\ r \in Redemption /\ r # NoRedemption /\ r.amount = old.amount
          /\ r.status = old.status /\ r.recon = old.recon
      BY <2>2 DEF Redemption, NoRedemption, RedemptionStatus
    <2>4. PayoutSound(r, db[u].reserve[k])
      BY <1>3, <2>1, <2>3 DEF PayoutSound, ReserveMatches
    <2> HIDE DEF r
    <2> QED BY <1>5, <2>1, <2>3, <2>4
  <1> QED BY <1>6, <1>7

\* Committing the rows of one item.
LEMMA CommitItemStep ==
    ASSUME IInv, NEW t \in Txns, NEW i \in Items, NEW w, WalletSound(w), CommitItem(t, i, w)
    PROVE  IInv'
  <1> DEFINE v == WriteItem(db[who[t]], w, i)
  <1>1. /\ pc[t] = "read" /\ Release(t) /\ account' = account /\ acked' = acked
        /\ db' = [db EXCEPT ![who[t]] = v]
    BY DEF CommitItem, Committing
  <1>2. WalletSound(v)
    BY <1>1, ReadSound, WriteItemSound
  <1> HIDE DEF v
  <1> QED BY <1>1, <1>2, CommitStep DEF IInv, TypeOK

\* The acceptance point, the rejection, the fraud hold and the review.
LEMMA DepositStep ==
    ASSUME IInv, NEW t \in Txns, Deposits(t)
    PROVE  IInv'
  <1> PICK i \in Items :
        \/ \E d \in {"ACCEPTED", "REVIEW", "REJECTED"}, base \in Rewards : handleAcceptance(t, i, d, base)
        \/ handleItemRejected(t, i)
        \/ holdItemForFraud(t, i)
        \/ \E approve \in BOOLEAN, target \in Rewards \cup {0} : decideDepositReview(t, i, approve, target)
    BY DEF Deposits
  <1>1. pc[t] = "read"
    BY DEF handleAcceptance, handleItemRejected, holdItemForFraud, decideDepositReview, CommitItem,
       Committing, StillUndecided
  <1>2. WalletSound(snap[t]) /\ snap[t].item[i] \in DepositItem
    BY <1>1, ReadSound DEF WalletSound, Wallets
  <1>3. ASSUME NEW d \in {"ACCEPTED", "REVIEW", "REJECTED"}, NEW base \in Rewards,
               handleAcceptance(t, i, d, base)
        PROVE  IInv'
    BY <1>2, <1>3, AcceptedSound, CommitItemStep DEF handleAcceptance
  <1>4. CASE handleItemRejected(t, i)
    <2> DEFINE row == [snap[t].item[i] EXCEPT !.status = "REJECTED"]
    <2>1. row \in DepositItem
      BY <1>2 DEF DepositItem
    <2>2. CommitItem(t, i, WithItem(snap[t], i, row))
      BY <1>4 DEF handleItemRejected
    <2> HIDE DEF row
    <2> QED BY <1>2, <2>1, <2>2, ItemRowSound, CommitItemStep
  <1>5. CASE holdItemForFraud(t, i)
    <2> DEFINE flagged == [snap[t].item[i] EXCEPT !.fraud = TRUE]
               review == [flagged EXCEPT !.status = "REVIEW"]
    <2>1. flagged \in DepositItem /\ review \in DepositItem
      BY <1>2 DEF DepositItem
    <2>2. \/ CommitItem(t, i, WithItem(snap[t], i, flagged))
          \/ CommitItem(t, i, HoldEarning(WithItem(snap[t], i, review), i))
      BY <1>5 DEF holdItemForFraud
    <2> HIDE DEF flagged, review
    <2>3. WalletSound(WithItem(snap[t], i, flagged)) /\ WalletSound(WithItem(snap[t], i, review))
      BY <1>2, <2>1, ItemRowSound
    <2>4. WalletSound(HoldEarning(WithItem(snap[t], i, review), i))
      BY <2>3, HoldEarningSound
    <2> QED BY <2>2, <2>3, <2>4, CommitItemStep
  <1>6. ASSUME NEW approve \in BOOLEAN, NEW target \in Rewards \cup {0},
               decideDepositReview(t, i, approve, target)
        PROVE  IInv'
    <2>1. target \in Nat
      BY WalletConstants
    <2>2. WalletSound(ReviewedWallet(snap[t], i, approve, target))
      BY <1>2, <2>1, ReviewedSound
    <2> QED BY <1>6, <2>2, CommitItemStep DEF decideDepositReview
  <1> QED BY <1>3, <1>4, <1>5, <1>6

\* An operator resolves a case.
LEMMA ResolveCaseStep ==
    ASSUME IInv, NEW t \in Txns, NEW key \in CaseKeys, resolveRewardCase(t, key)
    PROVE  IInv'
  <1> DEFINE u == who[t]
             row == [db[u].case[key] EXCEPT !.status = "RESOLVED"]
             w == [db[u] EXCEPT !.case[key] = row]
  <1>1. /\ pc[t] = "read" /\ Release(t) /\ account' = account /\ acked' = acked
        /\ db' = [db EXCEPT ![u] = w] /\ db[u].case[key].status = "OPEN"
    BY DEF resolveRewardCase, Committing
  <1>2. u \in Users /\ WalletSound(db[u])
    BY <1>1, ReadSound
  <1>3. row \in RewardCase
    BY <1>1, <1>2 DEF WalletSound, Wallets, RewardCase, NoCase
  <1> HIDE DEF row
  <1>4. w \in Wallets
    BY <1>2, <1>3 DEF WalletSound, Wallets
  <1>5. w.effect = db[u].effect /\ w.red = db[u].red /\ w.reserve = db[u].reserve
    BY <1>2 DEF WalletSound, Wallets
  <1>6. WalletSound(w)
    BY <1>2, <1>4, <1>5 DEF WalletSound, EarnsSound
  <1> HIDE DEF w
  <1> QED BY <1>1, <1>6, CommitStep DEF IInv, TypeOK

\* The erasure.
LEMMA EraseStep ==
    ASSUME IInv, NEW t \in Txns, anonymizeAccount(t)
    PROVE  IInv'
  <1>1. /\ pc[t] = "read" /\ Release(t) /\ acked' = acked
        /\ account' = [account EXCEPT ![who[t]] = "DISABLED"]
        /\ db' = [db EXCEPT ![who[t]] = ErasedWallet(db[who[t]])]
    BY DEF anonymizeAccount, Committing
  <1>2. WalletSound(ErasedWallet(db[who[t]]))
    BY <1>1, ReadSound, ErasedSound
  <1>3. account' \in [Users -> {"ENABLED", "DISABLED"}] /\ acked' \in [Users -> [Keys -> SUBSET Refs]]
    BY <1>1 DEF IInv, TypeOK
  <1> QED BY <1>1, <1>2, <1>3, CommitStep

\* The owner switches the payout account, outside every lock.
LEMMA AccountStep ==
    ASSUME IInv, NEW u \in Users, NEW status \in {"ENABLED", "DISABLED"}, setAccountStatus(u, status)
    PROVE  IInv'
  <1>1. TypeOK'
    BY DEF IInv, TypeOK, setAccountStatus
  <1>2. LockInv'
    BY DEF IInv, LockInv, setAccountStatus
  <1>3. \A v \in Users : WalletSound(db'[v])
    BY DEF IInv, setAccountStatus
  <1> QED BY <1>1, <1>2, <1>3 DEF IInv

\* The invariant holds of fresh rows and idle connections.
LEMMA InitInv == Init => IInv
  <1> SUFFICES ASSUME Init PROVE IInv
    OBVIOUS
  <1>1. \A it \in [Items -> {NewItem("PENDING"), NewItem("REVIEW")}] : it \in [Items -> DepositItem]
    <2>1. NewItem("PENDING") \in DepositItem /\ NewItem("REVIEW") \in DepositItem
      BY DEF NewItem, DepositItem
    <2> QED BY <2>1
  <1>2. \A w \in NewWallets : WalletSound(w)
    BY <1>1, BlankSound DEF NewWallets
  <1>3. NothingRead \in NewWallets
    BY DEF NothingRead, NewWallets
  <1>4. \A w \in NewWallets : w \in Wallets
    BY <1>2 DEF WalletSound
  <1>5. TypeOK
    BY <1>3, <1>4 DEF Init, TypeOK
  <1>6. LockInv
    BY DEF Init, LockInv
  <1>7. \A u \in Users : WalletSound(db[u])
    BY <1>2 DEF Init
  <1> QED BY <1>5, <1>6, <1>7 DEF IInv

\* Every step of every transaction preserves the invariant.
LEMMA NextInv == IInv /\ [Next]_vars => IInv'
  <1> SUFFICES ASSUME IInv, [Next]_vars PROVE IInv'
    OBVIOUS
  <1>1. ASSUME NEW t \in Txns, NEW u \in Users, LockUser(t, u) PROVE IInv'
    BY <1>1, LockStep
  <1>2. ASSUME NEW t \in Txns, NEW sharing \in BOOLEAN, Read(t, sharing) PROVE IInv'
    BY <1>2, ReadStep
  <1>3. ASSUME NEW t \in Txns, Abort(t) PROVE IInv'
    BY <1>3, QuietStep DEF Abort, IInv, TypeOK
  <1>4. ASSUME NEW t \in Txns, Payouts(t) PROVE IInv'
    <2> PICK k \in Keys :
          \/ \E a \in Amounts : requestRedemption(t, k, a)
          \/ \E act \in RedemptionActions, ref \in Refs \cup {NoRef} :
                 transitionRedemption(t, k, act, ref) \/ replayTransition(t, k, act, ref)
          \/ flagRedemptionForReconciliation(t, k)
          \/ attachRedemptionProof(t, k)
      BY <1>4 DEF Payouts
    <2>1. ASSUME NEW a \in Amounts, requestRedemption(t, k, a) PROVE IInv'
      BY <2>1, RequestStep
    <2>2. ASSUME NEW act \in RedemptionActions, NEW ref \in Refs \cup {NoRef},
                 transitionRedemption(t, k, act, ref)
          PROVE  IInv'
      BY <2>2, TransitionStep
    <2>3. ASSUME NEW act \in RedemptionActions, NEW ref \in Refs \cup {NoRef},
                 replayTransition(t, k, act, ref)
          PROVE  IInv'
      <3>1. who[t] \in Users
        BY <2>3, ReadSound DEF replayTransition, Committing
      <3>2. /\ db' = db /\ account' = account /\ Release(t)
            /\ acked' \in [Users -> [Keys -> SUBSET Refs]]
        BY <2>3, <3>1, AcknowledgeType DEF replayTransition
      <3> QED BY <3>2, QuietStep DEF IInv, TypeOK
    <2>4. CASE flagRedemptionForReconciliation(t, k) \/ attachRedemptionProof(t, k)
      BY <2>4, MarkStep
    <2> QED BY <2>1, <2>2, <2>3, <2>4
  <1>5. ASSUME NEW t \in Txns, Deposits(t) PROVE IInv'
    BY <1>5, DepositStep
  <1>6. ASSUME NEW t \in Txns, NEW key \in CaseKeys, resolveRewardCase(t, key) PROVE IInv'
    BY <1>6, ResolveCaseStep
  <1>7. ASSUME NEW t \in Txns, anonymizeAccount(t) PROVE IInv'
    BY <1>7, EraseStep
  <1>8. ASSUME NEW u \in Users, NEW status \in {"ENABLED", "DISABLED"}, setAccountStatus(u, status)
        PROVE  IInv'
    BY <1>8, AccountStep
  <1>9. CASE UNCHANGED vars
    <2>1. /\ db' = db /\ account' = account /\ holder' = holder /\ pc' = pc
          /\ who' = who /\ snap' = snap /\ share' = share /\ acked' = acked
      BY <1>9 DEF vars
    <2>2. TypeOK' /\ LockInv'
      BY <2>1 DEF IInv, TypeOK, LockInv
    <2> QED BY <2>1, <2>2 DEF IInv
  <1> QED BY <1>1, <1>2, <1>3, <1>4, <1>5, <1>6, <1>7, <1>8, <1>9 DEF Next

-----------------------------------------------------------------------------
(* Theorems.                                                               *)

\* The inductive invariant of the wallet transactions.
THEOREM Inductive == Spec => []IInv
  BY InitInv, NextInv, PTL DEF Spec

\* Every row, lock and snapshot is well-formed in every reachable state of
\* the wallet service, for any users, connections, keys, items and prices.
THEOREM TypeCorrect == Spec => []TypeOK
  <1>1. IInv => TypeOK
    BY DEF IInv
  <1> QED BY <1>1, Inductive, PTL

\* lockUser excludes: what a transaction decides on under its User lock is
\* what is committed when it writes, whatever the others do meanwhile.
THEOREM SnapshotsCurrent == Spec => []LockInv
  <1>1. IInv => LockInv
    BY DEF IInv
  <1> QED BY <1>1, Inductive, PTL

\* A payout request and the reserve behind it never separate: no crash, retry
\* or race of transitionRedemption, erasure and the deposit writers does it.
THEOREM ReserveAlwaysAgrees == Spec => []ReserveAgrees
  <1>1. IInv => ReserveAgrees
    BY DEF IInv, WalletSound, PayoutSound, ReserveAgrees
  <1> QED BY <1>1, Inductive, PTL

\* A request flagged by flagRedemptionForReconciliation is PROCESSING and its
\* money is still reserved.
THEOREM FlaggedMoneyHeld == Spec => []ReconciliationHoldsMoney
  <1>1. ASSUME IInv, NEW u \in Users, NEW k \in Keys, db[u].red[k].recon
        PROVE  db[u].red[k].status = "PROCESSING" /\ db[u].reserve[k].status = "PENDING"
    <2>1. PayoutSound(db[u].red[k], db[u].reserve[k])
      BY <1>1 DEF IInv, WalletSound
    <2>2. db[u].red[k].status = "PROCESSING"
      BY <1>1, <2>1 DEF PayoutSound
    <2>3. db[u].red[k] # NoRedemption
      BY <2>2 DEF NoRedemption
    <2> QED BY <2>1, <2>2, <2>3 DEF PayoutSound, ReserveMatches, expectedReserveStatus
  <1>2. IInv => ReconciliationHoldsMoney
    BY <1>1 DEF ReconciliationHoldsMoney
  <1> QED BY <1>2, Inductive, PTL

-----------------------------------------------------------------------------
(* The money of an item, the balance and the transfer references.            *)
(*                                                                           *)
(* None of the properties about money is inductive by itself.  An item that  *)
(* is not accepted has earned nothing and one that is not finally reviewed   *)
(* carries no correction, so the decision of a review starts from what the   *)
(* acceptance and the fraud hold left; a wallet is erased with nothing       *)
(* spendable, held back or in flight, and stays so, since its payout account *)
(* stays disabled; and a request is acknowledged with the reference it       *)
(* stores.                                                                   *)

Earning(row) == row # NoRow => row.type = "EARN" /\ row.amount > 0

ItemStands(item, earn, decided, refusal) ==
    /\ Earning(earn) /\ (~item.accepted => earn = NoRow /\ item.reward = 0)
    /\ ~item.final => decided = NoRow /\ refusal = NoCase
    /\ item.final => item.status \in {"ACCEPTED", "REJECTED"} /\ earn.status # "PENDING"
    /\ decided.status # "PENDING"
    /\ item.status = "ACCEPTED" => item.accepted
    /\ item.status = "REJECTED" => item.reward = 0 /\ (~item.final => earn = NoRow)

ItemPaid(item, paid, refusal) ==
    item.final => LET owed == item.reward - paid
                  IN  IF refusal = NoCase THEN owed = 0 ELSE refusal.amount = Abs(owed)

ItemHeld(item, earn, fraud) == item.status = "REVIEW" /\ earn.status = "AVAILABLE" => fraud # NoCase

ItemSound(w, i) ==
    /\ ItemStands(w.item[i], w.effect[<<"earn", i>>], w.effect[<<"decision", i>>], w.case[<<"decision", i>>])
    /\ ItemPaid(w.item[i], Committed(w, i), w.case[<<"decision", i>>])
    /\ ItemHeld(w.item[i], w.effect[<<"earn", i>>], w.case[<<"fraud", i>>])

\* Nothing is spendable, held back for review or in flight.
AtRest(w) ==
    /\ available(w) = 0
    /\ \A e \in EffectKeys : w.effect[e].status # "PENDING"
    /\ \A k \in Keys : w.red[k].status \in TERMINAL_STATUSES \cup {"NONE"}

MoneySound(w) ==
    /\ \A i \in Items : ItemSound(w, i)
    /\ available(w) >= 0
    /\ w.erased => AtRest(w)

\* What a payout request read FOR SHARE stays what it is, and an erased
\* account's stays disabled.
ShareInv ==
    /\ \A t \in Txns : share[t] # "NONE" => pc[t] = "read" /\ account[who[t]] = share[t]
    /\ \A u \in Users : db[u].erased => account[u] = "DISABLED"

Acknowledged(refs, r) ==
    refs # {} => r.status = "SUCCESS" /\ \E ref \in Refs : refs = {ref} /\ r.ref \in {ref, ErasedRef}

RefsInv == \A u \in Users, k \in Keys : Acknowledged(acked[u][k], db[u].red[k])

MoneyInv ==
    /\ \A u \in Users : MoneySound(db[u])
    /\ ShareInv
    /\ RefsInv

-----------------------------------------------------------------------------
(* Balances.                                                                 *)

\* What a row counts is an amount of money.
LEMMA CountedInt ==
    ASSUME NEW w \in Wallets
    PROVE  /\ \A k \in Keys : Counted(w.reserve[k]) \in Int
           /\ \A e \in EffectKeys : Counted(w.effect[e]) \in Int
  <1>1. \A row \in LedgerRow : Counted(row) \in Int
    BY DEF LedgerRow, Counted, NoRow
  <1> QED BY <1>1 DEF Wallets

\* The keys of the effects and cases are finitely many.
LEMMA KeysFinite == IsFiniteSet(EffectKeys) /\ IsFiniteSet(CaseKeys)
  <1>1. IsFiniteSet({"earn", "decision"}) /\ IsFiniteSet({"earn", "decision", "fraud"})
    <2>1. {"earn", "decision"} = {"earn"} \cup {"decision"}
          /\ {"earn", "decision", "fraud"} = ({"earn"} \cup {"decision"}) \cup {"fraud"}
      OBVIOUS
    <2>2. IsFiniteSet({"earn"} \cup {"decision"}) /\ IsFiniteSet(({"earn"} \cup {"decision"}) \cup {"fraud"})
      BY FS_Singleton, FS_Union
    <2> QED BY <2>1, <2>2
  <1> QED BY <1>1, WalletConstants, FS_Product DEF EffectKeys, CaseKeys

\* The two sums of computeBalance.
ReserveSum(w) == SumFunctionOnSet([k \in Keys |-> Counted(w.reserve[k])], Keys)
EffectSum(w) == SumFunctionOnSet([e \in EffectKeys |-> Counted(w.effect[e])], EffectKeys)

\* What is available is the sum over reserves and effects.
LEMMA AvailableSums == ASSUME NEW w PROVE available(w) = ReserveSum(w) + EffectSum(w)
  BY DEF available, ReserveSum, EffectSum, SumFunction

\* What is available is a number.
LEMMA AvailableInt ==
    ASSUME NEW w \in Wallets
    PROVE  ReserveSum(w) \in Int /\ EffectSum(w) \in Int /\ available(w) \in Int
  <1>1. ReserveSum(w) \in Int
    BY CountedInt, SumType, WalletConstants DEF ReserveSum
  <1>2. EffectSum(w) \in Int
    BY CountedInt, SumType, KeysFinite DEF EffectSum
  <1> QED BY <1>1, <1>2, AvailableSums

\* A change of one effect row changes the balance by what the row counts,
LEMMA EffectChanges ==
    ASSUME NEW w \in Wallets, NEW v \in Wallets, NEW key \in EffectKeys, v.reserve = w.reserve,
           \A e \in EffectKeys \ {key} : v.effect[e] = w.effect[e]
    PROVE  available(v) = available(w) + Counted(v.effect[key]) - Counted(w.effect[key])
  <1> DEFINE f == [e \in EffectKeys |-> Counted(w.effect[e])]
             g == [e \in EffectKeys |-> Counted(v.effect[e])]
  <1>1. \A e \in EffectKeys : f[e] \in Int /\ g[e] \in Int
    BY CountedInt
  <1>2. \A e \in EffectKeys \ {key} : g[e] = f[e]
    OBVIOUS
  <1>3. f[key] = Counted(w.effect[key]) /\ g[key] = Counted(v.effect[key])
    OBVIOUS
  <1>4. EffectSum(w) = SumFunctionOnSet(f, EffectKeys) /\ EffectSum(v) = SumFunctionOnSet(g, EffectKeys)
    BY DEF EffectSum
  <1> HIDE DEF f, g
  <1>5. SumFunctionOnSet(g, EffectKeys) = SumFunctionOnSet(f, EffectKeys) + g[key] - f[key]
    BY <1>1, <1>2, KeysFinite, SumChange
  <1>6. ReserveSum(v) = ReserveSum(w)
    BY DEF ReserveSum
  <1>7. f[key] \in Int /\ g[key] \in Int
    BY <1>1
  <1> QED BY <1>3, <1>4, <1>5, <1>6, <1>7, AvailableSums, AvailableInt

\* and so does one reserve row.
LEMMA ReserveChanges ==
    ASSUME NEW w \in Wallets, NEW v \in Wallets, NEW key \in Keys, v.effect = w.effect,
           \A k \in Keys \ {key} : v.reserve[k] = w.reserve[k]
    PROVE  available(v) = available(w) + Counted(v.reserve[key]) - Counted(w.reserve[key])
  <1> DEFINE f == [k \in Keys |-> Counted(w.reserve[k])]
             g == [k \in Keys |-> Counted(v.reserve[k])]
  <1>1. \A k \in Keys : f[k] \in Int /\ g[k] \in Int
    BY CountedInt
  <1>2. \A k \in Keys \ {key} : g[k] = f[k]
    OBVIOUS
  <1>3. f[key] = Counted(w.reserve[key]) /\ g[key] = Counted(v.reserve[key])
    OBVIOUS
  <1>4. ReserveSum(w) = SumFunctionOnSet(f, Keys) /\ ReserveSum(v) = SumFunctionOnSet(g, Keys)
    BY DEF ReserveSum
  <1> HIDE DEF f, g
  <1>5. SumFunctionOnSet(g, Keys) = SumFunctionOnSet(f, Keys) + g[key] - f[key]
    BY <1>1, <1>2, WalletConstants, SumChange
  <1>6. EffectSum(v) = EffectSum(w)
    BY DEF EffectSum
  <1>7. f[key] \in Int /\ g[key] \in Int
    BY <1>1
  <1> QED BY <1>3, <1>4, <1>5, <1>6, <1>7, AvailableSums, AvailableInt

\* The same rows have the same balance.
LEMMA AvailableSame ==
    ASSUME NEW w, NEW v, v.reserve = w.reserve, v.effect = w.effect
    PROVE  available(v) = available(w)
  BY DEF available

\* What the open debit cases of an item hold is an amount of one of them.
LEMMA HeldByItemNat ==
    ASSUME NEW w \in Wallets, NEW i \in Items
    PROVE  HeldByItem(w, i) \in Nat
  <1> DEFINE keys == {x \in CaseKeys : x[2] = i /\ IsOpenDebit(w.case[x])}
             open == {w.case[e].amount : e \in keys}
             amount == [e \in keys |-> w.case[e].amount]
  <1>1. open \subseteq Nat
    BY DEF Wallets, RewardCase, NoCase
  <1>2. IsFiniteSet(keys)
    BY KeysFinite, FS_Subset
  <1>3. CASE open = {}
    BY <1>3 DEF HeldByItem
  <1>4. CASE open # {}
    <2>1. keys # {}
      BY <1>4
    <2>2. \A e \in keys : amount[e] \in Int
      BY <1>1
    <2> HIDE DEF keys
    <2>3. PICK e \in keys : \A d \in keys : amount[e] >= amount[d]
      BY <1>2, <2>1, <2>2, Greatest
    <2>4. \E a \in open : \A b \in open : a >= b
      BY <2>3
    <2> DEFINE greatest == CHOOSE a \in open : \A b \in open : a >= b
    <2>5. greatest \in open
      BY <2>4
    <2>6. HeldByItem(w, i) = IF open = {} THEN 0 ELSE greatest
      BY DEF HeldByItem, keys
    <2> HIDE DEF greatest
    <2> QED BY <1>1, <1>4, <2>5, <2>6
  <1> QED BY <1>3, <1>4

\* What is held is never negative.
LEMMA HeldNat == ASSUME NEW w \in Wallets PROVE held(w) \in Nat
  <1> DEFINE f == [i \in Items |-> HeldByItem(w, i)]
  <1>1. \A i \in Items : f[i] \in Nat
    BY HeldByItemNat
  <1>2. held(w) = SumFunctionOnSet(f, Items)
    BY DEF held, SumFunction
  <1> HIDE DEF f
  <1> QED BY <1>1, <1>2, SumNat, WalletConstants

-----------------------------------------------------------------------------
(* What the deposit writers do to the rows of an item.                       *)

\* Two wallets that differ in the rows of one item only.
Touches(w, v, i) ==
    /\ v.red = w.red /\ v.reserve = w.reserve /\ v.erased = w.erased
    /\ \A j \in Items \ {i} : v.item[j] = w.item[j]
    /\ \A e \in EffectKeys : e[2] # i => v.effect[e] = w.effect[e]
    /\ \A e \in CaseKeys : e[2] # i => v.case[e] = w.case[e]

\* What a writer may make of a sound wallet.
ItemMove(w, v, i) ==
    /\ WalletSound(v) /\ Touches(w, v, i)
    /\ ItemSound(v, i)
    /\ available(v) >= 0
    /\ w.erased => v.effect = w.effect
    /\ \A e \in EffectKeys : RowEvolves(w.effect[e], v.effect[e])

\* The keys of an item's rows.
LEMMA ItemKeys ==
    ASSUME NEW i \in Items
    PROVE  /\ <<"earn", i>> \in EffectKeys /\ <<"decision", i>> \in EffectKeys
           /\ <<"earn", i>> \in CaseKeys /\ <<"decision", i>> \in CaseKeys /\ <<"fraud", i>> \in CaseKeys
           /\ <<"earn", i>> # <<"decision", i>> /\ <<"earn", i>> # <<"fraud", i>>
           /\ <<"decision", i>> # <<"fraud", i>>
           /\ \A e \in EffectKeys : e[2] = i => e = <<"earn", i>> \/ e = <<"decision", i>>
  BY DEF EffectKeys, CaseKeys

\* The rows of a wallet have their types.
LEMMA WalletRows ==
    ASSUME NEW w \in Wallets
    PROVE  /\ \A i \in Items : w.item[i] \in DepositItem
           /\ \A e \in EffectKeys : w.effect[e] \in LedgerRow
           /\ \A e \in CaseKeys : w.case[e] \in RewardCase
           /\ \A k \in Keys : w.red[k] \in Redemption /\ w.reserve[k] \in LedgerRow
           /\ w.erased \in BOOLEAN
  BY DEF Wallets

\* A move keeps the whole wallet sound.
LEMMA MoveSound ==
    ASSUME NEW w, NEW v, NEW i \in Items, WalletSound(w), MoneySound(w), ItemMove(w, v, i)
    PROVE  MoneySound(v)
  <1>1. v \in Wallets /\ w \in Wallets
    BY DEF ItemMove, WalletSound
  <1>2. ASSUME NEW j \in Items PROVE ItemSound(v, j)
    <2>1. CASE j = i
      BY <2>1 DEF ItemMove
    <2>2. CASE j # i
      <3>1. <<"earn", j>>[2] # i /\ <<"decision", j>>[2] # i /\ <<"fraud", j>>[2] # i
        BY <2>2
      <3>2. /\ v.item[j] = w.item[j]
            /\ v.effect[<<"earn", j>>] = w.effect[<<"earn", j>>]
            /\ v.effect[<<"decision", j>>] = w.effect[<<"decision", j>>]
            /\ v.case[<<"decision", j>>] = w.case[<<"decision", j>>]
            /\ v.case[<<"fraud", j>>] = w.case[<<"fraud", j>>]
        BY <2>2, <3>1, ItemKeys DEF ItemMove, Touches
      <3>3. Committed(v, j) = Committed(w, j)
        BY <3>2 DEF Committed
      <3>4. ItemSound(w, j)
        BY DEF MoneySound
      <3> QED BY <3>2, <3>3, <3>4 DEF ItemSound
    <2> QED BY <2>1, <2>2
  <1>3. v.erased => AtRest(v)
    <2> HAVE v.erased
    <2>1. w.erased /\ v.effect = w.effect /\ v.reserve = w.reserve /\ v.red = w.red
      BY DEF ItemMove, Touches
    <2>2. available(v) = available(w)
      BY <2>1, AvailableSame
    <2>3. AtRest(w)
      BY <2>1 DEF MoneySound
    <2> QED BY <2>1, <2>2, <2>3 DEF AtRest
  <1> QED BY <1>2, <1>3 DEF MoneySound, ItemMove

\* A keyed effect leaves a row, a case or nothing.
EffectLeaves(w, v, key, type, amount, status) ==
    /\ v.item = w.item /\ v.red = w.red /\ v.reserve = w.reserve /\ v.erased = w.erased
    /\ \A e \in EffectKeys \ {key} : v.effect[e] = w.effect[e]
    /\ \A e \in CaseKeys \ {key} : v.case[e] = w.case[e]
    /\ \/ (amount = 0 \/ w.effect[key] # NoRow \/ w.case[key] # NoCase) /\ v = w
       \/ /\ amount # 0 /\ w.effect[key] = NoRow /\ w.case[key] = NoCase
          /\ \/ /\ v.effect = w.effect /\ v.case[key] # NoCase /\ v.case[key].amount = Abs(amount)
             \/ /\ ~w.erased /\ v.case = w.case
                /\ v.effect[key] = [type |-> type, amount |-> amount, status |-> status]
                /\ amount < 0 /\ status = "AVAILABLE" => available(w) + amount >= 0

\* What applyRewardEffect leaves in the rows.
LEMMA EffectRows ==
    ASSUME NEW w \in Wallets, NEW key \in EffectKeys, NEW amount \in Int,
           NEW type \in {"EARN", "ADJUST", "REVERSE"}, NEW status \in {"PENDING", "AVAILABLE"}
    PROVE  EffectLeaves(w, applyRewardEffect(w, key, type, amount, status), key, type, amount, status)
  <1> DEFINE v == applyRewardEffect(w, key, type, amount, status)
  <1> SUFFICES EffectLeaves(w, v, key, type, amount, status)
    OBVIOUS
  <1>1. key \in CaseKeys
    BY DEF EffectKeys, CaseKeys
  <1> DEFINE row == [type |-> type, amount |-> amount, status |-> status]
             paid == [w EXCEPT !.effect[key] = row]
             erasedCase == [status |-> "OPEN", reason |-> "RECIPIENT_ERASED", amount |-> Abs(amount)]
             debitCase == [status |-> "OPEN", reason |-> "ALREADY_PAID_OUT", amount |-> -amount]
  <1>2. CASE amount = 0 \/ w.effect[key] # NoRow \/ w.case[key] # NoCase
    BY <1>2 DEF applyRewardEffect, EffectLeaves
  <1>3. CASE amount # 0 /\ w.effect[key] = NoRow /\ w.case[key] = NoCase
    <2>1. \/ v = [w EXCEPT !.case[key] = erasedCase]
          \/ amount < 0 /\ v = [w EXCEPT !.case[key] = debitCase]
          \/ ~w.erased /\ v = paid /\ (amount < 0 /\ status = "AVAILABLE" => available(w) + amount >= 0)
      <3>1. available(w) + amount < 0 \/ available(w) + amount >= 0
        BY AvailableInt
      <3> QED BY <1>3, <3>1 DEF applyRewardEffect, OpenCase, isRecipientErased
    <2>2. erasedCase # NoCase /\ debitCase # NoCase /\ (amount < 0 => -amount = Abs(amount))
      BY DEF NoCase, Abs
    <2> HIDE DEF v, row, erasedCase, debitCase
    <2>3. CASE v = [w EXCEPT !.case[key] = erasedCase]
      <3>1. /\ v.item = w.item /\ v.red = w.red /\ v.reserve = w.reserve /\ v.erased = w.erased
            /\ v.effect = w.effect /\ v.case[key] = erasedCase
            /\ \A e \in CaseKeys \ {key} : v.case[e] = w.case[e]
        BY <1>1, <2>3 DEF Wallets
      <3> QED BY <1>3, <2>2, <3>1 DEF EffectLeaves, erasedCase
    <2>4. CASE amount < 0 /\ v = [w EXCEPT !.case[key] = debitCase]
      <3>1. /\ v.item = w.item /\ v.red = w.red /\ v.reserve = w.reserve /\ v.erased = w.erased
            /\ v.effect = w.effect /\ v.case[key] = debitCase
            /\ \A e \in CaseKeys \ {key} : v.case[e] = w.case[e]
        BY <1>1, <2>4 DEF Wallets
      <3> QED BY <1>3, <2>2, <2>4, <3>1 DEF EffectLeaves, debitCase
    <2>5. CASE ~w.erased /\ v = paid /\ (amount < 0 /\ status = "AVAILABLE" => available(w) + amount >= 0)
      <3>1. /\ v.item = w.item /\ v.red = w.red /\ v.reserve = w.reserve /\ v.erased = w.erased
            /\ v.case = w.case /\ v.effect[key] = row
            /\ \A e \in EffectKeys \ {key} : v.effect[e] = w.effect[e]
        BY <2>5 DEF Wallets
      <3> QED BY <1>3, <2>5, <3>1 DEF EffectLeaves, row
    <2> QED BY <2>1, <2>3, <2>4, <2>5
  <1> QED BY <1>2, <1>3

\* The fraud hold holds an available earning, opens a case, or finds nothing.
HoldLeaves(w, v, i) ==
    /\ v.item = w.item /\ v.red = w.red /\ v.reserve = w.reserve /\ v.erased = w.erased
    /\ \A e \in EffectKeys \ {<<"earn", i>>} : v.effect[e] = w.effect[e]
    /\ \A e \in CaseKeys \ {<<"fraud", i>>} : v.case[e] = w.case[e]
    /\ LET old == w.effect[<<"earn", i>>] IN
       \/ v.effect = w.effect /\ (old.status = "AVAILABLE" => v.case[<<"fraud", i>>] # NoCase)
       \/ /\ old.status = "AVAILABLE" /\ available(w) >= old.amount
          /\ v.effect[<<"earn", i>>] = [old EXCEPT !.status = "PENDING"]

\* What a hold leaves in the rows.
LEMMA HoldRows == ASSUME NEW w \in Wallets, NEW i \in Items PROVE HoldLeaves(w, HoldEarning(w, i), i)
  <1> DEFINE v == HoldEarning(w, i)
  <1> SUFFICES HoldLeaves(w, v, i)
    OBVIOUS
  <1> USE DEF HoldLeaves
  <1> DEFINE key == <<"earn", i>>
             fraud == <<"fraud", i>>
             old == w.effect[key]
             row == [status |-> "OPEN", reason |-> "ALREADY_PAID_OUT", amount |-> old.amount]
  <1>1. key \in EffectKeys /\ fraud \in CaseKeys
    BY ItemKeys
  <1>2. \/ v = w /\ old.status # "AVAILABLE"
        \/ v = w /\ w.case[fraud] # NoCase
        \/ v = [w EXCEPT !.case[fraud] = row]
        \/ /\ old.status = "AVAILABLE" /\ available(w) >= old.amount
           /\ v = [w EXCEPT !.effect[key].status = "PENDING"]
    BY DEF HoldEarning, OpenCase
  <1>3. row # NoCase
    BY DEF NoCase
  <1> HIDE DEF v, row
  <1>4. CASE v = w /\ (old.status # "AVAILABLE" \/ w.case[fraud] # NoCase)
    BY <1>4
  <1>5. CASE v = [w EXCEPT !.case[fraud] = row]
    <2>1. /\ v.item = w.item /\ v.red = w.red /\ v.reserve = w.reserve /\ v.erased = w.erased
          /\ v.effect = w.effect /\ v.case[fraud] = row
          /\ \A e \in CaseKeys \ {fraud} : v.case[e] = w.case[e]
      BY <1>1, <1>5 DEF Wallets
    <2> QED BY <1>3, <2>1
  <1>6. CASE /\ old.status = "AVAILABLE" /\ available(w) >= old.amount
             /\ v = [w EXCEPT !.effect[key].status = "PENDING"]
    <2>1. /\ v.item = w.item /\ v.red = w.red /\ v.reserve = w.reserve /\ v.erased = w.erased
          /\ v.case = w.case /\ v.effect[key] = [old EXCEPT !.status = "PENDING"]
          /\ \A e \in EffectKeys \ {key} : v.effect[e] = w.effect[e]
      BY <1>1, <1>6 DEF Wallets
    <2> QED BY <1>6, <2>1
  <1> QED BY <1>2, <1>4, <1>5, <1>6

\* The decision releases or rejects a held earning.
SettleLeaves(w, v, i, pays) ==
    /\ v.item = w.item /\ v.red = w.red /\ v.reserve = w.reserve /\ v.erased = w.erased
    /\ v.case = w.case
    /\ \A e \in EffectKeys \ {<<"earn", i>>} : v.effect[e] = w.effect[e]
    /\ LET old == w.effect[<<"earn", i>>] IN
       \/ old.status # "PENDING" /\ v = w
       \/ /\ old.status = "PENDING"
          /\ v.effect[<<"earn", i>>] = [old EXCEPT !.status = IF pays THEN "AVAILABLE" ELSE "REJECTED"]

\* What settling a hold leaves in the rows.
LEMMA SettleRows ==
    ASSUME NEW w \in Wallets, NEW i \in Items, NEW pays \in BOOLEAN
    PROVE  SettleLeaves(w, SettleHold(w, i, pays), i, pays)
  <1> DEFINE v == SettleHold(w, i, pays)
  <1> SUFFICES SettleLeaves(w, v, i, pays)
    OBVIOUS
  <1> USE DEF SettleLeaves
  <1> DEFINE key == <<"earn", i>>
             status == IF pays THEN "AVAILABLE" ELSE "REJECTED"
  <1>1. key \in EffectKeys
    BY ItemKeys
  <1> HIDE DEF status
  <1>2. CASE w.effect[key].status # "PENDING"
    BY <1>2 DEF SettleHold
  <1>3. CASE w.effect[key].status = "PENDING"
    <2>1. v = [w EXCEPT !.effect[key].status = status]
      BY <1>3 DEF SettleHold, status
    <2>2. /\ v.item = w.item /\ v.red = w.red /\ v.reserve = w.reserve /\ v.erased = w.erased
          /\ v.case = w.case /\ v.effect[key] = [w.effect[key] EXCEPT !.status = status]
          /\ \A e \in EffectKeys \ {key} : v.effect[e] = w.effect[e]
      BY <1>1, <2>1 DEF Wallets
    <2> QED BY <1>3, <2>2 DEF status
  <1> QED BY <1>2, <1>3

\* Writing the item row alone.
LEMMA WithItemRows ==
    ASSUME NEW w \in Wallets, NEW i \in Items, NEW row, NEW v, v = WithItem(w, i, row)
    PROVE  /\ v.item[i] = row /\ \A j \in Items \ {i} : v.item[j] = w.item[j]
           /\ v.effect = w.effect /\ v.case = w.case
           /\ v.red = w.red /\ v.reserve = w.reserve /\ v.erased = w.erased
           /\ available(v) = available(w)
  <1>1. /\ v.item[i] = row /\ \A j \in Items \ {i} : v.item[j] = w.item[j]
        /\ v.effect = w.effect /\ v.case = w.case
        /\ v.red = w.red /\ v.reserve = w.reserve /\ v.erased = w.erased
    BY DEF WithItem, Wallets
  <1> QED BY <1>1, AvailableSame

\* A row that is new, as it was, or settles, evolves.
LEMMA RowEvolvesSame == \A row : RowEvolves(row, row)
  BY DEF RowEvolves

\* What an item without a correction has committed is what its earning counts.
LEMMA CommittedEarn ==
    ASSUME NEW w \in Wallets, NEW i \in Items
    PROVE  /\ Committed(w, i) = Counted(w.effect[<<"earn", i>>]) + Counted(w.effect[<<"decision", i>>])
           /\ Committed(w, i) \in Int /\ Counted(NoRow) = 0
  <1>1. Counted(w.effect[<<"earn", i>>]) \in Int /\ Counted(w.effect[<<"decision", i>>]) \in Int
    BY CountedInt, ItemKeys
  <1> QED BY <1>1 DEF Committed, Counted, NoRow, Spendable

\* The acceptance point.
LEMMA AcceptedMove ==
    ASSUME NEW w, WalletSound(w), MoneySound(w), NEW i \in Items, NEW base \in Rewards,
           NEW decision \in {"ACCEPTED", "REVIEW", "REJECTED"}, Undecided(w.item[i])
    PROVE  ItemMove(w, AcceptedWallet(w, i, decision, base), i)
  <1> DEFINE amount == CASE decision = "ACCEPTED" -> base
                         [] decision = "REVIEW"   -> REVIEW_HOLD(base)
                         [] decision = "REJECTED" -> 0
             row == [w.item[i] EXCEPT !.status = decision, !.accepted = TRUE, !.reward = amount]
             priced == WithItem(w, i, row)
             status == IF decision = "REVIEW" THEN "PENDING" ELSE "AVAILABLE"
             earn == <<"earn", i>>
             v == AcceptedWallet(w, i, decision, base)
  <1>1. w \in Wallets /\ ItemSound(w, i) /\ w.item[i] \in DepositItem
    BY DEF WalletSound, MoneySound, Wallets
  <1>2. amount \in Nat /\ (decision = "REJECTED" => amount = 0)
    BY WalletConstants DEF REVIEW_HOLD
  <1>3. status \in {"PENDING", "AVAILABLE"} /\ (decision = "REVIEW" <=> status = "PENDING")
    OBVIOUS
  <1>4. /\ row.status = decision /\ row.accepted /\ row.reward = amount
        /\ row.final = w.item[i].final /\ row \in DepositItem
    BY <1>1, <1>2 DEF DepositItem
  <1>5. v = applyRewardEffect(priced, earn, "EARN", amount, status)
    BY DEF AcceptedWallet
  <1>6. WalletSound(v)
    BY AcceptedSound
  <1> HIDE DEF amount, row, status, v
  <1>7. WalletSound(priced)
    BY <1>4, ItemRowSound
  <1>8. priced \in Wallets
    BY <1>7 DEF WalletSound
  <1>9. /\ priced.item[i] = row /\ \A j \in Items \ {i} : priced.item[j] = w.item[j]
        /\ priced.effect = w.effect /\ priced.case = w.case
        /\ priced.red = w.red /\ priced.reserve = w.reserve /\ priced.erased = w.erased
        /\ available(priced) = available(w)
    BY <1>1, WithItemRows
  <1> HIDE DEF priced
  <1>10. ~w.item[i].final /\ w.effect[earn] = NoRow /\ w.effect[<<"decision", i>>] = NoRow
         /\ w.case[<<"decision", i>>] = NoCase
    BY <1>1 DEF ItemSound, ItemStands, Undecided
  <1>11. /\ v.item = priced.item /\ v.red = w.red /\ v.reserve = w.reserve /\ v.erased = w.erased
         /\ \A e \in EffectKeys \ {earn} : v.effect[e] = w.effect[e]
         /\ \A e \in CaseKeys \ {earn} : v.case[e] = w.case[e]
         /\ \/ v.effect = w.effect
            \/ /\ ~w.erased /\ amount # 0
               /\ v.effect[earn] = [type |-> "EARN", amount |-> amount, status |-> status]
    <2>0. earn \in EffectKeys
      BY ItemKeys
    <2>1. amount \in Int
      BY <1>2
    <2> HIDE DEF earn
    <2>1a. EffectLeaves(priced, v, earn, "EARN", amount, status)
      BY <1>3, <1>5, <1>8, <2>0, <2>1, EffectRows
    <2>2. /\ v.item = priced.item /\ v.red = priced.red /\ v.reserve = priced.reserve /\ v.erased = priced.erased
          /\ \A e \in EffectKeys \ {earn} : v.effect[e] = priced.effect[e]
          /\ \A e \in CaseKeys \ {earn} : v.case[e] = priced.case[e]
          /\ \/ v = priced
             \/ v.effect = priced.effect
             \/ /\ ~priced.erased /\ amount # 0
                /\ v.effect[earn] = [type |-> "EARN", amount |-> amount, status |-> status]
      BY <2>1a DEF EffectLeaves
    <2> QED BY <1>9, <2>2
  <1>12. v \in Wallets
    BY <1>6 DEF WalletSound
  <1>13. Touches(w, v, i)
    BY <1>9, <1>11, ItemKeys DEF Touches
  <1>14. /\ v.item[i] = row /\ v.effect[<<"decision", i>>] = NoRow /\ v.case[<<"decision", i>>] = NoCase
         /\ \/ v.effect[earn] = NoRow
            \/ amount # 0 /\ v.effect[earn] = [type |-> "EARN", amount |-> amount, status |-> status]
    BY <1>9, <1>10, <1>11, ItemKeys
  <1>15. ItemSound(v, i)
    <2>1. ItemStands(v.item[i], v.effect[earn], v.effect[<<"decision", i>>], v.case[<<"decision", i>>])
      BY <1>2, <1>3, <1>4, <1>10, <1>14 DEF ItemStands, Earning, NoRow
    <2>2. ItemPaid(v.item[i], Committed(v, i), v.case[<<"decision", i>>])
      BY <1>4, <1>10, <1>14 DEF ItemPaid
    <2>3. ItemHeld(v.item[i], v.effect[earn], v.case[<<"fraud", i>>])
      BY <1>3, <1>4, <1>14 DEF ItemHeld, NoRow
    <2> QED BY <2>1, <2>2, <2>3 DEF ItemSound
  <1>16. available(v) >= 0
    <2>1. available(v) = available(w) + Counted(v.effect[earn]) - Counted(w.effect[earn])
      BY <1>1, <1>11, <1>12, ItemKeys, EffectChanges
    <2>2. Counted(w.effect[earn]) = 0 /\ Counted(v.effect[earn]) >= 0 /\ Counted(v.effect[earn]) \in Int
      BY <1>2, <1>10, <1>14 DEF Counted, NoRow, Spendable
    <2> QED BY <1>1, <2>1, <2>2, AvailableInt DEF MoneySound
  <1>17. \A e \in EffectKeys : RowEvolves(w.effect[e], v.effect[e])
    BY <1>10, <1>11 DEF RowEvolves
  <1>18. w.erased => v.effect = w.effect
    BY <1>11
  <1> QED BY <1>6, <1>13, <1>15, <1>16, <1>17, <1>18 DEF ItemMove, v

\* The machine returned the item.
LEMMA RejectedMove ==
    ASSUME NEW w, WalletSound(w), MoneySound(w), NEW i \in Items, Undecided(w.item[i])
    PROVE  ItemMove(w, WithItem(w, i, [w.item[i] EXCEPT !.status = "REJECTED"]), i)
  <1> DEFINE row == [w.item[i] EXCEPT !.status = "REJECTED"]
             v == WithItem(w, i, row)
  <1>1. w \in Wallets /\ ItemSound(w, i) /\ w.item[i] \in DepositItem
    BY DEF WalletSound, MoneySound, Wallets
  <1>2. /\ row.status = "REJECTED" /\ row.accepted = w.item[i].accepted /\ row.reward = w.item[i].reward
        /\ row.final = w.item[i].final /\ row \in DepositItem
    BY <1>1 DEF DepositItem
  <1> HIDE DEF row
  <1>3. WalletSound(v)
    BY <1>2, ItemRowSound
  <1>4. /\ v.item[i] = row /\ \A j \in Items \ {i} : v.item[j] = w.item[j]
        /\ v.effect = w.effect /\ v.case = w.case
        /\ v.red = w.red /\ v.reserve = w.reserve /\ v.erased = w.erased
        /\ available(v) = available(w)
    BY <1>1, WithItemRows
  <1> HIDE DEF v
  <1>5. ~w.item[i].final /\ ~w.item[i].accepted
    BY <1>1 DEF ItemSound, ItemStands, Undecided
  <1>6. ItemSound(v, i)
    <2>1. w.item[i].reward = 0
      BY <1>1, <1>5 DEF ItemSound, ItemStands
    <2>2. ItemStands(v.item[i], v.effect[<<"earn", i>>], v.effect[<<"decision", i>>], v.case[<<"decision", i>>])
      BY <1>1, <1>2, <1>4, <1>5, <2>1 DEF ItemSound, ItemStands
    <2>3. ItemPaid(v.item[i], Committed(v, i), v.case[<<"decision", i>>])
      BY <1>2, <1>4, <1>5 DEF ItemPaid
    <2>4. ItemHeld(v.item[i], v.effect[<<"earn", i>>], v.case[<<"fraud", i>>])
      BY <1>2, <1>4 DEF ItemHeld
    <2> QED BY <2>2, <2>3, <2>4 DEF ItemSound
  <1>7. Touches(w, v, i) /\ (w.erased => v.effect = w.effect)
    BY <1>4 DEF Touches
  <1>8. \A e \in EffectKeys : RowEvolves(w.effect[e], v.effect[e])
    BY <1>4, RowEvolvesSame
  <1>9. available(v) >= 0
    BY <1>4 DEF MoneySound
  <1> QED BY <1>3, <1>6, <1>7, <1>8, <1>9 DEF ItemMove, v, row

\* Resolving the debit cases of an item closes cases, and removes none.
LEMMA ResolveRows ==
    ASSUME NEW w \in Wallets, NEW i \in Items, NEW e \in CaseKeys
    PROVE  LET v == ResolveItemDebitCases(w, i)
           IN  /\ v.item = w.item /\ v.red = w.red /\ v.reserve = w.reserve /\ v.erased = w.erased
               /\ v.effect = w.effect
               /\ v.case[e].amount = w.case[e].amount /\ (v.case[e] = NoCase <=> w.case[e] = NoCase)
               /\ (e[2] # i => v.case[e] = w.case[e])
  <1> DEFINE v == ResolveItemDebitCases(w, i)
  <1>1. /\ v.item = w.item /\ v.red = w.red /\ v.reserve = w.reserve /\ v.erased = w.erased
        /\ v.effect = w.effect
        /\ v.case[e] = IF e[2] = i /\ IsOpenDebit(w.case[e]) THEN [w.case[e] EXCEPT !.status = "RESOLVED"]
                       ELSE w.case[e]
    BY DEF ResolveItemDebitCases, Wallets
  <1>2. w.case[e] \in RewardCase
    BY DEF Wallets
  <1> HIDE DEF v
  <1>3. CASE e[2] = i /\ IsOpenDebit(w.case[e])
    <2>1. w.case[e] # NoCase /\ w.case[e] \in [status : {"OPEN", "RESOLVED"},
                             reason : {"ALREADY_PAID_OUT", "RECIPIENT_ERASED"}, amount : Nat]
      BY <1>2, <1>3 DEF RewardCase, NoCase, IsOpenDebit
    <2>2. v.case[e].amount = w.case[e].amount /\ v.case[e].status = "RESOLVED"
      BY <1>1, <1>3, <2>1
    <2>3. v.case[e] # NoCase
      BY <2>2 DEF NoCase
    <2> QED BY <1>1, <1>3, <2>1, <2>2, <2>3 DEF v
  <1>4. CASE ~(e[2] = i /\ IsOpenDebit(w.case[e]))
    BY <1>1, <1>4 DEF v
  <1> QED BY <1>3, <1>4

\* The fraud hold.
HoldWallet(w, i) ==
    LET flagged == [w.item[i] EXCEPT !.fraud = TRUE]
    IN  IF w.item[i].status = "REJECTED" \/ w.item[i].final THEN WithItem(w, i, flagged)
        ELSE HoldEarning(WithItem(w, i, [flagged EXCEPT !.status = "REVIEW"]), i)

\* A hold moves money from available to held.
LEMMA HoldMove ==
    ASSUME NEW w, WalletSound(w), MoneySound(w), NEW i \in Items
    PROVE  ItemMove(w, HoldWallet(w, i), i)
  <1> DEFINE item == w.item[i]
             flagged == [item EXCEPT !.fraud = TRUE]
             review == [flagged EXCEPT !.status = "REVIEW"]
             earn == <<"earn", i>>
             closed == item.status = "REJECTED" \/ item.final
             v == HoldWallet(w, i)
  <1>1. w \in Wallets /\ ItemSound(w, i) /\ item \in DepositItem /\ available(w) >= 0
    BY DEF WalletSound, MoneySound, Wallets
  <1>2. flagged \in DepositItem /\ review \in DepositItem
    BY <1>1 DEF DepositItem
  <1>3. /\ flagged.status = item.status /\ flagged.accepted = item.accepted
        /\ flagged.final = item.final /\ flagged.reward = item.reward
        /\ review.status = "REVIEW" /\ review.accepted = item.accepted
        /\ review.final = item.final /\ review.reward = item.reward
    BY <1>1 DEF DepositItem
  <1> HIDE DEF flagged, review
  <1>4. CASE closed
    <2>1. v = WithItem(w, i, flagged)
      BY <1>4 DEF HoldWallet, flagged
    <2> HIDE DEF v
    <2>2. WalletSound(v)
      BY <1>2, <2>1, ItemRowSound
    <2>3. /\ v.item[i] = flagged /\ \A j \in Items \ {i} : v.item[j] = w.item[j]
          /\ v.effect = w.effect /\ v.case = w.case
          /\ v.red = w.red /\ v.reserve = w.reserve /\ v.erased = w.erased
          /\ available(v) = available(w)
      BY <1>1, <2>1, WithItemRows
    <2>4. Committed(v, i) = Committed(w, i)
      BY <2>3 DEF Committed
    <2>5. ItemStands(v.item[i], v.effect[earn], v.effect[<<"decision", i>>], v.case[<<"decision", i>>])
      BY <1>1, <1>3, <2>3 DEF ItemSound, ItemStands
    <2>6. ItemPaid(v.item[i], Committed(v, i), v.case[<<"decision", i>>])
      BY <1>1, <1>3, <2>3, <2>4 DEF ItemSound, ItemPaid
    <2>7. ItemHeld(v.item[i], v.effect[earn], v.case[<<"fraud", i>>])
      BY <1>1, <1>3, <2>3 DEF ItemSound, ItemHeld
    <2>8. ItemSound(v, i)
      BY <2>5, <2>6, <2>7 DEF ItemSound
    <2>9. Touches(w, v, i) /\ (w.erased => v.effect = w.effect)
      BY <2>3 DEF Touches
    <2>10. \A e \in EffectKeys : RowEvolves(w.effect[e], v.effect[e])
      BY <2>3, RowEvolvesSame
    <2> QED BY <1>1, <2>2, <2>3, <2>8, <2>9, <2>10 DEF ItemMove, v
  <1>5. CASE ~closed
    <2> DEFINE mid == WithItem(w, i, review)
    <2>1. v = HoldEarning(mid, i)
      BY <1>5 DEF HoldWallet, flagged, review
    <2> HIDE DEF v
    <2>2. WalletSound(mid)
      BY <1>2, ItemRowSound
    <2>3. /\ mid.item[i] = review /\ \A j \in Items \ {i} : mid.item[j] = w.item[j]
          /\ mid.effect = w.effect /\ mid.case = w.case
          /\ mid.red = w.red /\ mid.reserve = w.reserve /\ mid.erased = w.erased
          /\ available(mid) = available(w)
      BY <1>1, WithItemRows
    <2> HIDE DEF mid
    <2>4. WalletSound(v)
      BY <2>1, <2>2, HoldEarningSound
    <2>5. HoldLeaves(mid, v, i)
      BY <2>1, <2>2, HoldRows DEF WalletSound
    <2> DEFINE old == w.effect[earn]
    <2>6. /\ v.item = mid.item /\ v.red = w.red /\ v.reserve = w.reserve /\ v.erased = w.erased
          /\ \A e \in EffectKeys \ {earn} : v.effect[e] = w.effect[e]
          /\ \A e \in CaseKeys \ {<<"fraud", i>>} : v.case[e] = w.case[e]
          /\ \/ v.effect = w.effect /\ (old.status = "AVAILABLE" => v.case[<<"fraud", i>>] # NoCase)
             \/ /\ old.status = "AVAILABLE" /\ available(w) >= old.amount
                /\ v.effect[earn] = [old EXCEPT !.status = "PENDING"]
      BY <2>3, <2>5 DEF HoldLeaves
    <2>7. Touches(w, v, i)
      BY <2>3, <2>6, ItemKeys DEF Touches
    <2>8. /\ v.item[i] = review /\ v.effect[<<"decision", i>>] = w.effect[<<"decision", i>>]
          /\ v.case[<<"decision", i>>] = w.case[<<"decision", i>>]
      BY <2>3, <2>6, ItemKeys
    <2>9. old \in LedgerRow
      BY <1>1, ItemKeys, WalletRows
    <2>10. ~item.final /\ Earning(old) /\ (~item.accepted => old = NoRow /\ item.reward = 0)
      BY <1>1, <1>5 DEF ItemSound, ItemStands
    <2>11. CASE v.effect = w.effect /\ (old.status = "AVAILABLE" => v.case[<<"fraud", i>>] # NoCase)
      <3>1. available(v) = available(w)
        BY <2>6, <2>11, AvailableSame
      <3>2. ItemStands(v.item[i], v.effect[earn], v.effect[<<"decision", i>>], v.case[<<"decision", i>>])
        BY <1>1, <1>3, <2>8, <2>10, <2>11 DEF ItemSound, ItemStands
      <3>3. ItemPaid(v.item[i], Committed(v, i), v.case[<<"decision", i>>])
        BY <1>3, <2>8, <2>10 DEF ItemPaid
      <3>4. ItemHeld(v.item[i], v.effect[earn], v.case[<<"fraud", i>>])
        BY <2>11 DEF ItemHeld
      <3>5. \A e \in EffectKeys : RowEvolves(w.effect[e], v.effect[e])
        BY <2>11, RowEvolvesSame
      <3>6. ItemSound(v, i)
        BY <3>2, <3>3, <3>4 DEF ItemSound
      <3> QED BY <1>1, <2>4, <2>7, <2>11, <3>1, <3>5, <3>6 DEF ItemMove, v
    <2>12. CASE /\ old.status = "AVAILABLE" /\ available(w) >= old.amount
                /\ v.effect[earn] = [old EXCEPT !.status = "PENDING"]
      <3>1. old \in [type : EntryType, amount : Int, status : LedgerStatus] /\ old # NoRow
        BY <2>9, <2>12 DEF LedgerRow, NoRow
      <3>2. old.type = "EARN" /\ old.amount > 0 /\ old.amount \in Int /\ item.accepted
        BY <2>10, <3>1 DEF Earning
      <3> DEFINE new == v.effect[earn]
      <3>3. new.type = "EARN" /\ new.amount = old.amount /\ new.status = "PENDING"
        BY <2>12, <3>1, <3>2
      <3>4. Counted(new) = 0 /\ Counted(old) = old.amount
        BY <2>12, <3>2, <3>3 DEF Counted, Spendable
      <3>5. available(v) = available(w) + Counted(new) - Counted(old)
        BY <1>1, <2>4, <2>6, ItemKeys, EffectChanges DEF WalletSound
      <3>6. available(v) >= 0 /\ ~w.erased
        <4>1. available(w) \in Int
          BY <1>1, AvailableInt
        <4>2. available(w) # 0
          BY <2>12, <3>2, <4>1
        <4> QED BY <2>12, <3>2, <3>4, <3>5, <4>1, <4>2 DEF MoneySound, AtRest
      <3>7. ItemStands(v.item[i], new, v.effect[<<"decision", i>>], v.case[<<"decision", i>>])
        BY <1>1, <1>3, <2>8, <2>10, <3>2, <3>3 DEF ItemSound, ItemStands, Earning
      <3>8. ItemPaid(v.item[i], Committed(v, i), v.case[<<"decision", i>>])
        BY <1>3, <2>8, <2>10 DEF ItemPaid
      <3>9. ItemHeld(v.item[i], new, v.case[<<"fraud", i>>])
        BY <3>3 DEF ItemHeld
      <3>10. ItemSound(v, i)
        BY <3>7, <3>8, <3>9 DEF ItemSound
      <3>11. \A e \in EffectKeys : RowEvolves(w.effect[e], v.effect[e])
        <4> TAKE e \in EffectKeys
        <4>1. CASE e = earn
          <5>1. new = [old EXCEPT !.status = new.status]
            BY <2>12, <3>3
          <5> QED BY <2>12, <4>1, <5>1 DEF RowEvolves
        <4>2. CASE e # earn
          BY <2>6, <4>2, RowEvolvesSame
        <4> QED BY <4>1, <4>2
      <3> QED BY <2>4, <2>7, <3>6, <3>10, <3>11 DEF ItemMove, v
    <2> QED BY <2>6, <2>11, <2>12
  <1> QED BY <1>4, <1>5

\* The deposit review: the hold is settled, and a correction or a case makes
\* up for the difference to what the reviewer decided.
LEMMA ReviewedMove ==
    ASSUME NEW w, WalletSound(w), MoneySound(w), NEW i \in Items, NEW approve \in BOOLEAN, NEW target \in Nat,
           w.item[i].status = "REVIEW", approve => w.item[i].accepted, ~approve => target = 0
    PROVE  ItemMove(w, ReviewedWallet(w, i, approve, target), i)
  <1> DEFINE item == w.item[i]
             row == [item EXCEPT !.status = IF approve THEN "ACCEPTED" ELSE "REJECTED",
                                 !.final = TRUE,
                                 !.fraud = IF approve THEN FALSE ELSE @,
                                 !.reward = target]
             decided == WithItem(w, i, row)
             pays == approve /\ target > 0
             freed == SettleHold(decided, i, pays)
             delta == Correction(decided, freed, i, target)
             type == CorrectionType(freed, i, approve, delta)
             earn == <<"earn", i>>
             dec == <<"decision", i>>
             paid == applyRewardEffect(freed, dec, type, delta, "AVAILABLE")
             v == ReviewedWallet(w, i, approve, target)
  <1>1. w \in Wallets /\ ItemSound(w, i) /\ item \in DepositItem /\ available(w) >= 0 /\ available(w) \in Int
    BY AvailableInt DEF WalletSound, MoneySound, Wallets
  <1>2. v = IF paid.case[dec] = NoCase THEN ResolveItemDebitCases(paid, i) ELSE paid
    BY DEF ReviewedWallet
  <1>3. WalletSound(v)
    BY ReviewedSound
  <1>4. /\ row.status = (IF approve THEN "ACCEPTED" ELSE "REJECTED") /\ row.final
        /\ row.reward = target /\ row.accepted = item.accepted
    BY <1>1 DEF DepositItem
  <1>5. row \in DepositItem
    <2>1. CASE approve
      BY <1>1, <2>1 DEF DepositItem
    <2>2. CASE ~approve
      BY <1>1, <2>2 DEF DepositItem
    <2> QED BY <2>1, <2>2
  <1>6. pays \in BOOLEAN
    OBVIOUS
  <1> HIDE DEF row, pays, v
  <1>7. WalletSound(decided)
    BY <1>5, ItemRowSound
  <1>8. /\ decided.item[i] = row /\ \A j \in Items \ {i} : decided.item[j] = w.item[j]
        /\ decided.effect = w.effect /\ decided.case = w.case
        /\ decided.red = w.red /\ decided.reserve = w.reserve /\ decided.erased = w.erased
        /\ available(decided) = available(w)
    BY <1>1, WithItemRows
  <1> HIDE DEF decided
  <1>9. WalletSound(freed)
    BY <1>6, <1>7, SettleHoldSound
  <1>10. SettleLeaves(decided, freed, i, pays)
    BY <1>6, <1>7, SettleRows DEF WalletSound
  <1> HIDE DEF freed
  <1>11. freed \in Wallets /\ decided \in Wallets
    BY <1>7, <1>9 DEF WalletSound
  <1> DEFINE old == w.effect[earn]
             new == freed.effect[earn]
  <1>12. /\ old \in LedgerRow /\ Earning(old) /\ ~item.final
         /\ (~item.accepted => old = NoRow /\ item.reward = 0)
         /\ w.effect[dec] = NoRow /\ w.case[dec] = NoCase
    BY <1>1, ItemKeys, WalletRows DEF ItemSound, ItemStands
  <1>13. /\ freed.item = decided.item /\ freed.red = w.red /\ freed.reserve = w.reserve
         /\ freed.erased = w.erased /\ freed.case = w.case
         /\ \A e \in EffectKeys \ {earn} : freed.effect[e] = w.effect[e]
         /\ \/ old.status # "PENDING" /\ freed.effect = w.effect
            \/ old.status = "PENDING" /\ new = [old EXCEPT !.status = IF pays THEN "AVAILABLE" ELSE "REJECTED"]
    BY <1>8, <1>10 DEF SettleLeaves
  <1>14. /\ Earning(new) /\ new.status # "PENDING" /\ RowEvolves(old, new)
         /\ Counted(new) \in Int /\ Counted(old) \in Int /\ Counted(new) >= Counted(old)
         /\ (~item.accepted => new = NoRow) /\ (old.status # "PENDING" => new = old)
    <2>1. CASE old.status # "PENDING"
      <3>1. new = old
        BY <1>13, <2>1
      <3>2. Counted(old) \in Int
        BY <1>1, CountedInt, ItemKeys
      <3> QED BY <1>12, <2>1, <3>1, <3>2, RowEvolvesSame
    <2>2. CASE old.status = "PENDING"
      <3>1. old \in [type : EntryType, amount : Int, status : LedgerStatus] /\ old # NoRow
        BY <1>12, <2>2 DEF LedgerRow, NoRow
      <3>2. old.type = "EARN" /\ old.amount > 0 /\ old.amount \in Int /\ item.accepted
        BY <1>12, <3>1 DEF Earning
      <3>3. new = [old EXCEPT !.status = IF pays THEN "AVAILABLE" ELSE "REJECTED"]
        BY <1>13, <2>2
      <3>4. new.type = "EARN" /\ new.amount = old.amount /\ new.status \in {"AVAILABLE", "REJECTED"}
        BY <1>6, <3>1, <3>2, <3>3
      <3>5. Counted(old) = 0 /\ Counted(new) \in {0, old.amount}
        BY <2>2, <3>2, <3>4 DEF Counted, Spendable
      <3>6. new = [old EXCEPT !.status = new.status]
        BY <3>1, <3>3, <3>4
      <3>7. RowEvolves(old, new)
        BY <2>2, <3>6 DEF RowEvolves
      <3> QED BY <2>2, <3>2, <3>4, <3>5, <3>7 DEF Earning
    <2> QED BY <2>1, <2>2
  <1>15. available(freed) \in Int /\ available(freed) >= 0
    <2>1. available(freed) = available(w) + Counted(new) - Counted(old)
      BY <1>1, <1>11, <1>13, ItemKeys, EffectChanges
    <2> HIDE DEF new, old
    <2> QED BY <1>1, <1>14, <2>1
  <1>16. freed.effect[dec] = NoRow /\ freed.case[dec] = NoCase
    BY <1>12, <1>13, ItemKeys
  <1>17. delta = target - Counted(new) /\ delta \in Int
    <2>1. Committed(freed, i) = Counted(new) + Counted(freed.effect[dec]) /\ Counted(NoRow) = 0
      BY <1>11, CommittedEarn
    <2> HIDE DEF new
    <2> QED BY <1>14, <1>16, <2>1 DEF Correction
  <1>18. type \in {"EARN", "ADJUST", "REVERSE"}
    BY DEF CorrectionType
  <1> HIDE DEF delta, type
  <1>19. WalletSound(paid)
    <2>1. dec \in EffectKeys /\ dec[1] # "earn"
      BY ItemKeys
    <2> QED BY <1>9, <1>17, <1>18, <2>1, EffectSound
  <1>20. EffectLeaves(freed, paid, dec, type, delta, "AVAILABLE")
    <2>1. dec \in EffectKeys
      BY ItemKeys
    <2> HIDE DEF dec
    <2> QED BY <1>11, <1>17, <1>18, <2>1, EffectRows
  <1> HIDE DEF paid
  <1>21. paid \in Wallets
    BY <1>19 DEF WalletSound
  <1>22. /\ paid.item = decided.item /\ paid.red = w.red /\ paid.reserve = w.reserve /\ paid.erased = w.erased
         /\ \A e \in EffectKeys \ {dec} : paid.effect[e] = freed.effect[e]
         /\ \A e \in CaseKeys \ {dec} : paid.case[e] = w.case[e]
         /\ \/ delta = 0 /\ paid.effect = freed.effect /\ paid.case[dec] = NoCase
            \/ /\ delta # 0 /\ paid.effect = freed.effect /\ paid.case[dec] # NoCase
               /\ paid.case[dec].amount = Abs(delta)
            \/ /\ ~w.erased /\ paid.case[dec] = NoCase
               /\ paid.effect[dec] = [type |-> type, amount |-> delta, status |-> "AVAILABLE"]
               /\ delta < 0 => available(freed) + delta >= 0
    BY <1>13, <1>16, <1>20 DEF EffectLeaves
  <1> DEFINE last == paid.effect[dec]
  <1>23. /\ last.status # "PENDING" /\ Counted(last) \in Int
         /\ \/ delta = 0 /\ last = NoRow /\ Counted(last) = 0 /\ paid.case[dec] = NoCase
            \/ /\ last = NoRow /\ Counted(last) = 0 /\ paid.case[dec] # NoCase
               /\ paid.case[dec].amount = Abs(delta)
            \/ /\ Counted(last) = delta /\ paid.case[dec] = NoCase
               /\ delta < 0 => available(freed) + delta >= 0
    <2>1. Counted(NoRow) = 0 /\ NoRow.status # "PENDING"
      BY DEF Counted, NoRow, Spendable
    <2>2. ASSUME last = [type |-> type, amount |-> delta, status |-> "AVAILABLE"]
          PROVE  Counted(last) = delta /\ last.status # "PENDING"
      BY <1>18, <2>2 DEF Counted, Spendable
    <2> QED BY <1>16, <1>17, <1>22, <2>1, <2>2
  <1>24. available(paid) >= 0
    <2>1. available(paid) = available(freed) + Counted(last) - Counted(freed.effect[dec])
      <3>1. dec \in EffectKeys /\ paid.reserve = freed.reserve
        BY <1>13, <1>22, ItemKeys
      <3> HIDE DEF dec
      <3> QED BY <1>11, <1>21, <1>22, <3>1, EffectChanges
    <2>2. Counted(freed.effect[dec]) = 0
      BY <1>16 DEF Counted, NoRow, Spendable
    <2> HIDE DEF last
    <2> QED BY <1>15, <1>17, <1>23, <2>1, <2>2
  <1>25. /\ v.item = paid.item /\ v.red = w.red /\ v.reserve = w.reserve /\ v.erased = w.erased
         /\ v.effect = paid.effect /\ v.case[dec].amount = paid.case[dec].amount
         /\ (v.case[dec] = NoCase <=> paid.case[dec] = NoCase)
         /\ \A e \in CaseKeys : e[2] # i => v.case[e] = w.case[e]
    <2>1. dec \in CaseKeys /\ dec[2] = i
      BY ItemKeys
    <2>2. \A e \in CaseKeys : e[2] # i => paid.case[e] = w.case[e]
      BY <1>22, <2>1
    <2> DEFINE resolved == ResolveItemDebitCases(paid, i)
    <2>3. \A e \in CaseKeys :
              /\ resolved.item = paid.item /\ resolved.red = paid.red /\ resolved.reserve = paid.reserve
              /\ resolved.erased = paid.erased /\ resolved.effect = paid.effect
              /\ resolved.case[e].amount = paid.case[e].amount
              /\ (resolved.case[e] = NoCase <=> paid.case[e] = NoCase)
              /\ (e[2] # i => resolved.case[e] = paid.case[e])
      BY <1>21, ResolveRows
    <2> HIDE DEF resolved
    <2>4. v = resolved \/ v = paid
      BY <1>2 DEF resolved
    <2>5. CASE v = resolved
      BY <1>22, <2>1, <2>2, <2>3, <2>5
    <2>6. CASE v = paid
      BY <1>22, <2>2, <2>6
    <2> QED BY <2>4, <2>5, <2>6
  <1>26. v.effect[earn] = new /\ v.effect[dec] = last /\ v.item[i] = row
    BY <1>8, <1>22, <1>25, ItemKeys
  <1>27. ItemSound(v, i)
    <2>1. ItemStands(v.item[i], v.effect[earn], v.effect[dec], v.case[dec])
      <3> HIDE DEF new, last
      <3>1. ItemStands(row, new, last, v.case[dec])
        BY <1>4, <1>12, <1>14, <1>23 DEF ItemStands
      <3> QED BY <1>26, <3>1
    <2>2. Committed(v, i) = Counted(new) + Counted(last)
      BY <1>26 DEF Committed
    <2>3. ItemPaid(v.item[i], Committed(v, i), v.case[dec])
      <3> HIDE DEF new, last
      <3> DEFINE owed == target - Committed(v, i)
      <3>1. owed = delta - Counted(last)
        BY <1>14, <1>17, <1>23, <2>2
      <3>2. IF v.case[dec] = NoCase THEN owed = 0 ELSE v.case[dec].amount = Abs(owed)
        <4>1. v.case[dec] # NoCase => owed = delta
          BY <1>17, <1>23, <1>25, <3>1
        <4>2. v.case[dec] = NoCase => owed = 0
          BY <1>17, <1>23, <1>25, <3>1
        <4>3. v.case[dec] # NoCase => v.case[dec].amount = Abs(delta)
          BY <1>23, <1>25
        <4> HIDE DEF owed
        <4> QED BY <4>1, <4>2, <4>3
      <3> QED BY <1>4, <1>26, <3>2 DEF ItemPaid
    <2>4. ItemHeld(v.item[i], v.effect[earn], v.case[<<"fraud", i>>])
      BY <1>4, <1>26 DEF ItemHeld
    <2> QED BY <2>1, <2>3, <2>4 DEF ItemSound
  <1>28. Touches(w, v, i)
    <2>1. \A j \in Items \ {i} : v.item[j] = w.item[j]
      BY <1>8, <1>22, <1>25
    <2>2. \A e \in EffectKeys : e[2] # i => v.effect[e] = w.effect[e]
      BY <1>13, <1>22, <1>25
    <2> QED BY <1>25, <2>1, <2>2 DEF Touches
  <1>29. available(v) >= 0
    BY <1>22, <1>24, <1>25, AvailableSame
  <1>30. w.erased => v.effect = w.effect
    <2> HAVE w.erased
    <2>1. old.status # "PENDING"
      BY ItemKeys DEF MoneySound, AtRest
    <2> QED BY <1>13, <1>22, <1>25, <2>1
  <1>31. \A e \in EffectKeys : RowEvolves(w.effect[e], v.effect[e])
    <2> TAKE e \in EffectKeys
    <2>1. CASE e = earn
      BY <1>14, <1>26, <2>1
    <2>2. CASE e = dec
      BY <1>12, <2>2 DEF RowEvolves
    <2>3. CASE e # earn /\ e # dec
      BY <1>13, <1>22, <1>25, <2>3, RowEvolvesSame
    <2> QED BY <2>1, <2>2, <2>3
  <1> QED BY <1>3, <1>27, <1>28, <1>29, <1>30, <1>31 DEF ItemMove, v

-----------------------------------------------------------------------------
(* Steps: MoneyInv, and what a step may do to a user's rows.                 *)

\* One user's part of HeldMoneyStaysPut.
MoneyStays(w, v, enabled) ==
    /\ \A e \in EffectKeys : RowEvolves(w.effect[e], v.effect[e])
    /\ \A k \in Keys :
        /\ RowEvolves(w.reserve[k], v.reserve[k])
        /\ w.red[k] = NoRedemption /\ v.red[k] # NoRedemption => available(v) >= held(v) /\ enabled

Stays == \A u \in Users : MoneyStays(db[u], db'[u], account[u] = "ENABLED")

\* A step that writes no rows.
LEMMA StaysQuietly == db' = db => Stays
  BY RowEvolvesSame DEF Stays, MoneyStays

\* The end of a transaction gives up what it holds FOR SHARE.
LEMMA ReleaseShare ==
    ASSUME IInv, MoneyInv, NEW t \in Txns, Release(t)
    PROVE  \A s \in Txns : share'[s] # "NONE" => /\ s # t /\ share[s] # "NONE" /\ share'[s] = share[s]
                                                 /\ pc'[s] = "read" /\ who'[s] = who[s] /\ who[s] \in Users
  <1> SUFFICES ASSUME NEW s \in Txns, share'[s] # "NONE"
               PROVE  /\ s # t /\ share[s] # "NONE" /\ share'[s] = share[s]
                      /\ pc'[s] = "read" /\ who'[s] = who[s] /\ who[s] \in Users
    OBVIOUS
  <1>1. s # t /\ share'[s] = share[s] /\ pc'[s] = pc[s] /\ who'[s] = who[s]
    BY DEF Release, IInv, TypeOK
  <1>2. pc[s] = "read"
    BY <1>1 DEF MoneyInv, ShareInv
  <1> QED BY <1>1, <1>2 DEF IInv, LockInv

\* A transaction that ends without writing.
LEMMA MoneyQuiet ==
    ASSUME IInv, MoneyInv, NEW t \in Txns, Release(t), db' = db, account' = account, RefsInv'
    PROVE  MoneyInv' /\ Stays
  <1>1. ShareInv'
    BY ReleaseShare DEF MoneyInv, ShareInv
  <1> QED BY <1>1, StaysQuietly DEF MoneyInv

\* A commit that leaves the rows of its user in order.
LEMMA MoneyCommit ==
    ASSUME IInv, MoneyInv, NEW t \in Txns, pc[t] = "read", NEW v, db' = [db EXCEPT ![who[t]] = v],
           MoneySound(v), MoneyStays(db[who[t]], v, account[who[t]] = "ENABLED"),
           Release(t), account' = account, v.erased = db[who[t]].erased,
           \A k \in Keys : Acknowledged(acked'[who[t]][k], v.red[k]),
           \A u \in Users \ {who[t]} : acked'[u] = acked[u]
    PROVE  MoneyInv' /\ Stays
  <1>1. who[t] \in Users /\ db'[who[t]] = v /\ \A u \in Users \ {who[t]} : db'[u] = db[u]
    BY DEF IInv, TypeOK, LockInv
  <1>2. ShareInv'
    <2>1. \A s \in Txns : share'[s] # "NONE" => pc'[s] = "read" /\ account'[who'[s]] = share'[s]
      BY ReleaseShare DEF MoneyInv, ShareInv
    <2>2. \A u \in Users : db'[u].erased => account'[u] = "DISABLED"
      BY <1>1 DEF MoneyInv, ShareInv
    <2> QED BY <2>1, <2>2 DEF ShareInv
  <1>3. RefsInv'
    BY <1>1 DEF MoneyInv, RefsInv
  <1>4. \A u \in Users : MoneySound(db'[u])
    BY <1>1 DEF MoneyInv
  <1>5. Stays
    <2> SUFFICES ASSUME NEW u \in Users PROVE MoneyStays(db[u], db'[u], account[u] = "ENABLED")
      BY DEF Stays
    <2>1. CASE u = who[t]
      BY <1>1, <2>1
    <2>2. CASE u # who[t]
      BY <1>1, <2>2, RowEvolvesSame DEF MoneyStays
    <2> QED BY <2>1, <2>2
  <1>6. MoneyInv'
    BY <1>2, <1>3, <1>4 DEF MoneyInv
  <1> QED BY <1>5, <1>6

\* What a transaction has read under its lock.
LEMMA MoneyRead ==
    ASSUME IInv, MoneyInv, NEW t \in Txns, pc[t] = "read"
    PROVE  /\ who[t] \in Users /\ snap[t] = db[who[t]]
           /\ WalletSound(db[who[t]]) /\ MoneySound(db[who[t]])
           /\ \A k \in Keys : Acknowledged(acked[who[t]][k], db[who[t]].red[k])
  BY ReadSound DEF MoneyInv, RefsInv

\* Writing back the rows of an item over the rows they were read from.
LEMMA WriteItemBack ==
    ASSUME NEW w \in Wallets, NEW v \in Wallets, NEW i \in Items, Touches(w, v, i)
    PROVE  WriteItem(w, v, i) = v
  <1> DEFINE x == WriteItem(w, v, i)
  <1>1. x \in Wallets
    BY DEF Wallets, WriteItem
  <1>2. x.red = w.red /\ x.reserve = w.reserve /\ x.erased = w.erased
    BY DEF Wallets, WriteItem
  <1>3. \A j \in Items : x.item[j] = v.item[j]
    BY DEF Wallets, WriteItem, Touches
  <1>4. \A e \in EffectKeys : x.effect[e] = v.effect[e]
    BY DEF Wallets, WriteItem, Touches
  <1>5. \A e \in CaseKeys : x.case[e] = v.case[e]
    BY DEF Wallets, WriteItem, Touches
  <1> HIDE DEF x
  <1>6. x.item = v.item /\ x.effect = v.effect /\ x.case = v.case
    BY <1>1, <1>3, <1>4, <1>5 DEF Wallets
  <1>7. x = v
    BY <1>1, <1>2, <1>6 DEF Wallets, Touches
  <1> QED BY <1>7 DEF x

\* Committing the rows of an item.
LEMMA MoneyCommitItem ==
    ASSUME IInv, MoneyInv, NEW t \in Txns, NEW i \in Items, NEW v, CommitItem(t, i, v),
           ItemMove(snap[t], v, i)
    PROVE  MoneyInv' /\ Stays
  <1>1. /\ pc[t] = "read" /\ Release(t) /\ account' = account /\ acked' = acked
        /\ db' = [db EXCEPT ![who[t]] = WriteItem(db[who[t]], v, i)]
    BY DEF CommitItem, Committing
  <1> DEFINE w == db[who[t]]
  <1>2. /\ who[t] \in Users /\ snap[t] = w /\ WalletSound(w) /\ MoneySound(w)
        /\ \A k \in Keys : Acknowledged(acked[who[t]][k], w.red[k])
    BY <1>1, MoneyRead
  <1> HIDE DEF w
  <1>3. v \in Wallets /\ w \in Wallets /\ Touches(w, v, i)
    BY <1>2 DEF ItemMove, WalletSound
  <1>4. WriteItem(w, v, i) = v
    BY <1>3, WriteItemBack
  <1>5. MoneySound(v)
    BY <1>2, MoveSound
  <1>6. MoneyStays(w, v, account[who[t]] = "ENABLED")
    BY <1>2, <1>3, RowEvolvesSame DEF ItemMove, Touches, MoneyStays
  <1>7. v.erased = w.erased /\ v.red = w.red
    BY <1>3 DEF Touches
  <1> QED BY <1>1, <1>2, <1>4, <1>5, <1>6, <1>7, MoneyCommit DEF w

\* The acceptance point, the rejection, the fraud hold and the review.
LEMMA MoneyDeposits ==
    ASSUME IInv, MoneyInv, NEW t \in Txns, Deposits(t)
    PROVE  MoneyInv' /\ Stays
  <1> PICK i \in Items :
        \/ \E d \in {"ACCEPTED", "REVIEW", "REJECTED"}, base \in Rewards : handleAcceptance(t, i, d, base)
        \/ handleItemRejected(t, i)
        \/ holdItemForFraud(t, i)
        \/ \E approve \in BOOLEAN, target \in Rewards \cup {0} : decideDepositReview(t, i, approve, target)
    BY DEF Deposits
  <1>1. pc[t] = "read"
    BY DEF handleAcceptance, handleItemRejected, holdItemForFraud, decideDepositReview, CommitItem,
       Committing, StillUndecided
  <1>2. WalletSound(snap[t]) /\ MoneySound(snap[t])
    BY <1>1, MoneyRead
  <1>3. ASSUME NEW d \in {"ACCEPTED", "REVIEW", "REJECTED"}, NEW base \in Rewards,
               handleAcceptance(t, i, d, base)
        PROVE  MoneyInv' /\ Stays
    BY <1>2, <1>3, AcceptedMove, MoneyCommitItem DEF handleAcceptance
  <1>4. CASE handleItemRejected(t, i)
    BY <1>2, <1>4, RejectedMove, MoneyCommitItem DEF handleItemRejected
  <1>5. CASE holdItemForFraud(t, i)
    <2>1. CommitItem(t, i, HoldWallet(snap[t], i))
      BY <1>5 DEF holdItemForFraud, HoldWallet
    <2> QED BY <1>2, <2>1, HoldMove, MoneyCommitItem
  <1>6. ASSUME NEW approve \in BOOLEAN, NEW target \in Rewards \cup {0},
               decideDepositReview(t, i, approve, target)
        PROVE  MoneyInv' /\ Stays
    <2>1. target \in Nat
      BY WalletConstants
    <2> QED BY <1>2, <1>6, <2>1, ReviewedMove, MoneyCommitItem DEF decideDepositReview
  <1> QED BY <1>3, <1>4, <1>5, <1>6

\* What writing a request and its reserve changes, and what it leaves.
LEMMA PayoutRows ==
    ASSUME NEW w \in Wallets, NEW k \in Keys, NEW r \in Redemption, NEW row \in LedgerRow, NEW v,
           v = WriteRedemption(w, k, r, row)
    PROVE  /\ v \in Wallets
           /\ v.item = w.item /\ v.effect = w.effect /\ v.case = w.case /\ v.erased = w.erased
           /\ v.red[k] = r /\ v.reserve[k] = row
           /\ \A j \in Keys \ {k} : v.red[j] = w.red[j] /\ v.reserve[j] = w.reserve[j]
  BY DEF WriteRedemption, Wallets

\* The cases hold the same, and the balance changes by what the reserve counts.
LEMMA PayoutBalance ==
    ASSUME NEW w \in Wallets, NEW k \in Keys, NEW r \in Redemption, NEW row \in LedgerRow, NEW v,
           v = WriteRedemption(w, k, r, row)
    PROVE  /\ held(v) = held(w)
           /\ available(v) = available(w) + Counted(row) - Counted(w.reserve[k])
           /\ \A i \in Items : ItemSound(w, i) => ItemSound(v, i)
  <1>1. /\ v \in Wallets
        /\ v.item = w.item /\ v.effect = w.effect /\ v.case = w.case
        /\ v.reserve[k] = row
        /\ \A j \in Keys \ {k} : v.reserve[j] = w.reserve[j]
    BY PayoutRows
  <1>2. held(v) = held(w)
    BY <1>1 DEF held, HeldByItem
  <1>3. available(v) = available(w) + Counted(row) - Counted(w.reserve[k])
    BY <1>1, ReserveChanges
  <1>4. \A i \in Items : ItemSound(w, i) => ItemSound(v, i)
    BY <1>1 DEF ItemSound, Committed
  <1> QED BY <1>2, <1>3, <1>4

\* Committing a request and its reserve.
LEMMA MoneyPayout ==
    ASSUME IInv, MoneyInv, NEW t \in Txns, pc[t] = "read", NEW k \in Keys,
           NEW r \in Redemption, NEW row \in LedgerRow, NEW w, w = db[who[t]],
           NEW v, v = WriteRedemption(w, k, r, row), db' = [db EXCEPT ![who[t]] = v],
           Release(t), account' = account,
           available(w) + Counted(row) - Counted(w.reserve[k]) >= 0,
           RowEvolves(w.reserve[k], row),
           w.red[k] = NoRedemption /\ r # NoRedemption =>
               /\ available(w) + Counted(row) - Counted(w.reserve[k]) >= held(w)
               /\ account[who[t]] = "ENABLED",
           w.erased => Counted(row) = Counted(w.reserve[k]) /\ r.status \in TERMINAL_STATUSES \cup {"NONE"},
           Acknowledged(acked'[who[t]][k], r),
           \A j \in Keys \ {k} : acked'[who[t]][j] = acked[who[t]][j],
           \A u \in Users \ {who[t]} : acked'[u] = acked[u]
    PROVE  MoneyInv' /\ Stays
  <1>1. /\ who[t] \in Users /\ w \in Wallets /\ MoneySound(w)
        /\ \A j \in Keys : Acknowledged(acked[who[t]][j], w.red[j])
    BY MoneyRead DEF WalletSound
  <1>2. /\ v \in Wallets
        /\ v.item = w.item /\ v.effect = w.effect /\ v.case = w.case /\ v.erased = w.erased
        /\ v.red[k] = r /\ v.reserve[k] = row
        /\ \A j \in Keys \ {k} : v.red[j] = w.red[j] /\ v.reserve[j] = w.reserve[j]
    BY <1>1, PayoutRows
  <1>3. /\ held(v) = held(w)
        /\ available(v) = available(w) + Counted(row) - Counted(w.reserve[k])
        /\ \A i \in Items : ItemSound(w, i) => ItemSound(v, i)
    BY <1>1, PayoutBalance
  <1>4. w.erased => AtRest(v)
    <2> SUFFICES ASSUME w.erased PROVE AtRest(v)
      OBVIOUS
    <2>1. AtRest(w)
      BY <1>1 DEF MoneySound
    <2>2. available(v) = 0
      BY <1>1, <1>3, <2>1, CountedInt, AvailableInt DEF AtRest
    <2>3. \A j \in Keys : v.red[j].status \in TERMINAL_STATUSES \cup {"NONE"}
      BY <1>2, <2>1 DEF AtRest
    <2> QED BY <1>2, <2>1, <2>2, <2>3 DEF AtRest
  <1>5. MoneySound(v)
    BY <1>1, <1>2, <1>3, <1>4 DEF MoneySound
  <1>6. MoneyStays(w, v, account[who[t]] = "ENABLED")
    BY <1>2, <1>3, RowEvolvesSame DEF MoneyStays
  <1>7. \A j \in Keys : Acknowledged(acked'[who[t]][j], v.red[j])
    BY <1>1, <1>2
  <1> QED BY <1>1, <1>2, <1>5, <1>6, <1>7, MoneyCommit

\* A payout request: its user's payout account is enabled, so the account is
\* not erased, and what is left covers the open cases.
LEMMA MoneyRequest ==
    ASSUME IInv, MoneyInv, NEW t \in Txns, NEW k \in Keys, NEW amount \in Amounts,
           requestRedemption(t, k, amount)
    PROVE  MoneyInv' /\ Stays
  <1> DEFINE w == db[who[t]]
             r == [status |-> "REQUESTED", amount |-> amount, ref |-> NoRef, proof |-> FALSE, recon |-> FALSE]
             row == [type |-> "REDEEM", amount |-> -amount, status |-> "PENDING"]
             v == WriteRedemption(w, k, r, row)
  <1>1. /\ pc[t] = "read" /\ share[t] = "ENABLED" /\ Release(t) /\ db' = [db EXCEPT ![who[t]] = v]
        /\ account' = account /\ acked' = acked /\ Covers(snap[t], amount) /\ w.red[k] = NoRedemption
    BY DEF requestRedemption
  <1>2. /\ who[t] \in Users /\ snap[t] = w /\ WalletSound(w)
        /\ \A j \in Keys : Acknowledged(acked[who[t]][j], w.red[j])
    BY <1>1, MoneyRead
  <1>3. account[who[t]] = "ENABLED"
    BY <1>1 DEF MoneyInv, ShareInv
  <1>4. ~w.erased
    BY <1>2, <1>3 DEF MoneyInv, ShareInv
  <1>5. r \in Redemption /\ row \in LedgerRow
    BY WalletConstants DEF Redemption, RedemptionStatus, LedgerRow, EntryType, LedgerStatus
  <1>6. Counted(row) = -amount
    BY DEF Counted, Spendable
  <1>7. w.reserve[k] = NoRow
    BY <1>1, <1>2 DEF WalletSound, PayoutSound, ReserveMatches
  <1>8. Counted(NoRow) = 0
    BY DEF Counted, NoRow, Spendable
  <1>9. acked[who[t]][k] = {}
    <2>1. w.red[k].status # "SUCCESS"
      BY <1>1 DEF NoRedemption
    <2> QED BY <1>2, <2>1 DEF Acknowledged
  <1>10. available(w) - held(w) >= amount
    BY <1>1, <1>2 DEF Covers
  <1>11. w \in Wallets
    BY <1>2 DEF WalletSound
  <1> HIDE DEF r, row, w
  <1>12. /\ available(w) + Counted(row) - Counted(w.reserve[k]) >= 0
         /\ available(w) + Counted(row) - Counted(w.reserve[k]) >= held(w)
    <2>1. available(w) \in Int /\ held(w) \in Nat /\ amount \in Nat
      BY <1>11, AvailableInt, HeldNat, WalletConstants
    <2> QED BY <1>6, <1>7, <1>8, <1>10, <2>1
  <1>13. RowEvolves(w.reserve[k], row) /\ Acknowledged(acked'[who[t]][k], r)
    BY <1>1, <1>7, <1>9 DEF RowEvolves, Acknowledged
  <1> QED BY <1>1, <1>3, <1>4, <1>5, <1>12, <1>13, MoneyPayout DEF w

\* A transition starts from a request in flight; only a success ends in SUCCESS.
LEMMA TransitionRule ==
    ASSUME NEW action \in RedemptionActions
    PROVE  /\ \A x \in TRANSITIONS[action].from : x \notin TERMINAL_STATUSES \cup {"NONE"}
           /\ action = "success" => TRANSITIONS[action].to = "SUCCESS"
           /\ expectedReserveStatus(TRANSITIONS[action].to) \in {"PENDING", "REDEEMED", "REVERSED"}
  BY DEF RedemptionActions, TRANSITIONS, expectedReserveStatus, TERMINAL_STATUSES

\* What the service has answered for one request.
LEMMA AcknowledgedOthers ==
    ASSUME IInv, NEW u \in Users, NEW k \in Keys, NEW action, NEW ref, Acknowledge(u, k, action, ref)
    PROVE  /\ acked'[u][k] = IF action = "success" /\ ref # NoRef THEN acked[u][k] \cup {ref} ELSE acked[u][k]
           /\ \A j \in Keys \ {k} : acked'[u][j] = acked[u][j]
           /\ \A x \in Users \ {u} : acked'[x] = acked[x]
  BY DEF Acknowledge, IInv, TypeOK

\* A transition keeps or gives back what the reserve counts, and is
\* acknowledged with the reference it stores.
LEMMA MoneyTransition ==
    ASSUME IInv, MoneyInv, NEW t \in Txns, NEW k \in Keys, NEW action \in RedemptionActions,
           NEW ref \in Refs \cup {NoRef}, transitionRedemption(t, k, action, ref)
    PROVE  MoneyInv' /\ Stays
  <1> DEFINE u == who[t]
             w == db[u]
             rule == TRANSITIONS[action]
             old == w.red[k]
             oldRow == w.reserve[k]
             r == [old EXCEPT !.status = rule.to, !.ref = WithRef(old.ref, ref),
                              !.recon = ReconciliationAfter(old.recon, rule.to)]
             row == [oldRow EXCEPT !.status = IF rule.reserve = "PENDING" THEN oldRow.status ELSE rule.reserve]
             v == WriteRedemption(w, k, r, row)
  <1>1. pc[t] = "read" /\ Release(t) /\ db' = [db EXCEPT ![u] = v] /\ account' = account
        /\ Acknowledge(u, k, action, ref)
    BY DEF transitionRedemption, Committing
  <1>2. /\ u \in Users /\ snap[t] = w /\ WalletSound(w) /\ MoneySound(w)
        /\ \A j \in Keys : Acknowledged(acked[u][j], w.red[j])
    BY <1>1, MoneyRead
  <1>3. old \in Redemption \ {NoRedemption} /\ PayoutSound(old, oldRow) /\ old.status \in rule.from
    BY <1>2 DEF transitionRedemption, MayTransition, HasReserve, WalletSound, Wallets
  <1>4. oldRow = [type |-> "REDEEM", amount |-> -old.amount, status |-> "PENDING"]
    BY <1>3, TransitionAgrees DEF PayoutSound, ReserveMatches
  <1>5. old \in [status : RedemptionStatus, amount : Amounts, ref : Refs \cup {NoRef, ErasedRef},
                 proof : BOOLEAN, recon : BOOLEAN]
    BY <1>3 DEF Redemption
  <1>6. old.status \notin TERMINAL_STATUSES \cup {"NONE"}
    BY <1>3, TransitionRule
  <1>7. ~w.erased
    BY <1>2, <1>6 DEF MoneySound, AtRest
  <1>8. acked[u][k] = {}
    BY <1>2, <1>6 DEF Acknowledged, TERMINAL_STATUSES
  <1>9. w \in Wallets
    BY <1>2 DEF WalletSound
  <1>10. available(w) >= 0 /\ available(w) \in Int
    BY <1>2, <1>9, AvailableInt DEF MoneySound
  <1>11. oldRow = w.reserve[k] /\ old = w.red[k]
    OBVIOUS
  <1> HIDE DEF old, oldRow, w
  <1>12. /\ r \in Redemption \ {NoRedemption} /\ r.amount = old.amount /\ r.status = rule.to
         /\ r.ref = WithRef(old.ref, ref)
    BY <1>5, TransitionAgrees DEF Redemption, NoRedemption, WithRef, ReconciliationAfter, RedemptionStatus
  <1>13. row = [type |-> "REDEEM", amount |-> -old.amount, status |-> expectedReserveStatus(rule.to)]
    BY <1>4, TransitionAgrees
  <1>14. old.amount \in Nat
    BY <1>5, WalletConstants
  <1>15. row \in LedgerRow
    BY <1>5, <1>13, TransitionAgrees, WalletConstants DEF LedgerRow, EntryType
  <1>16. Acknowledged(acked'[u][k], r)
    <2>0. acked'[u][k] = IF action = "success" /\ ref # NoRef THEN acked[u][k] \cup {ref} ELSE acked[u][k]
      BY <1>1, <1>2, AcknowledgedOthers
    <2>1. acked'[u][k] = IF action = "success" /\ ref # NoRef THEN {ref} ELSE {}
      BY <1>8, <2>0
    <2>2. ref # NoRef => ref \in Refs /\ r.ref = ref
      BY <1>12 DEF WithRef
    <2>3. action = "success" => r.status = "SUCCESS"
      BY <1>12, TransitionRule
    <2> QED BY <2>1, <2>2, <2>3 DEF Acknowledged
  <1>17. RowEvolves(oldRow, row)
    BY <1>4, <1>13 DEF RowEvolves
  <1>18. Counted(oldRow) = -old.amount /\ Counted(row) \in {-old.amount, 0}
    <2>1. Counted(oldRow) = -old.amount
      BY <1>4 DEF Counted, Spendable
    <2>2. expectedReserveStatus(rule.to) \in {"PENDING", "REDEEMED", "REVERSED"}
      BY TransitionRule
    <2>3. row.amount = -old.amount
      BY <1>13
    <2> HIDE DEF row
    <2> QED BY <2>1, <2>3 DEF Counted
  <1> HIDE DEF r, row
  <1>19. available(w) + Counted(row) - Counted(oldRow) >= 0
    BY <1>10, <1>14, <1>18
  <1>20. /\ \A j \in Keys \ {k} : acked'[u][j] = acked[u][j]
         /\ \A x \in Users \ {u} : acked'[x] = acked[x]
    BY <1>1, <1>2, AcknowledgedOthers
  <1>21. w.red[k] # NoRedemption
    BY <1>3, <1>11
  <1> QED BY <1>1, <1>7, <1>11, <1>12, <1>15, <1>16, <1>17, <1>19, <1>20, <1>21, MoneyPayout DEF w

\* A replay answers with the reference that is stored: it is not refused only
\* when it names none or this one, and a fingerprint is nobody's reference.
LEMMA MoneyReplay ==
    ASSUME IInv, MoneyInv, NEW t \in Txns, NEW k \in Keys, NEW action \in RedemptionActions,
           NEW ref \in Refs \cup {NoRef}, replayTransition(t, k, action, ref)
    PROVE  MoneyInv' /\ Stays
  <1> DEFINE u == who[t]
             r == db[u].red[k]
  <1>1. /\ pc[t] = "read" /\ Release(t) /\ db' = db /\ account' = account /\ Acknowledge(u, k, action, ref)
        /\ snap[t].red[k].status = TRANSITIONS[action].to /\ assertIdenticalReplay(snap[t].red[k], ref)
    BY DEF replayTransition, Committing
  <1>2. u \in Users /\ snap[t] = db[u] /\ \A j \in Keys : Acknowledged(acked[u][j], db[u].red[j])
    BY <1>1, MoneyRead
  <1>3. /\ acked'[u][k] = IF action = "success" /\ ref # NoRef THEN acked[u][k] \cup {ref} ELSE acked[u][k]
        /\ \A j \in Keys \ {k} : acked'[u][j] = acked[u][j]
        /\ \A x \in Users \ {u} : acked'[x] = acked[x]
    BY <1>1, <1>2, AcknowledgedOthers
  <1>4. Acknowledged(acked'[u][k], r)
    <2>1. CASE action = "success" /\ ref # NoRef
      <3>1. r.status = "SUCCESS" /\ ref = r.ref /\ ref \in Refs /\ ErasedRef \notin Refs
        BY <1>1, <1>2, <2>1, TransitionRule, WalletConstants DEF assertIdenticalReplay
      <3>2. acked[u][k] = {} \/ acked[u][k] = {ref}
        BY <1>2, <3>1 DEF Acknowledged
      <3>3. acked'[u][k] = {ref}
        BY <1>3, <2>1, <3>2
      <3> QED BY <3>1, <3>3 DEF Acknowledged
    <2>2. CASE ~(action = "success" /\ ref # NoRef)
      BY <1>2, <1>3, <2>2
    <2> QED BY <2>1, <2>2
  <1>5. \A x \in Users, j \in Keys : Acknowledged(acked'[x][j], db[x].red[j])
    BY <1>3, <1>4 DEF MoneyInv, RefsInv
  <1>6. RefsInv'
    BY <1>1, <1>5 DEF RefsInv
  <1> QED BY <1>1, <1>6, MoneyQuiet

\* A flag and a proof leave status, reference and reserve.
LEMMA MoneyMark ==
    ASSUME IInv, MoneyInv, NEW t \in Txns, NEW k \in Keys,
           flagRedemptionForReconciliation(t, k) \/ attachRedemptionProof(t, k)
    PROVE  MoneyInv' /\ Stays
  <1> DEFINE u == who[t]
             w == db[u]
             old == w.red[k]
             row == w.reserve[k]
             flagged == [old EXCEPT !.recon = TRUE]
             proven == [old EXCEPT !.proof = TRUE]
             Write(r) == WriteRedemption(w, k, r, row)
  <1>1. pc[t] = "read" /\ Release(t) /\ account' = account /\ acked' = acked
    BY DEF flagRedemptionForReconciliation, attachRedemptionProof, Committing
  <1>2. /\ u \in Users /\ snap[t] = w /\ WalletSound(w) /\ MoneySound(w)
        /\ \A j \in Keys : Acknowledged(acked[u][j], w.red[j])
    BY <1>1, MoneyRead
  <1>3. w \in Wallets /\ row \in LedgerRow /\ old \in Redemption
    BY <1>2 DEF WalletSound, Wallets
  <1>4. old # NoRedemption /\ (db' = [db EXCEPT ![u] = Write(flagged)] \/ db' = [db EXCEPT ![u] = Write(proven)])
    BY <1>2 DEF flagRedemptionForReconciliation, attachRedemptionProof, HasReserve
  <1>5. old \in [status : RedemptionStatus, amount : Amounts, ref : Refs \cup {NoRef, ErasedRef},
                 proof : BOOLEAN, recon : BOOLEAN]
    BY <1>3, <1>4 DEF Redemption
  <1>6. available(w) >= 0 /\ available(w) \in Int /\ Counted(row) \in Int
    BY <1>2, <1>3, AvailableInt, CountedInt DEF MoneySound
  <1>7. w.erased => old.status \in TERMINAL_STATUSES \cup {"NONE"}
    BY <1>2 DEF MoneySound, AtRest
  <1>8. w.red[k] = old /\ w.reserve[k] = row /\ Acknowledged(acked[u][k], old)
    BY <1>2
  <1> HIDE DEF old, row, w
  <1>9. /\ flagged \in Redemption /\ flagged.status = old.status /\ flagged.ref = old.ref
        /\ proven \in Redemption /\ proven.status = old.status /\ proven.ref = old.ref
    BY <1>5 DEF Redemption
  <1> HIDE DEF flagged, proven
  <1>10. RowEvolves(row, row) /\ available(w) + Counted(row) - Counted(row) >= 0
    BY <1>6, RowEvolvesSame
  <1>11. ASSUME NEW r \in Redemption, r.status = old.status, r.ref = old.ref,
                db' = [db EXCEPT ![u] = Write(r)]
         PROVE  MoneyInv' /\ Stays
    <2>1. Acknowledged(acked'[u][k], r)
      BY <1>1, <1>8, <1>11 DEF Acknowledged
    <2> QED BY <1>1, <1>3, <1>4, <1>7, <1>8, <1>10, <1>11, <2>1, MoneyPayout DEF w
  <1> QED BY <1>4, <1>9, <1>11

\* An operator closes a case: no ledger row moves and no case disappears.
LEMMA MoneyResolve ==
    ASSUME IInv, MoneyInv, NEW t \in Txns, NEW key \in CaseKeys, resolveRewardCase(t, key)
    PROVE  MoneyInv' /\ Stays
  <1> DEFINE w == db[who[t]]
             row == [w.case[key] EXCEPT !.status = "RESOLVED"]
             v == [w EXCEPT !.case[key] = row]
  <1>1. /\ pc[t] = "read" /\ Release(t) /\ account' = account /\ acked' = acked
        /\ db' = [db EXCEPT ![who[t]] = v] /\ w.case[key].status = "OPEN"
    BY DEF resolveRewardCase, Committing
  <1>2. /\ who[t] \in Users /\ w \in Wallets /\ MoneySound(w)
        /\ \A k \in Keys : Acknowledged(acked[who[t]][k], w.red[k])
    BY <1>1, MoneyRead DEF WalletSound
  <1> HIDE DEF w
  <1>3. w.case[key] \in RewardCase /\ w.case[key] # NoCase
    BY <1>1, <1>2 DEF Wallets, NoCase
  <1>4. row.amount = w.case[key].amount /\ row # NoCase
    BY <1>3 DEF RewardCase, NoCase
  <1> HIDE DEF row
  <1>5. /\ v.item = w.item /\ v.effect = w.effect /\ v.red = w.red /\ v.reserve = w.reserve
        /\ v.erased = w.erased /\ v.case[key] = row
        /\ \A e \in CaseKeys \ {key} : v.case[e] = w.case[e]
    BY <1>2 DEF Wallets
  <1> HIDE DEF v
  <1>6. \A e \in CaseKeys : /\ v.case[e] = NoCase <=> w.case[e] = NoCase
                            /\ v.case[e].amount = w.case[e].amount
    <2> TAKE e \in CaseKeys
    <2>1. CASE e = key
      BY <1>3, <1>4, <1>5, <2>1
    <2>2. CASE e # key
      BY <1>5, <2>2
    <2> QED BY <2>1, <2>2
  <1>7. available(v) = available(w)
    BY <1>5, AvailableSame
  <1>8. ASSUME NEW i \in Items PROVE ItemSound(v, i)
    <2>1. ItemSound(w, i)
      BY <1>2 DEF MoneySound
    <2>2. /\ v.case[<<"decision", i>>] = NoCase <=> w.case[<<"decision", i>>] = NoCase
          /\ v.case[<<"decision", i>>].amount = w.case[<<"decision", i>>].amount
          /\ v.case[<<"fraud", i>>] = NoCase <=> w.case[<<"fraud", i>>] = NoCase
      BY <1>6, ItemKeys
    <2>3. Committed(v, i) = Committed(w, i)
      BY <1>5 DEF Committed
    <2>4. ItemStands(v.item[i], v.effect[<<"earn", i>>], v.effect[<<"decision", i>>], v.case[<<"decision", i>>])
      BY <1>5, <2>1, <2>2 DEF ItemSound, ItemStands
    <2>5. ItemPaid(v.item[i], Committed(v, i), v.case[<<"decision", i>>])
      BY <1>5, <2>1, <2>2, <2>3 DEF ItemSound, ItemPaid
    <2>6. ItemHeld(v.item[i], v.effect[<<"earn", i>>], v.case[<<"fraud", i>>])
      BY <1>5, <2>1, <2>2 DEF ItemSound, ItemHeld
    <2> QED BY <2>4, <2>5, <2>6 DEF ItemSound
  <1>9. MoneySound(v)
    BY <1>2, <1>5, <1>7, <1>8 DEF MoneySound, AtRest
  <1>10. MoneyStays(w, v, account[who[t]] = "ENABLED")
    BY <1>5, RowEvolvesSame DEF MoneyStays
  <1> QED BY <1>1, <1>2, <1>5, <1>9, <1>10, MoneyCommit DEF w

\* Held-back money is a sum of earnings: when it is nothing, none is held back.
LEMMA NothingPending ==
    ASSUME NEW w \in Wallets, \A i \in Items : ItemSound(w, i)
    PROVE  /\ pending(w) \in Nat
           /\ pending(w) = 0 => \A e \in EffectKeys : w.effect[e].status # "PENDING"
  <1> DEFINE f == [e \in EffectKeys |-> IF w.effect[e].status = "PENDING" THEN w.effect[e].amount ELSE 0]
  <1>1. ASSUME NEW e \in EffectKeys, w.effect[e].status = "PENDING"
        PROVE  w.effect[e].amount \in Nat \ {0}
    <2>1. PICK i \in Items : e = <<"earn", i>> \/ e = <<"decision", i>>
      BY DEF EffectKeys
    <2>2. e = <<"earn", i>> /\ Earning(w.effect[e])
      BY <1>1, <2>1 DEF ItemSound, ItemStands
    <2>3. w.effect[e] \in LedgerRow /\ w.effect[e] # NoRow
      BY <1>1 DEF Wallets, NoRow
    <2> QED BY <2>2, <2>3 DEF Earning, LedgerRow
  <1>2. \A e \in EffectKeys : f[e] \in Nat /\ (w.effect[e].status = "PENDING" => f[e] # 0)
    BY <1>1
  <1>3. pending(w) = SumFunctionOnSet(f, EffectKeys)
    BY DEF pending, SumFunction
  <1> HIDE DEF f
  <1>4. pending(w) \in Nat
    BY <1>2, <1>3, KeysFinite, SumNat
  <1>5. ASSUME pending(w) = 0, NEW e \in EffectKeys PROVE w.effect[e].status # "PENDING"
    <2>1. SumFunctionOnSet(f, EffectKeys) = f[e] + SumFunctionOnSet(f, EffectKeys \ {e})
      BY <1>2, KeysFinite, SumRemove
    <2>2. SumFunctionOnSet(f, EffectKeys \ {e}) \in Nat
      BY <1>2, KeysFinite, FS_Subset, SumNat
    <2>3. f[e] \in Nat /\ SumFunctionOnSet(f, EffectKeys) = 0
      BY <1>2, <1>3, <1>5
    <2>4. f[e] = 0
      BY <2>1, <2>2, <2>3
    <2> QED BY <1>2, <2>4
  <1> QED BY <1>4, <1>5

\* The erasure finds nothing owed and nothing open, and leaves it so; what was
\* acknowledged is now a fingerprint.
LEMMA MoneyErase ==
    ASSUME IInv, MoneyInv, NEW t \in Txns, anonymizeAccount(t)
    PROVE  MoneyInv' /\ Stays
  <1> DEFINE u == who[t]
             w == db[u]
             v == ErasedWallet(w)
  <1>1. /\ pc[t] = "read" /\ Release(t) /\ acked' = acked /\ account' = [account EXCEPT ![u] = "DISABLED"]
        /\ db' = [db EXCEPT ![u] = v] /\ ObligationsSettled(snap[t]) /\ NotShared(u)
    BY DEF anonymizeAccount, Committing
  <1>2. /\ u \in Users /\ snap[t] = w /\ w \in Wallets /\ MoneySound(w)
        /\ \A k \in Keys : Acknowledged(acked[u][k], w.red[k])
    BY <1>1, MoneyRead DEF WalletSound
  <1>3. db'[u] = v /\ \A x \in Users \ {u} : db'[x] = db[x]
    BY <1>1, <1>2 DEF IInv, TypeOK
  <1>4. w = db[u]
    OBVIOUS
  <1> HIDE DEF w
  <1>5. /\ v.item = w.item /\ v.effect = w.effect /\ v.case = w.case /\ v.reserve = w.reserve
        /\ \A k \in Keys : v.red[k] = ErasedRedemption(w.red[k])
    BY <1>2 DEF Wallets, ErasedWallet
  <1> HIDE DEF v
  <1>6. \A k \in Keys : w.red[k] \in Redemption
    BY <1>2 DEF Wallets
  <1>7. ASSUME NEW r \in Redemption
        PROVE  /\ ErasedRedemption(r).status = r.status
               /\ r = NoRedemption => ErasedRedemption(r) = NoRedemption
               /\ r # NoRedemption => ErasedRedemption(r).ref = IF r.ref = NoRef THEN NoRef ELSE ErasedRef
    BY DEF ErasedRedemption, Redemption
  <1>8. available(v) = available(w)
    BY <1>5, AvailableSame
  <1>9. AtRest(v)
    <2>1. available(w) = 0
      BY <1>1, <1>2, AvailableInt DEF ObligationsSettled, MoneySound
    <2>2. \A e \in EffectKeys : w.effect[e].status # "PENDING"
      BY <1>1, <1>2, NothingPending DEF ObligationsSettled, MoneySound
    <2>3. \A k \in Keys : w.red[k].status \in TERMINAL_STATUSES \cup {"NONE"}
      BY <1>1, <1>2 DEF ObligationsSettled
    <2> QED BY <1>5, <1>6, <1>7, <1>8, <2>1, <2>2, <2>3 DEF AtRest
  <1>10. \A i \in Items : ItemSound(v, i)
    BY <1>2, <1>5 DEF MoneySound, ItemSound, Committed
  <1>11. MoneySound(v)
    BY <1>2, <1>8, <1>9, <1>10 DEF MoneySound
  <1>12. ASSUME NEW k \in Keys PROVE Acknowledged(acked'[u][k], v.red[k])
    <2> DEFINE r == w.red[k]
    <2> SUFFICES ASSUME acked[u][k] # {}
                 PROVE  v.red[k].status = "SUCCESS" /\ \E ref \in Refs : acked[u][k] = {ref} /\ v.red[k].ref \in {ref, ErasedRef}
      BY <1>1 DEF Acknowledged
    <2>1. r.status = "SUCCESS" /\ \E ref \in Refs : acked[u][k] = {ref} /\ r.ref \in {ref, ErasedRef}
      BY <1>2 DEF Acknowledged
    <2>2. r \in Redemption /\ v.red[k] = ErasedRedemption(r)
      BY <1>5, <1>6
    <2> HIDE DEF r
    <2>3. r # NoRedemption /\ r.ref # NoRef
      BY <2>1, WalletConstants DEF NoRedemption
    <2>4. v.red[k].status = "SUCCESS" /\ v.red[k].ref = ErasedRef
      BY <1>7, <2>1, <2>2, <2>3
    <2> QED BY <2>1, <2>4
  <1>13. RefsInv'
    BY <1>1, <1>3, <1>12 DEF MoneyInv, RefsInv
  <1>14. ShareInv'
    <2>1. account'[u] = "DISABLED" /\ \A x \in Users \ {u} : account'[x] = account[x]
      BY <1>1, <1>2 DEF IInv, TypeOK
    <2>2. \A x \in Users : db'[x].erased => account'[x] = "DISABLED"
      BY <1>3, <2>1 DEF MoneyInv, ShareInv
    <2>3. ASSUME NEW s \in Txns, share'[s] # "NONE" PROVE pc'[s] = "read" /\ account'[who'[s]] = share'[s]
      <3>1. share[s] # "NONE" /\ share'[s] = share[s] /\ pc'[s] = "read" /\ who'[s] = who[s] /\ who[s] \in Users
        BY <1>1, <2>3, ReleaseShare
      <3>2. who[s] # u
        BY <1>1, <3>1 DEF NotShared
      <3> QED BY <2>1, <3>1, <3>2 DEF MoneyInv, ShareInv
    <2> QED BY <2>2, <2>3 DEF ShareInv
  <1>15. MoneyStays(w, v, account[u] = "ENABLED")
    BY <1>5, <1>6, <1>7, RowEvolvesSame DEF MoneyStays
  <1>16. Stays
    <2> SUFFICES ASSUME NEW x \in Users PROVE MoneyStays(db[x], db'[x], account[x] = "ENABLED")
      BY DEF Stays
    <2>1. CASE x = u
      BY <1>3, <1>4, <1>15, <2>1
    <2>2. CASE x # u
      BY <1>3, <2>2, RowEvolvesSame DEF MoneyStays
    <2> QED BY <2>1, <2>2
  <1>17. \A x \in Users : MoneySound(db'[x])
    BY <1>3, <1>11 DEF MoneyInv
  <1> QED BY <1>13, <1>14, <1>16, <1>17 DEF MoneyInv

\* Taking and reading the User row, and the owner's switch of the payout
\* account, which waits for those who hold it FOR SHARE.
LEMMA MoneyLock ==
    ASSUME IInv, MoneyInv, NEW t \in Txns, NEW u \in Users, LockUser(t, u)
    PROVE  MoneyInv' /\ Stays
  <1>1. /\ db' = db /\ account' = account /\ share' = share /\ acked' = acked /\ pc[t] = "idle"
        /\ \A s \in Txns \ {t} : pc'[s] = pc[s] /\ who'[s] = who[s]
    BY DEF LockUser, IInv, TypeOK
  <1>2. share[t] = "NONE"
    BY <1>1 DEF MoneyInv, ShareInv
  <1>3. ShareInv'
    BY <1>1, <1>2 DEF MoneyInv, ShareInv
  <1>4. RefsInv' /\ \A x \in Users : MoneySound(db'[x])
    BY <1>1 DEF MoneyInv, RefsInv
  <1> QED BY <1>1, <1>3, <1>4, StaysQuietly DEF MoneyInv

\* A read moves no money.
LEMMA MoneyReads ==
    ASSUME IInv, MoneyInv, NEW t \in Txns, NEW sharing \in BOOLEAN, Read(t, sharing)
    PROVE  MoneyInv' /\ Stays
  <1>1. /\ db' = db /\ account' = account /\ who' = who /\ acked' = acked /\ pc'[t] = "read"
        /\ share'[t] \in {"NONE", account[who[t]]}
        /\ \A s \in Txns \ {t} : pc'[s] = pc[s] /\ share'[s] = share[s]
    BY DEF Read, IInv, TypeOK
  <1>2. ShareInv'
    BY <1>1 DEF MoneyInv, ShareInv
  <1>3. RefsInv' /\ \A x \in Users : MoneySound(db'[x])
    BY <1>1 DEF MoneyInv, RefsInv
  <1> QED BY <1>1, <1>2, <1>3, StaysQuietly DEF MoneyInv

\* Enabling or disabling the account moves no money.
LEMMA MoneyAccount ==
    ASSUME IInv, MoneyInv, NEW u \in Users, NEW status \in {"ENABLED", "DISABLED"}, setAccountStatus(u, status)
    PROVE  MoneyInv' /\ Stays
  <1>1. /\ db' = db /\ share' = share /\ who' = who /\ pc' = pc /\ acked' = acked
        /\ ~db[u].erased /\ NotShared(u)
        /\ \A x \in Users \ {u} : account'[x] = account[x]
    BY DEF setAccountStatus, IInv, TypeOK
  <1>2. ASSUME NEW s \in Txns, share[s] # "NONE" PROVE pc[s] = "read" /\ account'[who[s]] = share[s]
    <2>1. pc[s] = "read" /\ account[who[s]] = share[s] /\ who[s] \in Users
      BY <1>2 DEF MoneyInv, ShareInv, IInv, LockInv
    <2>2. who[s] # u
      BY <1>1, <1>2 DEF NotShared
    <2> QED BY <1>1, <2>1, <2>2
  <1>3. \A x \in Users : db[x].erased => account'[x] = "DISABLED"
    BY <1>1 DEF MoneyInv, ShareInv
  <1>4. ShareInv'
    BY <1>1, <1>2, <1>3 DEF ShareInv
  <1>5. RefsInv' /\ \A x \in Users : MoneySound(db'[x])
    BY <1>1 DEF MoneyInv, RefsInv
  <1> QED BY <1>1, <1>4, <1>5, StaysQuietly DEF MoneyInv

\* Nothing has been earned, requested or answered yet.
LEMMA MoneyInitially == Init => MoneyInv
  <1> SUFFICES ASSUME Init PROVE MoneyInv
    OBVIOUS
  <1>1. ASSUME NEW u \in Users PROVE MoneySound(db[u])
    <2> DEFINE w == db[u]
    <2>1. PICK it \in [Items -> {NewItem("PENDING"), NewItem("REVIEW")}] : w = BlankWallet(it)
      BY DEF Init, NewWallets
    <2>2. w \in Wallets
      BY InitInv DEF IInv, TypeOK
    <2>3. /\ \A i \in Items : w.item[i] \in {NewItem("PENDING"), NewItem("REVIEW")}
          /\ \A e \in EffectKeys : w.effect[e] = NoRow
          /\ \A e \in CaseKeys : w.case[e] = NoCase
          /\ \A k \in Keys : w.reserve[k] = NoRow
          /\ w.erased = FALSE
      BY <2>1 DEF BlankWallet
    <2> HIDE DEF w
    <2>4. Counted(NoRow) = 0
      BY DEF Counted, NoRow, Spendable
    <2>5. ReserveSum(w) = 0
      <3> DEFINE f == [k \in Keys |-> Counted(w.reserve[k])]
      <3>1. \A k \in Keys : f[k] = 0
        BY <2>3, <2>4
      <3>2. ReserveSum(w) = SumFunctionOnSet(f, Keys)
        BY DEF ReserveSum
      <3> HIDE DEF f
      <3> QED BY <3>1, <3>2, WalletConstants, SumZero
    <2>6. EffectSum(w) = 0
      <3> DEFINE f == [e \in EffectKeys |-> Counted(w.effect[e])]
      <3>1. \A e \in EffectKeys : f[e] = 0
        BY <2>3, <2>4
      <3>2. EffectSum(w) = SumFunctionOnSet(f, EffectKeys)
        BY DEF EffectSum
      <3> HIDE DEF f
      <3> QED BY <3>1, <3>2, KeysFinite, SumZero
    <2>7. available(w) >= 0
      BY <2>5, <2>6, AvailableSums
    <2>8. ASSUME NEW i \in Items PROVE ItemSound(w, i)
      <3>1. /\ w.effect[<<"earn", i>>] = NoRow /\ w.effect[<<"decision", i>>] = NoRow
            /\ w.case[<<"decision", i>>] = NoCase
        BY <2>3, ItemKeys
      <3>2. /\ ~w.item[i].accepted /\ ~w.item[i].final /\ w.item[i].reward = 0
            /\ w.item[i].status \in {"PENDING", "REVIEW"}
        BY <2>3 DEF NewItem
      <3> QED BY <3>1, <3>2 DEF ItemSound, ItemStands, ItemPaid, ItemHeld, Earning, NoRow
    <2>9. MoneySound(w)
      BY <2>3, <2>7, <2>8 DEF MoneySound
    <2> QED BY <2>9 DEF w
  <1>2. ShareInv
    <2>1. \A u \in Users : ~db[u].erased
      BY DEF Init, NewWallets, BlankWallet
    <2> QED BY <2>1 DEF Init, ShareInv
  <1>3. RefsInv
    BY DEF Init, RefsInv, Acknowledged
  <1> QED BY <1>1, <1>2, <1>3 DEF MoneyInv

\* Every step keeps the money in order, and its rows where they are.
LEMMA MoneyNext == IInv /\ MoneyInv /\ [Next]_vars => MoneyInv' /\ Stays
  <1> SUFFICES ASSUME IInv, MoneyInv, [Next]_vars PROVE MoneyInv' /\ Stays
    OBVIOUS
  <1>1. ASSUME NEW t \in Txns, NEW u \in Users, LockUser(t, u) PROVE MoneyInv' /\ Stays
    BY <1>1, MoneyLock
  <1>2. ASSUME NEW t \in Txns, NEW sharing \in BOOLEAN, Read(t, sharing) PROVE MoneyInv' /\ Stays
    BY <1>2, MoneyReads
  <1>3. ASSUME NEW t \in Txns, Abort(t) PROVE MoneyInv' /\ Stays
    <2>1. Release(t) /\ db' = db /\ account' = account /\ acked' = acked
      BY <1>3 DEF Abort
    <2>2. RefsInv'
      BY <2>1 DEF MoneyInv, RefsInv
    <2> QED BY <2>1, <2>2, MoneyQuiet
  <1>4. ASSUME NEW t \in Txns, Payouts(t) PROVE MoneyInv' /\ Stays
    <2> PICK k \in Keys :
          \/ \E a \in Amounts : requestRedemption(t, k, a)
          \/ \E act \in RedemptionActions, ref \in Refs \cup {NoRef} :
                 transitionRedemption(t, k, act, ref) \/ replayTransition(t, k, act, ref)
          \/ flagRedemptionForReconciliation(t, k)
          \/ attachRedemptionProof(t, k)
      BY <1>4 DEF Payouts
    <2>1. ASSUME NEW a \in Amounts, requestRedemption(t, k, a) PROVE MoneyInv' /\ Stays
      BY <2>1, MoneyRequest
    <2>2. ASSUME NEW act \in RedemptionActions, NEW ref \in Refs \cup {NoRef},
                 transitionRedemption(t, k, act, ref)
          PROVE  MoneyInv' /\ Stays
      BY <2>2, MoneyTransition
    <2>3. ASSUME NEW act \in RedemptionActions, NEW ref \in Refs \cup {NoRef},
                 replayTransition(t, k, act, ref)
          PROVE  MoneyInv' /\ Stays
      BY <2>3, MoneyReplay
    <2>4. CASE flagRedemptionForReconciliation(t, k) \/ attachRedemptionProof(t, k)
      BY <2>4, MoneyMark
    <2> QED BY <2>1, <2>2, <2>3, <2>4
  <1>5. ASSUME NEW t \in Txns, Deposits(t) PROVE MoneyInv' /\ Stays
    BY <1>5, MoneyDeposits
  <1>6. ASSUME NEW t \in Txns, NEW key \in CaseKeys, resolveRewardCase(t, key) PROVE MoneyInv' /\ Stays
    BY <1>6, MoneyResolve
  <1>7. ASSUME NEW t \in Txns, anonymizeAccount(t) PROVE MoneyInv' /\ Stays
    BY <1>7, MoneyErase
  <1>8. ASSUME NEW u \in Users, NEW status \in {"ENABLED", "DISABLED"}, setAccountStatus(u, status)
        PROVE  MoneyInv' /\ Stays
    BY <1>8, MoneyAccount
  <1>9. CASE UNCHANGED vars
    <2>1. /\ db' = db /\ account' = account /\ pc' = pc
          /\ who' = who /\ share' = share /\ acked' = acked
      BY <1>9 DEF vars
    <2>2. ShareInv' /\ RefsInv' /\ \A x \in Users : MoneySound(db'[x])
      BY <2>1 DEF MoneyInv, ShareInv, RefsInv
    <2> QED BY <2>1, <2>2, StaysQuietly DEF MoneyInv
  <1> QED BY <1>1, <1>2, <1>3, <1>4, <1>5, <1>6, <1>7, <1>8, <1>9 DEF Next

-----------------------------------------------------------------------------
(* Theorems about money.                                                   *)

\* The inductive invariant of the money.
THEOREM MoneyInductive == Spec => [](IInv /\ MoneyInv)
  <1>1. Init => IInv /\ MoneyInv
    BY InitInv, MoneyInitially
  <1>2. (IInv /\ MoneyInv) /\ [Next]_vars => (IInv /\ MoneyInv)'
    BY NextInv, MoneyNext
  <1> QED BY <1>1, <1>2, PTL DEF Spec

\* A finally reviewed item has paid exactly what the reviewer decided, or its
\* decision's case carries the difference (decideDepositReview), for any
\* prices and any order of acceptance, fraud holds, payouts and review.
THEOREM MoneyAlwaysSettled == Spec => []ItemMoneySettled
  <1>1. IInv /\ MoneyInv => ItemMoneySettled
    BY DEF MoneyInv, MoneySound, ItemSound, ItemPaid, ItemMoneySettled
  <1> QED BY <1>1, MoneyInductive, PTL

\* The earning of an item under review is held, or a fraud case stands for it
\* (holdItemForFraud), for any prices and payouts in between.
THEOREM FraudAlwaysHeldOrCased == Spec => []FraudHeldOrCased
  <1>1. IInv /\ MoneyInv => FraudHeldOrCased
    BY DEF MoneyInv, MoneySound, ItemSound, ItemHeld, FraudHeldOrCased
  <1> QED BY <1>1, MoneyInductive, PTL

\* A payout request is never acknowledged for two bank transfers
\* (assertIdenticalReplay), for any references, replays and erasures.
THEOREM OneReferenceAlways == Spec => []OneTransferReference
  <1>1. ASSUME MoneyInv, NEW u \in Users, NEW k \in Keys
        PROVE  /\ Cardinality(acked[u][k]) <= 1
               /\ acked[u][k] # {} => /\ db[u].red[k].status = "SUCCESS"
                                      /\ db[u].red[k].ref \in acked[u][k] \cup {ErasedRef}
    <2>1. Acknowledged(acked[u][k], db[u].red[k])
      BY <1>1 DEF MoneyInv, RefsInv
    <2>2. CASE acked[u][k] = {}
      <3>1. Cardinality(acked[u][k]) = 0
        BY <2>2, FS_EmptySet
      <3> QED BY <2>2, <3>1
    <2>3. CASE acked[u][k] # {}
      <3>1. PICK ref \in Refs : acked[u][k] = {ref} /\ db[u].red[k].ref \in {ref, ErasedRef}
        BY <2>1, <2>3 DEF Acknowledged
      <3>2. Cardinality(acked[u][k]) = 1
        BY <3>1, FS_Singleton
      <3> QED BY <2>1, <2>3, <3>1, <3>2 DEF Acknowledged
    <2> QED BY <2>2, <2>3
  <1>2. IInv /\ MoneyInv => OneTransferReference
    BY <1>1 DEF OneTransferReference
  <1> QED BY <1>2, MoneyInductive, PTL

\* Ledger rows are append-only, and a new payout request leaves what the open
\* cases claim (requestRedemption), for any interleaving of the writers and of
\* the owner's switch of the payout account.
THEOREM MoneyAlwaysStaysPut == Spec => HeldMoneyStaysPut
  <1>1. Stays => \A u \in Users :
                   /\ \A e \in EffectKeys : RowEvolves(db[u].effect[e], db'[u].effect[e])
                   /\ \A k \in Keys :
                       /\ RowEvolves(db[u].reserve[k], db'[u].reserve[k])
                       /\ db[u].red[k] = NoRedemption /\ db'[u].red[k] # NoRedemption
                            => available(db'[u]) >= held(db'[u]) /\ account[u] = "ENABLED"
    BY DEF Stays, MoneyStays
  <1>2. IInv /\ MoneyInv /\ [Next]_vars => Stays
    BY MoneyNext
  <1> QED BY <1>1, <1>2, MoneyInductive, PTL DEF Spec, HeldMoneyStaysPut

-----------------------------------------------------------------------------
(* The reports read from any committed state.                              *)

\* A request is for an amount.
LEMMA RequestAmount ==
    ASSUME NEW r \in Redemption, r # NoRedemption
    PROVE  r.amount \in Int
  <1>1. r.amount \in Amounts
    BY DEF Redemption
  <1>2. r.amount \in Nat
    BY <1>1, WalletConstants
  <1> QED BY <1>2

\* What the ledger and the request say of a payout is the same.
LEMMA RequestsAgree ==
    ASSUME IInv, NEW u \in Users, NEW k \in Keys
    PROVE  LET q == <<u, k>> IN
           /\ LedgerPaid(ReserveOf(q)) = SaidPaid(q) /\ LedgerHeld(ReserveOf(q)) = SaidHeld(q)
           /\ SaidPaid(q) \in Int /\ SaidHeld(q) \in Int
           /\ RequestOf(q) = NoRedemption => ReserveOf(q) = NoRow
           /\ RequestOf(q) # NoRedemption => ReserveOf(q).amount = -RequestOf(q).amount
           /\ RequestOf(q) # NoRedemption => ReserveOf(q).status = expectedReserveStatus(RequestOf(q).status)
  <1> DEFINE q == <<u, k>>
             r == db[u].red[k]
             row == db[u].reserve[k]
  <1>1. r \in Redemption /\ ReserveMatches(r, row)
    BY DEF IInv, WalletSound, Wallets, PayoutSound
  <1>2. RequestOf(q) = r /\ ReserveOf(q) = row
    BY DEF RequestOf, ReserveOf
  <1> HIDE DEF r, row
  <1>3. CASE r = NoRedemption
    <2>1. row = NoRow
      BY <1>1, <1>3 DEF ReserveMatches
    <2>2. r.status \notin RedemptionStatus
      BY <1>3 DEF NoRedemption, RedemptionStatus
    <2>3. SaidPaid(q) = 0 /\ SaidHeld(q) = 0
      BY <1>2, <2>2 DEF SaidPaid, SaidHeld, PAID_STATUSES, IN_FLIGHT_STATUSES
    <2>4. LedgerPaid(row) = 0 /\ LedgerHeld(row) = 0
      BY <2>1 DEF LedgerPaid, LedgerHeld, NoRow
    <2> QED BY <1>2, <1>3, <2>1, <2>3, <2>4
  <1>4. CASE r # NoRedemption
    <2>1. row = [type |-> "REDEEM", amount |-> -r.amount, status |-> expectedReserveStatus(r.status)]
      BY <1>1, <1>4 DEF ReserveMatches
    <2>2. r.amount \in Nat /\ r.status \in RedemptionStatus
      BY <1>1, <1>4, WalletConstants DEF Redemption
    <2>3. /\ SaidPaid(q) = IF expectedReserveStatus(r.status) = "REDEEMED" THEN r.amount ELSE 0
          /\ SaidHeld(q) = IF expectedReserveStatus(r.status) = "PENDING" THEN r.amount ELSE 0
      BY <1>2, <2>2 DEF SaidPaid, SaidHeld, PAID_STATUSES, IN_FLIGHT_STATUSES
    <2>4. /\ LedgerPaid(row) = IF expectedReserveStatus(r.status) = "REDEEMED" THEN r.amount ELSE 0
          /\ LedgerHeld(row) = IF expectedReserveStatus(r.status) = "PENDING" THEN r.amount ELSE 0
      BY <2>1, <2>2 DEF LedgerPaid, LedgerHeld
    <2> QED BY <1>2, <1>4, <2>1, <2>2, <2>3, <2>4
  <1> QED BY <1>3, <1>4

\* A user's own totals, and the totals of the requests, are the same sums.
LEMMA TotalsAgree ==
    ASSUME IInv
    PROVE  /\ summarizeLiabilities.paidTotal = InStatus(PAID_STATUSES)
           /\ summarizeLiabilities.reservedLiability = InStatus(IN_FLIGHT_STATUSES)
  <1> DEFINE paid == [q \in Users \X Keys |-> SaidPaid(q)]
             paidRows == [u \in Users |-> [k \in Keys |-> LedgerPaid(db[u].reserve[k])]]
             paidBy == [u \in Users |-> SumFunctionOnSet(paidRows[u], Keys)]
             kept == [q \in Users \X Keys |-> SaidHeld(q)]
             keptRows == [u \in Users |-> [k \in Keys |-> LedgerHeld(db[u].reserve[k])]]
             keptBy == [u \in Users |-> SumFunctionOnSet(keptRows[u], Keys)]
  <1>1. IsFiniteSet(Users) /\ IsFiniteSet(Keys)
    BY WalletConstants
  <1>2. summarizeLiabilities.paidTotal = SumFunctionOnSet(paidBy, Users)
    <2>1. \A u \in Users : readUserBalances(u).redeemed = SumFunctionOnSet(paidRows[u], Keys)
      BY DEF readUserBalances, Total, SumFunction
    <2>2. [x \in Users |-> readUserBalances(x).redeemed] = paidBy
      BY <2>1
    <2>3. summarizeLiabilities.paidTotal = SumFunction([x \in Users |-> readUserBalances(x).redeemed])
      BY DEF summarizeLiabilities, Total
    <2>4. SumFunction(paidBy) = SumFunctionOnSet(paidBy, Users)
      BY DEF SumFunction
    <2> QED BY <2>2, <2>3, <2>4
  <1>3. summarizeLiabilities.reservedLiability = SumFunctionOnSet(keptBy, Users)
    <2>1. \A u \in Users : readUserBalances(u).reserved = SumFunctionOnSet(keptRows[u], Keys)
      BY DEF readUserBalances, Total, SumFunction
    <2>2. [x \in Users |-> readUserBalances(x).reserved] = keptBy
      BY <2>1
    <2>3. summarizeLiabilities.reservedLiability = SumFunction([x \in Users |-> readUserBalances(x).reserved])
      BY DEF summarizeLiabilities, Total
    <2>4. SumFunction(keptBy) = SumFunctionOnSet(keptBy, Users)
      BY DEF SumFunction
    <2> QED BY <2>2, <2>3, <2>4
  <1>4. /\ InStatus(PAID_STATUSES) = SumFunctionOnSet(paid, Users \X Keys)
        /\ InStatus(IN_FLIGHT_STATUSES) = SumFunctionOnSet(kept, Users \X Keys)
    BY DEF InStatus, Total, SumFunction, Requests, SaidPaid, SaidHeld
  <1>5. \A u \in Users, k \in Keys : paidRows[u][k] = paid[<<u, k>>] /\ keptRows[u][k] = kept[<<u, k>>]
    BY RequestsAgree DEF ReserveOf
  <1>6. \A q \in Users \X Keys : paid[q] \in Int /\ kept[q] \in Int
    BY RequestsAgree
  <1>7. /\ \A u \in Users : paidBy[u] = SumFunctionOnSet(paidRows[u], Keys)
        /\ \A u \in Users : keptBy[u] = SumFunctionOnSet(keptRows[u], Keys)
    OBVIOUS
  <1> HIDE DEF paid, paidRows, paidBy, kept, keptRows, keptBy
  <1>8. SumFunctionOnSet(paid, Users \X Keys) = SumFunctionOnSet(paidBy, Users)
    BY <1>1, <1>5, <1>6, <1>7, SumTable
  <1>9. SumFunctionOnSet(kept, Users \X Keys) = SumFunctionOnSet(keptBy, Users)
    BY <1>1, <1>5, <1>6, <1>7, SumTable
  <1> QED BY <1>2, <1>3, <1>4, <1>8, <1>9

\* An erased account has nothing left to list.
LEMMA ErasedAtRest ==
    ASSUME IInv, MoneyInv, NEW u \in Users, db[u].erased
    PROVE  LET b == readUserBalances(u) IN b.available = 0 /\ b.pending = 0 /\ b.reserved = 0
  <1> DEFINE w == db[u]
             f == [e \in EffectKeys |-> IF w.effect[e].status = "PENDING" THEN w.effect[e].amount ELSE 0]
             g == [k \in Keys |-> LedgerHeld(w.reserve[k])]
  <1>1. AtRest(w)
    BY DEF MoneyInv, MoneySound
  <1>2. \A e \in EffectKeys : f[e] = 0
    BY <1>1 DEF AtRest
  <1>3. \A k \in Keys : g[k] = 0
    <2> TAKE k \in Keys
    <2>1. /\ LedgerHeld(ReserveOf(<<u, k>>)) = SaidHeld(<<u, k>>)
          /\ RequestOf(<<u, k>>) = w.red[k] /\ ReserveOf(<<u, k>>) = w.reserve[k]
      BY RequestsAgree DEF RequestOf, ReserveOf
    <2>2. w.red[k].status \notin IN_FLIGHT_STATUSES
      BY <1>1 DEF AtRest, IN_FLIGHT_STATUSES, expectedReserveStatus, TERMINAL_STATUSES, RedemptionStatus
    <2> QED BY <2>1, <2>2 DEF SaidHeld
  <1>4. /\ pending(w) = SumFunctionOnSet(f, EffectKeys)
        /\ readUserBalances(u).reserved = SumFunctionOnSet(g, Keys)
        /\ readUserBalances(u).pending = pending(w) /\ readUserBalances(u).available = available(w)
    BY DEF pending, SumFunction, readUserBalances, Total
  <1> HIDE DEF f, g
  <1>5. SumFunctionOnSet(f, EffectKeys) = 0 /\ SumFunctionOnSet(g, Keys) = 0
    BY <1>2, <1>3, KeysFinite, WalletConstants, SumZero
  <1> QED BY <1>1, <1>4, <1>5 DEF AtRest

\* A rejected item without a decision's case has no money.
LEMMA RejectedEmpty ==
    ASSUME IInv, MoneyInv, NEW u \in Users, NEW i \in Items, db[u].item[i].status = "REJECTED",
           db[u].case[<<"decision", i>>] = NoCase
    PROVE  ItemNet(u, i) = 0 /\ ItemPending(u, i) = 0
  <1> DEFINE w == db[u]
             earn == w.effect[<<"earn", i>>]
             decided == w.effect[<<"decision", i>>]
             f == [n \in {"earn", "decision"} |->
                     IF w.effect[<<n, i>>].status = "PENDING" THEN w.effect[<<n, i>>].amount ELSE 0]
  <1>1. ItemSound(w, i) /\ WalletSound(w)
    BY DEF MoneyInv, MoneySound, IInv
  <1>2. w.item[i].reward = 0 /\ earn.status # "PENDING" /\ decided.status # "PENDING"
    BY <1>1 DEF ItemSound, ItemStands, NoRow
  <1>3. Committed(w, i) = 0
    <2>1. CASE w.item[i].final
      <3>1. Committed(w, i) \in Int
        BY <1>1, CommittedInt
      <3>2. 0 - Committed(w, i) = 0
        BY <1>1, <1>2, <2>1 DEF ItemSound, ItemPaid
      <3> QED BY <3>1, <3>2
    <2>2. CASE ~w.item[i].final
      <3>1. earn = NoRow /\ decided = NoRow
        BY <1>1, <2>2 DEF ItemSound, ItemStands
      <3> QED BY <3>1 DEF Committed, Counted, NoRow, Spendable
    <2> QED BY <2>1, <2>2
  <1>4. \A n \in {"earn", "decision"} : f[n] = 0
    BY <1>2
  <1>5. ItemPending(u, i) = SumFunctionOnSet(f, {"earn", "decision"})
    BY DEF ItemPending, Total, SumFunction
  <1>6. IsFiniteSet({"earn", "decision"})
    <2>1. {"earn", "decision"} = {"earn"} \cup {"decision"}
      OBVIOUS
    <2>2. IsFiniteSet({"earn"} \cup {"decision"})
      BY FS_Singleton, FS_Union
    <2> QED BY <2>1, <2>2
  <1> HIDE DEF f
  <1>7. SumFunctionOnSet(f, {"earn", "decision"}) = 0
    BY <1>4, <1>6, SumZero
  <1> QED BY <1>3, <1>5, <1>7 DEF ItemNet

\* The report and the inventory raise no alarm (buildReconciliationReport,
\* reconcile-wallet-history), for any users, requests, items and prices, read
\* in any state of the wallet transactions.
THEOREM ReportAlwaysClean == Spec => []ReportClean
  <1>1. ASSUME IInv, MoneyInv PROVE ReportClean
    <2> DEFINE mismatches == findMismatchedRequests \cup {q \in findReservesWithoutRequest : orphanMismatch(q)}
               r == buildReconciliationReport
    <2>1. findMismatchedRequests = {}
      <3>1. ASSUME NEW u \in Users, NEW k \in Keys
            PROVE  PaidDifference(<<u, k>>) = 0 /\ ReservedDifference(<<u, k>>) = 0
        BY <1>1, RequestsAgree DEF PaidDifference, ReservedDifference
      <3> QED BY <3>1 DEF findMismatchedRequests, Requests
    <2>2. findReservesWithoutRequest = {}
      <3>1. ASSUME NEW u \in Users, NEW k \in Keys, ReserveOf(<<u, k>>).type = "REDEEM"
            PROVE  RequestOf(<<u, k>>) # NoRedemption /\ -ReserveOf(<<u, k>>).amount = RequestOf(<<u, k>>).amount
        <4>1. RequestOf(<<u, k>>) # NoRedemption
          BY <1>1, <3>1, RequestsAgree DEF NoRow
        <4>2. ReserveOf(<<u, k>>).amount = -RequestOf(<<u, k>>).amount
          BY <1>1, <4>1, RequestsAgree
        <4>3. RequestOf(<<u, k>>).amount \in Int
          <5>1. RequestOf(<<u, k>>) = db[u].red[k] /\ db[u].red[k] \in Redemption
            BY <1>1 DEF RequestOf, IInv, TypeOK, Wallets
          <5> QED BY <4>1, <5>1, RequestAmount
        <4> QED BY <4>1, <4>2, <4>3
      <3> QED BY <3>1 DEF findReservesWithoutRequest, Requests
    <2>3. mismatches = {}
      BY <2>1, <2>2
    <2>4. ~r.hasDiscrepancy /\ r.payoutMismatches = {}
      BY <2>3 DEF buildReconciliationReport
    <2>5. requestsWithoutMatchingReserve = {}
      <3>1. ASSUME NEW u \in Users, NEW k \in Keys,
                   RequestOf(<<u, k>>).status \in {"REQUESTED", "APPROVED", "PROCESSING", "SUCCESS"}
            PROVE  ReserveOf(<<u, k>>).status
                     = IF RequestOf(<<u, k>>).status = "SUCCESS" THEN "REDEEMED" ELSE "PENDING"
        <4>1. RequestOf(<<u, k>>) # NoRedemption
          BY <3>1 DEF NoRedemption
        <4>2. ReserveOf(<<u, k>>).status = expectedReserveStatus(RequestOf(<<u, k>>).status)
          BY <1>1, <4>1, RequestsAgree
        <4> QED BY <3>1, <4>2 DEF expectedReserveStatus
      <3> QED BY <3>1 DEF requestsWithoutMatchingReserve, Requests
    <2>6. r.liability = summarizeLiabilities
      BY DEF buildReconciliationReport
    <2>7. r.liability.overdrawn = {}
      <3>1. ASSUME NEW u \in Users
            PROVE  ~(readUserBalances(u).available < 0) /\ ~(readUserBalances(u).pending < 0)
        <4>1. available(db[u]) \in Int /\ available(db[u]) >= 0 /\ pending(db[u]) \in Nat
          BY <1>1, AvailableInt, NothingPending DEF MoneyInv, MoneySound, IInv, TypeOK
        <4>2. readUserBalances(u).available = available(db[u]) /\ readUserBalances(u).pending = pending(db[u])
          BY DEF readUserBalances
        <4> QED BY <4>1, <4>2
      <3> QED BY <2>6, <3>1 DEF summarizeLiabilities
    <2>8. /\ r.liability.paidTotal = r.redemptionSuccessTotal
          /\ r.liability.reservedLiability = r.redemptionInFlightTotal
      <3>1. /\ r.redemptionSuccessTotal = InStatus(PAID_STATUSES)
            /\ r.redemptionInFlightTotal = InStatus(IN_FLIGHT_STATUSES)
        BY DEF buildReconciliationReport
      <3> QED BY <1>1, <2>6, <3>1, TotalsAgree
    <2>9. acceptedItemsWithoutAcceptance = {}
      <3>1. \A u \in Users, i \in Items : db[u].item[i].status = "ACCEPTED" => db[u].item[i].accepted
        BY <1>1 DEF MoneyInv, MoneySound, ItemSound, ItemStands
      <3> QED BY <3>1 DEF acceptedItemsWithoutAcceptance, ItemsIn
    <2>10. \A x \in rejectedItemsWithMoney : db[x[1]].case[<<"decision", x[2]>>] # NoCase
      <3>1. ASSUME NEW u \in Users, NEW i \in Items, db[u].item[i].status = "REJECTED",
                   ItemNet(u, i) > 0 \/ ItemPending(u, i) # 0
            PROVE  db[u].case[<<"decision", i>>] # NoCase
        BY <1>1, <3>1, RejectedEmpty
      <3> QED BY <3>1 DEF rejectedItemsWithMoney, ItemsIn
    <2> HIDE DEF r
    <2>11. \A u \in Users : db[u].erased => LET b == readUserBalances(u)
                                            IN  b.available = 0 /\ b.pending = 0 /\ b.reserved = 0
      BY <1>1, ErasedAtRest
    <2> QED BY <2>4, <2>5, <2>7, <2>8, <2>9, <2>10, <2>11 DEF ReportClean, r
  <1>2. IInv /\ MoneyInv => ReportClean
    BY <1>1
  <1> QED BY <1>2, MoneyInductive, PTL

\* What a resolved case no longer holds: nothing else changes.
LEMMA ReleaseForecast ==
    ASSUME NEW w \in Wallets, NEW key \in CaseKeys, w.case[key].status = "OPEN",
           NEW v \in Wallets, v = [w EXCEPT !.case[key].status = "RESOLVED"]
    PROVE  Withdrawable(v) - Withdrawable(w) = releasedByResolving(w, key)
  <1>1. v.effect = w.effect /\ v.reserve = w.reserve
    BY DEF Wallets
  <1>2. available(v) = available(w) /\ available(w) \in Int /\ held(v) \in Nat /\ held(w) \in Nat
    BY <1>1, AvailableSame, AvailableInt, HeldNat
  <1>3. CASE IsOpenDebit(w.case[key])
    <2>1. releasedByResolving(w, key)
            = Least(Owed(available(w)), held(w)) - Least(Owed(available(w)), held(v))
      BY <1>3 DEF releasedByResolving
    <2> DEFINE a == available(w)
               h == held(w)
               g == held(v)
    <2> HIDE DEF a, h, g
    <2>2. \A x \in Int, n \in Nat : Owed(x - n) = Owed(x) - Least(Owed(x), n) /\ Owed(x) \in Int
                                    /\ Least(Owed(x), n) \in Int
      BY DEF Owed, Least
    <2>3. /\ Owed(a - h) = Owed(a) - Least(Owed(a), h) /\ Owed(a - g) = Owed(a) - Least(Owed(a), g)
          /\ Owed(a) \in Int /\ Least(Owed(a), h) \in Int /\ Least(Owed(a), g) \in Int
      BY <1>2, <2>2 DEF a, h, g
    <2>4. Owed(a - g) - Owed(a - h) = Least(Owed(a), h) - Least(Owed(a), g)
      BY <2>3
    <2> QED BY <1>2, <2>1, <2>4 DEF Withdrawable, a, h, g
  <1>4. CASE ~IsOpenDebit(w.case[key])
    <2>1. \A e \in CaseKeys : /\ IsOpenDebit(v.case[e]) <=> IsOpenDebit(w.case[e])
                              /\ IsOpenDebit(w.case[e]) => v.case[e] = w.case[e]
      <3> TAKE e \in CaseKeys
      <3>1. CASE e = key
        <4>1. v.case[e].status = "RESOLVED"
          BY <3>1 DEF Wallets, RewardCase, NoCase
        <4> QED BY <1>4, <3>1, <4>1 DEF IsOpenDebit
      <3>2. CASE e # key
        <4>1. v.case[e] = w.case[e]
          BY <3>2 DEF Wallets
        <4> QED BY <4>1
      <3> QED BY <3>1, <3>2
    <2>2. \A i \in Items : HeldByItem(v, i) = HeldByItem(w, i)
      <3> TAKE i \in Items
      <3> DEFINE keys(x) == {e \in CaseKeys : e[2] = i /\ IsOpenDebit(x.case[e])}
      <3>1. keys(v) = keys(w)
        BY <2>1
      <3> DEFINE open(x) == {x.case[e].amount : e \in keys(x)}
                 largest(S) == IF S = {} THEN 0 ELSE CHOOSE a \in S : \A b \in S : a >= b
      <3>2. open(v) = open(w)
        BY <2>1, <3>1
      <3>3. HeldByItem(v, i) = largest(open(v)) /\ HeldByItem(w, i) = largest(open(w))
        BY DEF HeldByItem
      <3> HIDE DEF open, largest
      <3> QED BY <3>2, <3>3
    <2>3. [i \in Items |-> HeldByItem(v, i)] = [i \in Items |-> HeldByItem(w, i)]
      BY <2>2
    <2>4. held(v) = held(w)
      BY <2>3 DEF held
    <2>5. Withdrawable(v) = Withdrawable(w) /\ Withdrawable(w) \in Int
      BY <1>2, <2>4 DEF Withdrawable, Owed
    <2> QED BY <1>4, <2>5 DEF releasedByResolving
  <1> QED BY <1>3, <1>4

\* Closing a case sets free exactly what releasedByResolving announced, for
\* any balances and any other cases open on the same items.
THEOREM ReleaseAlwaysPredicted == Spec => ReleasePredicted
  <1>1. ASSUME TypeOK, TypeOK', NEW u \in Users, NEW key \in CaseKeys, db[u].case[key].status = "OPEN",
               db' = [db EXCEPT ![u].case[key].status = "RESOLVED"]
        PROVE  Withdrawable(db'[u]) - Withdrawable(db[u]) = releasedByResolving(db[u], key)
    <2>1. db[u] \in Wallets /\ db'[u] \in Wallets
      BY <1>1 DEF TypeOK
    <2>2. db'[u] = [db[u] EXCEPT !.case[key].status = "RESOLVED"]
      BY <1>1 DEF TypeOK
    <2> QED BY <1>1, <2>1, <2>2, ReleaseForecast
  <1>2. TypeOK /\ TypeOK' =>
          \A u \in Users, key \in CaseKeys :
             db[u].case[key].status = "OPEN" /\ db' = [db EXCEPT ![u].case[key].status = "RESOLVED"]
                => Withdrawable(db'[u]) - Withdrawable(db[u]) = releasedByResolving(db[u], key)
    BY <1>1
  <1> QED BY <1>2, TypeCorrect, PTL DEF ReleasePredicted

=============================================================================
