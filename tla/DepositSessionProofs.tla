------------------------ MODULE DepositSessionProofs ------------------------
(***************************************************************************)
(* DepositSession, for any sessions, items, event transactions, timeouts   *)
(* and clock bound: the lease and deadline rules, that no item is left     *)
(* waiting in an ended session, that a late acceptance is held, and that   *)
(* one session runs at a time.                                             *)
(*                                                                         *)
(* None of these is inductive alone: whether an acceptance is late depends *)
(* on the reason the item was reported with, and a lease's bound on what   *)
(* may still happen to the deadline.  The strengthening keeps one          *)
(* condition per session row (RowOK), one per item row against its session *)
(* (ItemOK), and says where a poll or an unlocked transaction points.      *)
(***************************************************************************)
EXTENDS DepositSession, TLAPS, FiniteSetTheorems

\* A session row at clock n.
RowOK(r, n) ==
  /\ r \in SessionRow
  /\ r.lease <= r.timeoutAt
  /\ r.status = "EXPIRED" => r.timeoutAt <= n

\* An item the machine accepted outright, that no reviewer approved.
Paid(r) == r.status = "ACCEPTED" /\ r.reason # "REVIEW_APPROVED"

\* An item reported after its session ended keeps the reason that makes its
\* acceptance late (or unpriceable) until it is decided.
AfterEndOK(r) ==
  r.afterEnd =>
    /\ r.status \in {"REVIEW", "REJECTED", "ACCEPTED"}
    /\ ~Paid(r)
    /\ r.status = "REVIEW" /\ ~r.accepted
         => r.reason \in {"SESSION_CLOSED", "UNKNOWN_WASTE_TYPE"}

Waiting(r) == r.status = "PENDING" /\ ~r.accepted

\* An item row against its session's row q at clock n.
ItemOn(r, q, n) ==
  /\ q.status # "none"
  /\ q.status \in Terminal => ~Waiting(r)
  /\ Paid(r) => r.occurredAt <= n /\ r.occurredAt <= q.timeoutAt
                                 /\ r.occurredAt <= q.completedAt

ItemOK(r, S, n) ==
  /\ r \in ItemRow
  /\ AfterEndOK(r)
  /\ r.session = None => r = NoItem
  /\ r.session \in Sessions => ItemOn(r, S[r.session], n)

RowsOK(S, n) == S \in [Sessions -> SessionRow] /\ \A s \in Sessions : RowOK(S[s], n)

ItemsOK(I, S, n) == I \in [Items -> ItemRow] /\ \A i \in Items : ItemOK(I[i], S, n)

Unique(S) ==
  \A s, t \in Sessions :
    S[s].status \in ActiveStatuses /\ S[t].status \in ActiveStatuses => s = t

DataOK(S, I, n) == RowsOK(S, n) /\ ItemsOK(I, S, n) /\ Unique(S)

PointersOK ==
  /\ poll.phase # "idle" => poll.session \in Sessions
  /\ \A w \in Workers : worker[w] # IdleWorker => worker[w].session \in Sessions

IInv == TypeOK /\ DataOK(session, item, now) /\ PointersOK

-----------------------------------------------------------------------------
(***************************************************************************)
(* How a session row may move without disturbing the items on it           *)
(***************************************************************************)

\* The deadline moves later and the end is stamped with the clock.
Moves(a, b, n) ==
  /\ a.status # "none" => b.status # "none"
  /\ a.status # "none" => b.timeoutAt >= a.timeoutAt
  /\ a.status # "none" => b.completedAt \in {a.completedAt, n}

\* An item that stood on row a stands on row b when a moved to b, unless the
\* move ended the session under an item that waits.
LEMMA ItemFrame ==
  ASSUME NEW n \in Time, NEW r \in ItemRow, NEW a \in SessionRow, NEW b \in SessionRow,
         ItemOn(r, a, n), Moves(a, b, n),
         b.status \in Terminal => a.status \in Terminal \/ ~Waiting(r)
  PROVE  ItemOn(r, b, n)
  BY DEF ItemOn, Moves, SessionRow, ItemRow, Time, Never, Paid

\* Rewriting one session row, with the items as they are.
LEMMA RowWritten ==
  ASSUME NEW n \in Time, NEW S, NEW I, NEW s \in Sessions, NEW b, NEW T,
         DataOK(S, I, n), RowOK(b, n), Moves(S[s], b, n),
         b.status \in Terminal =>
           S[s].status \in Terminal \/ \A i \in Items : I[i].session = s => ~Waiting(I[i]),
         b.status \in ActiveStatuses =>
           \A t \in Sessions \ {s} : S[t].status \notin ActiveStatuses,
         T = [S EXCEPT ![s] = b]
  PROVE  DataOK(T, I, n)
  <1> USE DEF DataOK
  <1>1. RowsOK(T, n)
    BY DEF RowsOK, RowOK
  <1>2. Unique(T)
    BY DEF Unique, RowsOK
  <1>3. ASSUME NEW i \in Items PROVE ItemOK(I[i], T, n)
    <2>1. I[i] \in ItemRow /\ ItemOK(I[i], S, n)
      BY DEF ItemsOK
    <2>2. CASE I[i].session = s
      <3>1. ItemOn(I[i], S[s], n)
        BY <2>1, <2>2 DEF ItemOK
      <3>2. T[s] = b /\ b \in SessionRow /\ S[s] \in SessionRow
        BY DEF RowsOK, RowOK
      <3>3. ItemOn(I[i], b, n)
        BY <2>1, <2>2, <3>1, <3>2, ItemFrame
      <3> QED BY <2>1, <2>2, <3>2, <3>3, NoneAssumption DEF ItemOK
    <2>3. CASE I[i].session # s
      BY <2>1, <2>3 DEF ItemOK, RowsOK
    <2> QED BY <2>2, <2>3
  <1> QED BY <1>1, <1>2, <1>3 DEF ItemsOK

\* Rewriting one item row, with the sessions as they are.
LEMMA ItemWritten ==
  ASSUME NEW n \in Time, NEW S, NEW I, NEW i \in Items, NEW r, NEW J,
         DataOK(S, I, n), ItemOK(r, S, n), J = [I EXCEPT ![i] = r]
  PROVE  DataOK(S, J, n)
  BY DEF DataOK, ItemsOK, ItemOK

\* The timeout policy keeps every row sound.
LEMMA TimeoutPolicy ==
  ASSUME IInv, NEW ids, ids \subseteq Sessions
  PROVE  /\ DataOK(Expired(ids, now), HeldForReview(ids, now), now)
         /\ \A s \in Sessions : Moves(session[s], Expired(ids, now)[s], now)
  <1> DEFINE T == Expired(ids, now)
             J == HeldForReview(ids, now)
             C == Closing(ids, now)
  <1>0. now \in Time /\ RowsOK(session, now) /\ ItemsOK(item, session, now) /\ Unique(session)
    BY DEF IInv, TypeOK, DataOK
  <1>1. ASSUME NEW s \in Sessions
        PROVE  /\ RowOK(T[s], now) /\ Moves(session[s], T[s], now)
               /\ T[s].status \in ActiveStatuses => session[s].status \in ActiveStatuses
               /\ s \notin C => T[s] = session[s]
    <2>1. CASE s \in C
      <3>1. T[s] = [session[s] EXCEPT !.status = "EXPIRED", !.completedAt = now]
        BY <2>1 DEF Expired
      <3>2. session[s].status \in ActiveStatuses /\ session[s].timeoutAt <= now
        BY <2>1 DEF Closing, isActiveSession
      <3>3. RowOK(session[s], now)
        BY <1>0 DEF RowsOK
      <3>4. /\ T[s].status = "EXPIRED" /\ T[s].completedAt = now
            /\ T[s].timeoutAt = session[s].timeoutAt /\ T[s].lease = session[s].lease
            /\ T[s] \in SessionRow
        BY <1>0, <3>1, <3>3 DEF RowOK, SessionRow, Terminal
      <3> HIDE DEF T
      <3>5. RowOK(T[s], now)
        BY <3>2, <3>3, <3>4 DEF RowOK
      <3>6. Moves(session[s], T[s], now)
        BY <3>3, <3>4, TimingAssumption DEF RowOK, Moves, SessionRow, Time
      <3> QED BY <2>1, <3>2, <3>4, <3>5, <3>6
    <2>2. CASE s \notin C
      BY <1>0, <2>2 DEF Expired, RowsOK, Moves, RowOK, SessionRow, Time, Never
    <2> QED BY <2>1, <2>2
  <1>2. RowsOK(T, now)
    BY <1>1 DEF RowsOK, RowOK, Expired
  <1>3. Unique(T)
    BY <1>0, <1>1 DEF Unique
  <1>4. ASSUME NEW i \in Items
        PROVE  J[i] \in ItemRow /\ ItemOK(J[i], T, now)
    <2>0. item[i] \in ItemRow /\ ItemOK(item[i], session, now)
      BY <1>0 DEF ItemsOK
    <2>1. CASE i \in ItemsOf(C)
      <3>1. J[i] = [item[i] EXCEPT !.status = "REVIEW",
                       !.reason = IF @ = "none" THEN "SESSION_TIMEOUT" ELSE @]
        BY <2>1 DEF HeldForReview
      <3>2. PICK s \in C : i \in undecidedItems(s)
        BY <2>1 DEF ItemsOf
      <3>3. item[i].session = s /\ item[i].status = "PENDING" /\ ~item[i].accepted
        BY <3>2 DEF undecidedItems
      <3>4. s \in Sessions
        BY <3>2 DEF Closing
      <3>5. ~item[i].afterEnd
        BY <2>0, <3>3 DEF ItemOK, AfterEndOK
      <3>6. J[i] \in ItemRow /\ J[i].session = s /\ J[i].status = "REVIEW" /\ ~J[i].afterEnd
        BY <2>0, <3>1, <3>3, <3>5 DEF ItemRow, ItemStatuses, Reasons
      <3>7. session[s].status # "none"
        BY <2>0, <3>3, <3>4 DEF ItemOK, ItemOn
      <3>8. T[s].status # "none"
        BY <1>1, <3>4, <3>7 DEF Moves
      <3>9. ItemOn(J[i], T[s], now)
        BY <3>6, <3>8 DEF ItemOn, Waiting, Paid
      <3> QED BY <3>4, <3>6, <3>9, NoneAssumption DEF ItemOK, AfterEndOK
    <2>2. CASE i \notin ItemsOf(C)
      <3>1. J[i] = item[i]
        BY <2>2 DEF HeldForReview
      <3>2. ASSUME item[i].session \in Sessions
            PROVE  ItemOn(item[i], T[item[i].session], now)
        <4> DEFINE s == item[i].session
        <4>1. ItemOn(item[i], session[s], now)
          BY <2>0, <3>2 DEF ItemOK
        <4>2. s \in C => ~Waiting(item[i])
          BY <2>2, <3>2 DEF ItemsOf, undecidedItems, Waiting
        <4>3. T[s].status \in Terminal => session[s].status \in Terminal \/ ~Waiting(item[i])
          BY <1>1, <3>2, <4>2
        <4>4. session[s] \in SessionRow /\ T[s] \in SessionRow /\ Moves(session[s], T[s], now)
          BY <1>0, <1>1, <3>2 DEF RowsOK, RowOK
        <4> QED BY <1>0, <2>0, <4>1, <4>3, <4>4, ItemFrame
      <3> QED BY <2>0, <3>1, <3>2 DEF ItemOK
    <2> QED BY <2>1, <2>2
  <1>5. ItemsOK(J, T, now)
    BY <1>4 DEF ItemsOK, HeldForReview
  <1> QED BY <1>1, <1>2, <1>3, <1>5 DEF DataOK

-----------------------------------------------------------------------------
(***************************************************************************)
(* Writes the actions share                                                *)
(***************************************************************************)

\* Time passing disturbs nothing.
LEMMA LaterClock ==
  ASSUME NEW S, NEW I, NEW n \in Time, NEW k \in Time, n <= k, DataOK(S, I, n)
  PROVE  DataOK(S, I, k)
  <1> USE TimingAssumption DEF DataOK
  <1>1. RowsOK(S, k)
    BY DEF RowsOK, RowOK, SessionRow, Time
  <1>2. ItemsOK(I, S, k)
    BY DEF ItemsOK, ItemOK, ItemOn, ItemRow, Time
  <1> QED BY <1>1, <1>2

\* A row created where no session is active.
LEMMA RowCreated ==
  ASSUME NEW n \in Time, NEW S, NEW I, NEW s \in Sessions, NEW b, NEW T,
         DataOK(S, I, n), RowOK(b, n), S[s].status = "none",
         \A t \in Sessions : S[t].status \notin ActiveStatuses,
         b.status \notin Terminal, T = [S EXCEPT ![s] = b]
  PROVE  DataOK(T, I, n)
  BY RowWritten DEF Moves

\* A status replaced by an active one: the row's own, or admitted by the index.
LEMMA StatusWritten ==
  ASSUME NEW n \in Time, NEW S, NEW I, NEW s \in Sessions, NEW x, NEW b, NEW T,
         DataOK(S, I, n),
         \/ x = S[s].status
         \/ x \in ActiveStatuses /\ S[s].status \in ActiveStatuses
         \/ x \in ActiveStatuses /\ \A t \in Sessions \ {s} : S[t].status \notin ActiveStatuses,
         b = [S[s] EXCEPT !.status = x], T = [S EXCEPT ![s] = b]
  PROVE  DataOK(T, I, n)
  <1>1. RowOK(S[s], n) /\ Unique(S) /\ S \in [Sessions -> SessionRow]
    BY DEF DataOK, RowsOK
  <1>3. /\ b \in SessionRow /\ b.status = x /\ b.timeoutAt = S[s].timeoutAt
        /\ b.completedAt = S[s].completedAt /\ b.lease = S[s].lease
    BY <1>1 DEF RowOK, SessionRow
  <1>4. x \in ActiveStatuses => x \notin Terminal /\ x # "none" /\ x # "EXPIRED"
    BY DEF ActiveStatuses, Terminal
  <1>5. RowOK(b, n)
    BY <1>1, <1>3, <1>4 DEF RowOK
  <1>6. Moves(S[s], b, n)
    BY <1>1, <1>3, <1>4, TimingAssumption DEF Moves, RowOK, SessionRow, Time
  <1>7. b.status \in Terminal => S[s].status \in Terminal
    BY <1>3, <1>4
  <1>8. b.status \in ActiveStatuses => \A t \in Sessions \ {s} : S[t].status \notin ActiveStatuses
    BY <1>1, <1>3 DEF Unique
  <1> QED BY <1>5, <1>6, <1>7, <1>8, RowWritten

\* What a step leaves: sound data, and pointers that still point.
LEMMA Rebuilt ==
  ASSUME now' \in Time, DataOK(session', item', now'),
         worker' \in [Workers -> [session : Sessions \cup {None}, item : Items \cup {None},
                                  next : {"none"} \cup ActiveStatuses]],
         poll' \in [phase : {"idle", "candidate", "live"},
                    session : Sessions \cup {None}, deadline : Time],
         PointersOK'
  PROVE  IInv'
  BY DEF IInv, TypeOK, DataOK, RowsOK, ItemsOK

\* A step that leaves clock, transactions and poll alone.
LEMMA DataStep ==
  ASSUME IInv, UNCHANGED <<now, worker, poll>>, DataOK(session', item', now)
  PROVE  IInv'
  BY Rebuilt DEF IInv, TypeOK, PointersOK

-----------------------------------------------------------------------------
(***************************************************************************)
(* Each action keeps the invariant                                         *)
(***************************************************************************)

\* The empty tables satisfy the invariant.
LEMMA InitIInv == Init => IInv
  <1> SUFFICES ASSUME Init PROVE IInv
    OBVIOUS
  <1> USE TimingAssumption, NoneAssumption DEF Init
  <1>1. NoSession \in SessionRow /\ NoSession.status = "none"
    BY DEF NoSession, SessionRow, Time, Never
  <1>2. NoItem \in ItemRow /\ NoItem.session = None /\ ~NoItem.afterEnd
    BY DEF NoItem, ItemRow, Time, Reasons
  <1>3. RowOK(NoSession, now)
    BY <1>1 DEF RowOK, NoSession
  <1>4. RowsOK(session, now)
    BY <1>1, <1>3 DEF RowsOK
  <1>5. ItemsOK(item, session, now)
    BY <1>2 DEF ItemsOK, ItemOK, AfterEndOK
  <1>6. Unique(session)
    BY <1>1 DEF Unique, ActiveStatuses
  <1>7. PointersOK
    BY DEF PointersOK, IdlePoll
  <1>8. TypeOK
    BY <1>1, <1>2 DEF TypeOK, Time, IdleWorker, IdlePoll
  <1> QED BY <1>4, <1>5, <1>6, <1>7, <1>8 DEF IInv, DataOK

\* Time passes.
LEMMA TickKeeps ==
  ASSUME IInv, Tick
  PROVE  IInv'
  <1>1. now \in Time /\ now' \in Time /\ now <= now'
    BY TimingAssumption DEF IInv, TypeOK, Tick, Time
  <1>2. DataOK(session', item', now')
    BY <1>1, LaterClock DEF IInv, Tick
  <1> QED BY <1>1, <1>2, Rebuilt DEF IInv, TypeOK, PointersOK, Tick

\* A scan: after the timeout policy no row is active, so the new one is alone.
LEMMA StartKeeps ==
  ASSUME IInv, NEW s \in Sessions, NEW idle \in IdleTimeouts, decideStart(s, idle)
  PROVE  IInv'
  <1> DEFINE S == Expired(Sessions, now)
             J == HeldForReview(Sessions, now)
             b == [NoSession EXCEPT !.status = "ACTIVE", !.timeoutAt = now + idle]
  <1>0. now \in Time /\ UNCHANGED <<now, worker, poll>>
    BY DEF IInv, TypeOK, decideStart
  <1>1. DataOK(S, J, now)
    BY TimeoutPolicy
  <1>2. \A t \in Sessions : S[t].status \notin ActiveStatuses
    <2> TAKE t \in Sessions
    <2>1. CASE session[t].status \in ActiveStatuses
      <3>1. t \in Closing(Sessions, now)
        BY <2>1 DEF decideStart, Closing, PastDeadline, isActiveSession
      <3>2. session[t] \in SessionRow
        BY DEF IInv, TypeOK
      <3>3. S[t].status = "EXPIRED"
        BY <3>1, <3>2 DEF Expired, SessionRow
      <3> QED BY <3>3 DEF ActiveStatuses
    <2>2. CASE session[t].status \notin ActiveStatuses
      BY <2>2 DEF Expired, Closing, isActiveSession
    <2> QED BY <2>1, <2>2
  <1>3. S[s].status = "none"
    BY DEF Expired, Closing, isActiveSession, decideStart, Used, ActiveStatuses
  <1>4. RowOK(b, now) /\ b.status \notin Terminal
    <2>1. now + idle \in Time /\ 0 <= now + idle
      BY <1>0, TimingAssumption DEF decideStart, Time
    <2>2. NoSession \in SessionRow /\ NoSession.lease = 0
      BY TimingAssumption DEF NoSession, SessionRow, Time, Never
    <2>3. b \in SessionRow /\ b.status = "ACTIVE" /\ b.timeoutAt = now + idle /\ b.lease = 0
      BY <2>1, <2>2 DEF SessionRow, ActiveStatuses
    <2> HIDE DEF b
    <2> QED BY <2>1, <2>3 DEF RowOK, Terminal
  <1>5. session' = [S EXCEPT ![s] = b] /\ item' = J
    BY DEF decideStart
  <1> HIDE DEF S, J, b
  <1>6. DataOK(session', J, now)
    BY <1>0, <1>1, <1>2, <1>3, <1>4, <1>5, RowCreated
  <1> QED BY <1>0, <1>5, <1>6, DataStep

\* The timeout policy as a whole step.
LEMMA TimeoutKeeps ==
  ASSUME IInv, NEW s \in Sessions, expireTimedOutSessions({s}, now),
         UNCHANGED <<now, worker, poll>>
  PROVE  IInv'
  <1>1. DataOK(Expired({s}, now), HeldForReview({s}, now), now)
    BY TimeoutPolicy
  <1> QED BY <1>1, DataStep DEF expireTimedOutSessions

\* The owner's finish or cancel: no item waits, or the timeout policy decides.
LEMMA OwnerKeeps ==
  ASSUME IInv, NEW s \in Sessions, NEW action, endDepositByOwner(s, action)
  PROVE  IInv'
  <1>0. now \in Time /\ UNCHANGED <<now, worker, poll>> /\ DataOK(session, item, now)
    BY DEF IInv, TypeOK, endDepositByOwner
  <1>1. CASE OwnerEnd(s, action)
    <2> DEFINE x == IF action = "cancel" THEN "CANCELLED"
                    ELSE transitionSession(session[s].status, "FINISH")
               b == [session[s] EXCEPT !.status = x, !.completedAt = now]
    <2>1. session[s] \in SessionRow /\ session[s].status \in ActiveStatuses /\ RowOK(session[s], now)
      BY DEF IInv, TypeOK, endDepositByOwner, isActiveSession, DataOK, RowsOK
    <2>2. /\ x \in {"CANCELLED", "COMPLETED", session[s].status}
          /\ x # "EXPIRED" /\ x # "none"
      BY <2>1 DEF transitionSession, ActiveStatuses
    <2>3. session' = [session EXCEPT ![s] = b]
      BY <1>1 DEF OwnerEnd, IInv, TypeOK
    <2>4. /\ b \in SessionRow /\ b.status = x /\ b.completedAt = now
          /\ b.timeoutAt = session[s].timeoutAt /\ b.lease = session[s].lease
      BY <1>0, <2>1, <2>2 DEF SessionRow, Terminal
    <2> HIDE DEF b
    <2>5. RowOK(b, now)
      BY <2>1, <2>2, <2>4 DEF RowOK
    <2>6. Moves(session[s], b, now)
      BY <2>1, <2>2, <2>4, TimingAssumption DEF Moves, SessionRow, Time
    <2>7. \A i \in Items : item[i].session = s => ~Waiting(item[i])
      BY <1>1 DEF OwnerEnd, undecidedItems, Waiting
    <2>8. \A t \in Sessions \ {s} : session[t].status \notin ActiveStatuses
      BY <1>0, <2>1 DEF DataOK, Unique
    <2>9. DataOK(session', item, now)
      BY <1>0, <2>3, <2>5, <2>6, <2>7, <2>8, RowWritten
    <2> QED BY <1>0, <1>1, <2>9, DataStep DEF OwnerEnd
  <1>2. CASE expireTimedOutSessions({s}, now)
    BY <1>0, <1>2, TimeoutKeeps
  <1> QED BY <1>1, <1>2 DEF endDepositByOwner

\* The three steps of the machine's poll: the lease is bounded by the deadline
\* read when it is signed.
LEMMA PollKeeps ==
  ASSUME IInv, PollStep
  PROVE  IInv'
  <1>0. now \in Time /\ DataOK(session, item, now)
    BY DEF IInv, TypeOK
  <1>1. CASE pollRead
    <2>1. PICK s \in Sessions :
            poll' = [phase |-> "candidate", session |-> s, deadline |-> session[s].timeoutAt]
      BY <1>1 DEF pollRead
    <2>2. session[s].timeoutAt \in Time
      BY DEF IInv, TypeOK, SessionRow
    <2>3. UNCHANGED <<now, session, item, worker>>
      BY <1>1 DEF pollRead
    <2> QED BY <1>0, <2>1, <2>2, <2>3, Rebuilt DEF IInv, TypeOK, PointersOK
  <1>2. CASE currentMachineSession
    <2>0. /\ poll.session \in Sessions /\ UNCHANGED <<now, worker>>
          /\ poll' \in {IdlePoll, [poll EXCEPT !.phase = "live", !.deadline = 0]}
      BY <1>2 DEF currentMachineSession, IInv, PointersOK
    <2>1. DataOK(session', item', now)
      <3>1. CASE UNCHANGED <<session, item>>
        BY <1>0, <3>1
      <3>2. CASE expireTimedOutSessions({poll.session}, now)
        BY <2>0, <3>2, TimeoutPolicy DEF expireTimedOutSessions
      <3> QED BY <1>2, <3>1, <3>2 DEF currentMachineSession
    <2>2. /\ poll' \in [phase : {"idle", "candidate", "live"},
                        session : Sessions \cup {None}, deadline : Time]
          /\ poll'.phase # "idle" => poll'.session \in Sessions
      <3>1. 0 \in Time
        BY TimingAssumption DEF Time
      <3>2. CASE poll' = IdlePoll
        BY <3>1, <3>2 DEF IdlePoll
      <3>3. CASE poll' = [poll EXCEPT !.phase = "live", !.deadline = 0]
        <4>1. poll \in [phase : {"idle", "candidate", "live"},
                        session : Sessions \cup {None}, deadline : Time]
          BY DEF IInv, TypeOK
        <4> QED BY <2>0, <3>1, <3>3, <4>1
      <3> QED BY <2>0, <3>2, <3>3
    <2> QED BY <1>0, <2>0, <2>1, <2>2, Rebuilt DEF IInv, TypeOK, PointersOK
  <1>3. CASE issueLease
    <2> DEFINE s == poll.session
               e == machineLeaseExpiry(session[s].timeoutAt, now)
               b == [session[s] EXCEPT !.lease = e]
    <2>0. s \in Sessions /\ UNCHANGED <<now, item, worker>> /\ poll' = IdlePoll
      BY <1>3 DEF issueLease, IInv, PointersOK
    <2>1. DataOK(session', item, now)
      <3>1. CASE session' = session
        BY <1>0, <3>1
      <3>2. CASE isActiveSession(s) /\ e > now /\ session' = [session EXCEPT ![s].lease = e]
        <4>1. session[s] \in SessionRow /\ RowOK(session[s], now) /\ session[s].status \in ActiveStatuses
          BY <1>0, <2>0, <3>2 DEF DataOK, RowsOK, isActiveSession
        <4>2. e <= session[s].timeoutAt /\ e \in 0..(MaxTime + LeaseMax)
          BY <1>0, <4>1, TimingAssumption DEF machineLeaseExpiry, SessionRow, Time
        <4> HIDE DEF e
        <4>3. /\ b \in SessionRow /\ b.lease = e /\ b.status = session[s].status
              /\ b.timeoutAt = session[s].timeoutAt /\ b.completedAt = session[s].completedAt
          BY <4>1, <4>2 DEF SessionRow
        <4>4. session' = [session EXCEPT ![s] = b]
          BY <3>2 DEF IInv, TypeOK
        <4> HIDE DEF b
        <4>5. RowOK(b, now)
          BY <4>1, <4>2, <4>3 DEF RowOK
        <4>6. Moves(session[s], b, now)
          BY <4>1, <4>3, TimingAssumption DEF Moves, SessionRow, Time
        <4>7. \A t \in Sessions \ {s} : session[t].status \notin ActiveStatuses
          BY <1>0, <2>0, <4>1 DEF DataOK, Unique
        <4>8. b.status \in Terminal => session[s].status \in Terminal
          BY <4>3
        <4> QED BY <1>0, <2>0, <4>4, <4>5, <4>6, <4>7, <4>8, RowWritten
      <3> QED BY <1>3, <3>1, <3>2 DEF issueLease
    <2>2. poll'.phase = "idle" /\ poll' \in [phase : {"idle", "candidate", "live"},
                                            session : Sessions \cup {None}, deadline : Time]
      <3>1. 0 \in Time
        BY TimingAssumption DEF Time
      <3> QED BY <2>0, <3>1 DEF IdlePoll
    <2> QED BY <1>0, <2>0, <2>1, <2>2, Rebuilt DEF IInv, TypeOK, PointersOK
  <1> QED BY <1>1, <1>2, <1>3 DEF PollStep

\* transitionSession stays within the active statuses on every event.
LEMMA EventTransition ==
  ASSUME NEW x \in ActiveStatuses
  PROVE  /\ transitionSession(x, "START_ITEM") \in ActiveStatuses
         /\ transitionSession(x, "ITEM_DONE") \in ActiveStatuses
         /\ transitionSession(x, "ANOMALY") \in ActiveStatuses
         /\ transitionSession(x, "SAFE_STATE") \in ActiveStatuses
  BY DEF transitionSession, ActiveStatuses

\* The read of an unlocked transaction.
LEMMA ReadKeeps ==
  ASSUME IInv, NEW w \in Workers, NEW s \in Sessions, NEW i \in Items \cup {None},
         NEW next \in {"none"} \cup ActiveStatuses, readUnlocked(w, s, i, next)
  PROVE  IInv'
  <1> DEFINE v == [session |-> s, item |-> i, next |-> next]
  <1>1. UNCHANGED <<now, session, item, poll>> /\ worker' = [worker EXCEPT ![w] = v]
    BY DEF readUnlocked
  <1>2. now \in Time /\ DataOK(session, item, now)
    BY DEF IInv, TypeOK
  <1>3. PointersOK'
    BY <1>1 DEF IInv, TypeOK, PointersOK
  <1> QED BY <1>1, <1>2, <1>3, Rebuilt DEF IInv, TypeOK

\* CHAMBER_OPENED, CHAMBER_TIMEOUT and an anomaly that names no item.
LEMMA ReadersKeep ==
  ASSUME IInv, NEW w \in Workers, NEW s \in Sessions,
         chamberOpened(w, s) \/ chamberTimeout(w, s) \/ vandalismDetected(w, s)
  PROVE  IInv'
  <1>1. /\ transitionSession("ACTIVE", "START_ITEM") \in ActiveStatuses
        /\ transitionSession("PROCESSING_ITEM", "ITEM_DONE") \in ActiveStatuses
    BY DEF transitionSession, ActiveStatuses
  <1>2. AnomalyStatus(s) \in {"none"} \cup ActiveStatuses
    BY EventTransition DEF AnomalyStatus, isActiveSession
  <1> QED BY <1>1, <1>2, ReadKeeps DEF chamberOpened, chamberTimeout, vandalismDetected

\* SENSOR_SEQUENCE, up to its flag.
LEMMA SensorKeeps ==
  ASSUME IInv, NEW w \in Workers, NEW i \in Items, sensorSequence(w, i)
  PROVE  IInv'
  <1> DEFINE s == item[i].session
  <1>1. s \in Sessions
    BY DEF IInv, TypeOK, ItemRow, sensorSequence
  <1>2. AnomalyStatus(s) \in {"none"} \cup ActiveStatuses
    BY EventTransition DEF AnomalyStatus, isActiveSession
  <1> QED BY <1>1, <1>2, ReadKeeps DEF sensorSequence

\* An item row rewritten so that the machine no longer waits for it and it is
\* not paid without a reviewer stands on its session as the row before did.
LEMMA Decided ==
  ASSUME NEW n \in Time, NEW S, NEW r \in ItemRow, NEW q \in ItemRow,
         ItemOK(r, S, n), r.session # None, q.session = r.session,
         ~Waiting(q), ~Paid(q), AfterEndOK(q)
  PROVE  ItemOK(q, S, n)
  <1>1. r.session \in Sessions
    BY DEF ItemRow
  <1>2. ItemOn(r, S[r.session], n)
    BY <1>1 DEF ItemOK
  <1>3. ItemOn(q, S[q.session], n)
    BY <1>2 DEF ItemOn
  <1> QED BY <1>1, <1>3 DEF ItemOK

\* An item row that holds something belongs to a session.
LEMMA ItemHasSession ==
  ASSUME IInv, NEW i \in Items, item[i].status # "none"
  PROVE  item[i].session \in Sessions /\ item[i].session # None
  <1>1. item[i] \in ItemRow /\ ItemOK(item[i], session, now)
    BY DEF IInv, DataOK, ItemsOK
  <1>2. NoItem.status = "none"
    BY DEF NoItem
  <1> QED BY <1>1, <1>2 DEF ItemOK, ItemRow

\* The write of an unlocked transaction: the index admits the status, and the
\* item it flags goes to review.
LEMMA WriteKeeps ==
  ASSUME IInv, NEW w \in Workers, writeUnlocked(w)
  PROVE  IInv'
  <1> DEFINE s == worker[w].session
             i == worker[w].item
             x == worker[w].next
  <1>0. /\ now \in Time /\ DataOK(session, item, now) /\ s \in Sessions
        /\ x \in {"none"} \cup ActiveStatuses /\ i \in Items \cup {None}
    BY DEF IInv, TypeOK, PointersOK, writeUnlocked
  <1>1. DataOK(session', item, now)
    <2>1. CASE session' = session
      BY <1>0, <2>1
    <2>2. CASE x # "none" /\ IndexAdmits(s) /\ session' = [session EXCEPT ![s].status = x]
      <3>1. x \in ActiveStatuses /\ \A t \in Sessions \ {s} : session[t].status \notin ActiveStatuses
        BY <1>0, <2>2 DEF IndexAdmits, isActiveSession
      <3> DEFINE b == [session[s] EXCEPT !.status = x]
      <3>2. b = [session[s] EXCEPT !.status = x] /\ session' = [session EXCEPT ![s] = b]
        BY <2>2 DEF IInv, TypeOK
      <3> HIDE DEF s, x, b
      <3> QED BY <1>0, <3>1, <3>2, StatusWritten
    <2> QED BY <2>1, <2>2 DEF writeUnlocked
  <1>2. DataOK(session', item', now)
    <2>1. CASE item' = item
      BY <1>1, <2>1
    <2>2. CASE i # None /\ Undecided(i) /\ item' = FlaggedItem(i)
      <3> DEFINE q == [item[i] EXCEPT !.status = "REVIEW",
                                      !.reason = IF @ = "none" THEN "MACHINE" ELSE @]
      <3>1. i \in Items
        BY <1>0, <2>2
      <3>2. item[i].status # "none" /\ ~item[i].accepted
        BY <2>2 DEF Undecided
      <3>3. item[i].session # None
        BY <3>1, <3>2, ItemHasSession
      <3>4. item[i] \in ItemRow /\ ItemOK(item[i], session', now) /\ item \in [Items -> ItemRow]
        BY <1>1, <3>1 DEF DataOK, ItemsOK
      <3>5. item' = [item EXCEPT ![i] = q]
        BY <2>2, <3>1, <3>4 DEF FlaggedItem
      <3>6. /\ q \in ItemRow /\ q.session = item[i].session /\ q.status = "REVIEW"
            /\ q.afterEnd = item[i].afterEnd /\ q.accepted = item[i].accepted
            /\ item[i].reason # "none" => q.reason = item[i].reason
        BY <3>4 DEF ItemRow, ItemStatuses, Reasons
      <3> HIDE DEF q
      <3>7. AfterEndOK(q)
        BY <2>2, <3>2, <3>4, <3>6 DEF AfterEndOK, ItemOK, Undecided, Paid
      <3>8. ItemOK(q, session', now)
        BY <1>0, <3>3, <3>4, <3>6, <3>7, Decided DEF Waiting, Paid
      <3> HIDE DEF i
      <3> QED BY <1>0, <1>1, <3>1, <3>5, <3>8, ItemWritten
    <2> QED BY <2>1, <2>2 DEF writeUnlocked
  <1>3. UNCHANGED <<now, poll>> /\ worker' = [worker EXCEPT ![w] = IdleWorker]
    BY DEF writeUnlocked
  <1>4. worker' \in [Workers -> [session : Sessions \cup {None}, item : Items \cup {None},
                                 next : {"none"} \cup ActiveStatuses]]
    BY <1>3 DEF IInv, TypeOK, IdleWorker
  <1>5. PointersOK'
    BY <1>3 DEF IInv, TypeOK, PointersOK
  <1> QED BY <1>0, <1>2, <1>3, <1>4, <1>5, Rebuilt DEF IInv, TypeOK

\* ITEM_DETECTED: the deadline it leaves is not before the one it found, and
\* an item reported after the end goes to review with the reason that keeps it.
LEMMA DetectedKeeps ==
  ASSUME IInv, NEW s \in Sessions, NEW i \in Items, NEW unknown \in BOOLEAN,
         NEW idle \in IdleTimeouts, itemDetected(s, i, unknown, idle)
  PROVE  IInv'
  <1> DEFINE closed == session[s].status \in Terminal
             d == ExtendedDeadline(s, idle)
             x == IF session[s].status = "ACTIVE" /\ ~PastDeadline(s)
                  THEN "PROCESSING_ITEM" ELSE session[s].status
             b == [session[s] EXCEPT !.timeoutAt = d, !.status = x]
             q == [NoItem EXCEPT !.session = s,
                                 !.status = DetectedStatus(closed, unknown),
                                 !.reason = DetectedReason(closed, unknown),
                                 !.afterEnd = closed]
  <1>0. /\ now \in Time /\ DataOK(session, item, now)
        /\ UNCHANGED <<now, worker, poll>> /\ session[s].status # "none"
    BY DEF IInv, TypeOK, itemDetected, Used
  <1>1. /\ session \in [Sessions -> SessionRow] /\ session[s] \in SessionRow
        /\ RowOK(session[s], now)
        /\ item \in [Items -> ItemRow]
    BY <1>0 DEF DataOK, RowsOK, ItemsOK
  <1>2. /\ d \in Time /\ session[s].timeoutAt <= d
        /\ session[s].status \notin ActiveStatuses => d = session[s].timeoutAt
    BY <1>0, <1>1, TimingAssumption DEF itemDetected, ExtendedDeadline, SessionRow, Time, isActiveSession
  <1>3. /\ session[s].status = "ACTIVE" => x \in {"ACTIVE", "PROCESSING_ITEM"}
        /\ session[s].status # "ACTIVE" => x = session[s].status
    OBVIOUS
  <1>4. session' = [session EXCEPT ![s] = b] /\ item' = [item EXCEPT ![i] = q]
    BY <1>1 DEF itemDetected
  <1> HIDE DEF d, x
  <1>5. /\ b \in SessionRow /\ b.timeoutAt = d /\ b.status = x
        /\ b.completedAt = session[s].completedAt /\ b.lease = session[s].lease
    BY <1>1, <1>2, <1>3 DEF SessionRow, ActiveStatuses
  <1> HIDE DEF b
  <1>6. RowOK(b, now)
    <2>1. b.lease <= b.timeoutAt
      BY <1>1, <1>2, <1>5, TimingAssumption DEF RowOK, SessionRow, Time
    <2>2. b.status = "EXPIRED" => b.timeoutAt = session[s].timeoutAt /\ session[s].status = "EXPIRED"
      BY <1>2, <1>3, <1>5 DEF ActiveStatuses
    <2> QED BY <1>1, <1>5, <2>1, <2>2 DEF RowOK
  <1>7. Moves(session[s], b, now)
    BY <1>0, <1>1, <1>2, <1>3, <1>5, TimingAssumption DEF Moves, SessionRow, Time
  <1>8. b.status \in Terminal => session[s].status \in Terminal
    BY <1>3, <1>5 DEF Terminal
  <1>9. b.status \in ActiveStatuses => \A t \in Sessions \ {s} : session[t].status \notin ActiveStatuses
    <2>1. b.status \in ActiveStatuses => session[s].status \in ActiveStatuses
      BY <1>3, <1>5 DEF ActiveStatuses
    <2> QED BY <1>0, <2>1 DEF DataOK, Unique
  <1>10. DataOK(session', item, now)
    BY <1>0, <1>4, <1>6, <1>7, <1>8, <1>9, RowWritten
  <1>11. session'[s] = b /\ b.status # "none" /\ (b.status \in Terminal => closed)
    BY <1>0, <1>1, <1>3, <1>4, <1>5, <1>8
  <1>12. /\ q \in ItemRow /\ q.session = s /\ q.afterEnd = closed /\ ~q.accepted
         /\ q.status = DetectedStatus(closed, unknown)
         /\ q.reason = DetectedReason(closed, unknown)
    <2>1. NoItem \in ItemRow /\ NoItem.accepted = FALSE
      BY TimingAssumption DEF NoItem, ItemRow, Time, Reasons
    <2>2. DetectedStatus(closed, unknown) \in ItemStatuses /\ DetectedReason(closed, unknown) \in Reasons
      BY DEF DetectedStatus, DetectedReason, ItemStatuses, Reasons
    <2>3. closed \in BOOLEAN
      OBVIOUS
    <2> HIDE DEF closed
    <2> QED BY <2>1, <2>2, <2>3 DEF ItemRow
  <1> HIDE DEF q
  <1>13. closed => q.status = "REVIEW" /\ q.reason \in {"SESSION_CLOSED", "UNKNOWN_WASTE_TYPE"}
    BY <1>12 DEF DetectedStatus, DetectedReason
  <1>14. q.status \in {"PENDING", "REVIEW"}
    BY <1>12 DEF DetectedStatus
  <1>15. ItemOn(q, b, now)
    BY <1>11, <1>13, <1>14 DEF ItemOn, Waiting, Paid
  <1>16. AfterEndOK(q)
    BY <1>12, <1>13 DEF AfterEndOK, Paid
  <1>17. ItemOK(q, session', now)
    BY <1>11, <1>12, <1>15, <1>16, NoneAssumption DEF ItemOK
  <1>18. DataOK(session', item', now)
    BY <1>0, <1>4, <1>10, <1>17, ItemWritten
  <1> QED BY <1>0, <1>18, DataStep

\* StatusWritten, for a step that writes session s's status beside items J.
LEMMA StatusStep ==
  ASSUME IInv, NEW s \in Sessions, NEW x, NEW J, DataOK(session, J, now),
         \/ x = session[s].status
         \/ x \in ActiveStatuses /\ session[s].status \in ActiveStatuses
  PROVE  session' = [session EXCEPT ![s].status = x] => DataOK(session', J, now)
  <1> DEFINE b == [session[s] EXCEPT !.status = x]
  <1>1. now \in Time /\ b = [session[s] EXCEPT !.status = x]
    BY DEF IInv, TypeOK
  <1>2. session' = [session EXCEPT ![s].status = x] => session' = [session EXCEPT ![s] = b]
    BY DEF IInv, TypeOK
  <1> HIDE DEF b
  <1>3. ASSUME NEW T, T = [session EXCEPT ![s] = b]
        PROVE  DataOK(T, J, now)
    BY <1>1, <1>3, StatusWritten
  <1> QED BY <1>2, <1>3

\* A decided item leaves its session as it is, or active as it was.
LEMMA AfterItemStatus ==
  ASSUME NEW x, NEW outcome
  PROVE  \/ AfterItem(x, outcome) = x
         \/ AfterItem(x, outcome) \in ActiveStatuses /\ x \in ActiveStatuses
  BY DEF AfterItem, transitionSession, ActiveStatuses

\* ITEM_ACCEPTED: an item is paid only when its acceptance is not after the end
\* of its session, and never when it was reported after it.
LEMMA AcceptanceKeeps ==
  ASSUME IInv, NEW i \in Items, NEW occurred \in 0..now, NEW outcome,
         handleAcceptance(i, occurred, outcome)
  PROVE  IInv'
  <1> DEFINE s == item[i].session
             at == IF outcome = "ACCEPTED" THEN occurred ELSE 0
             why == AcceptanceReason(i, occurred, outcome)
             q == [item[i] EXCEPT !.status = outcome, !.reason = why,
                                  !.accepted = TRUE, !.occurredAt = at]
  <1>0. /\ now \in Time /\ DataOK(session, item, now)
        /\ UNCHANGED <<now, worker, poll>>
    BY DEF IInv, TypeOK, handleAcceptance
  <1>1. /\ item \in [Items -> ItemRow] /\ item[i] \in ItemRow
        /\ ItemOK(item[i], session, now)
    BY <1>0 DEF DataOK, ItemsOK
  <1>2. s \in Sessions
    BY <1>1 DEF handleAcceptance, ItemRow
  <1>3. session[s] \in SessionRow /\ ItemOn(item[i], session[s], now)
    BY <1>0, <1>1, <1>2 DEF DataOK, RowsOK, ItemOK
  <1>4. outcome \in {"REJECTED", "REVIEW", "ACCEPTED"}
    BY DEF handleAcceptance, Outcomes
  <1>5. why \in Reasons
    BY <1>1 DEF AcceptanceReason, Reasons, ItemRow
  <1>6. occurred \in Time /\ at \in Time /\ (outcome = "ACCEPTED" => at = occurred)
    BY <1>0, TimingAssumption DEF Time
  <1>7. item' = [item EXCEPT ![i] = q]
    BY <1>1 DEF handleAcceptance
  <1> HIDE DEF at, why
  <1>8. /\ q \in ItemRow /\ q.session = s /\ q.status = outcome /\ q.accepted = TRUE
        /\ q.reason = why /\ q.afterEnd = item[i].afterEnd /\ q.occurredAt = at
    BY <1>1, <1>4, <1>5, <1>6 DEF ItemRow, ItemStatuses
  <1> HIDE DEF q
  <1>9. ASSUME outcome = "ACCEPTED"
        PROVE  /\ item[i].reason \notin {"SESSION_CLOSED", "UNKNOWN_WASTE_TYPE"}
               /\ ~(occurred > sessionEnd(s))
    BY <1>9 DEF handleAcceptance, Outcomes, Late
  <1>10. ASSUME outcome = "ACCEPTED" PROVE ~item[i].afterEnd
    BY <1>1, <1>9, <1>10 DEF ItemOK, AfterEndOK, handleAcceptance, Undecided
  <1>11. ASSUME outcome = "ACCEPTED"
         PROVE  occurred <= session[s].timeoutAt /\ occurred <= session[s].completedAt
    BY <1>3, <1>6, <1>9, <1>11, TimingAssumption DEF sessionEnd, SessionRow, Time, Never
  <1>12. occurred <= now
    BY <1>0, TimingAssumption DEF Time
  <1>13. ItemOn(q, session[s], now)
    BY <1>3, <1>6, <1>8, <1>11, <1>12 DEF ItemOn, Waiting, Paid
  <1>14. AfterEndOK(q)
    BY <1>4, <1>8, <1>10 DEF AfterEndOK, Paid
  <1>15. ItemOK(q, session, now)
    BY <1>2, <1>8, <1>13, <1>14, NoneAssumption DEF ItemOK
  <1>16. DataOK(session, item', now)
    BY <1>0, <1>7, <1>15, ItemWritten
  <1>17. session' = [session EXCEPT ![s].status = AfterItem(session[s].status, outcome)]
    BY DEF handleAcceptance
  <1> HIDE DEF s
  <1>18. DataOK(session', item', now)
    BY <1>2, <1>16, <1>17, AfterItemStatus, StatusStep
  <1> QED BY <1>0, <1>18, DataStep

\* ITEM_REJECTED: an undecided item is rejected, a decided one stays.
LEMMA RejectedKeeps ==
  ASSUME IInv, NEW i \in Items, handleItemRejected(i)
  PROVE  IInv'
  <1> DEFINE s == item[i].session
             q == [item[i] EXCEPT !.status = "REJECTED", !.reason = "MACHINE"]
  <1>0. /\ now \in Time /\ DataOK(session, item, now)
        /\ UNCHANGED <<now, worker, poll>>
    BY DEF IInv, TypeOK, handleItemRejected
  <1>1. /\ item \in [Items -> ItemRow] /\ item[i] \in ItemRow
        /\ ItemOK(item[i], session, now)
    BY <1>0 DEF DataOK, ItemsOK
  <1>2. s \in Sessions /\ s # None
    BY <1>1 DEF handleItemRejected, ItemRow
  <1>3. DataOK(session, item', now)
    <2>1. CASE item' = item
      BY <1>0, <2>1
    <2>2. CASE item' = [item EXCEPT ![i].status = "REJECTED", ![i].reason = "MACHINE"]
      <3>1. item' = [item EXCEPT ![i] = q]
        BY <1>1, <2>2
      <3>2. /\ q \in ItemRow /\ q.session = s /\ q.status = "REJECTED"
        BY <1>1 DEF ItemRow, ItemStatuses, Reasons
      <3> HIDE DEF q
      <3>3. ItemOK(q, session, now)
        BY <1>0, <1>1, <1>2, <3>2, Decided DEF Waiting, Paid, AfterEndOK
      <3> QED BY <1>0, <3>1, <3>3, ItemWritten
    <2> QED BY <2>1, <2>2 DEF handleItemRejected
  <1>4. session' = [session EXCEPT ![s].status = AfterItem(session[s].status, "REJECTED")]
    BY DEF handleItemRejected
  <1> HIDE DEF s
  <1>5. DataOK(session', item', now)
    BY <1>2, <1>3, <1>4, AfterItemStatus, StatusStep
  <1> QED BY <1>0, <1>5, DataStep

\* A status written only while the session is active, by an event that keeps it
\* active.
LEMMA FlagStep ==
  ASSUME IInv, NEW s \in Sessions, NEW action \in {"ANOMALY", "SAFE_STATE"},
         NEW J, DataOK(session, J, now),
         session' = IF isActiveSession(s)
                    THEN [session EXCEPT ![s].status = transitionSession(@, action)]
                    ELSE session
  PROVE  DataOK(session', J, now)
  <1>1. CASE isActiveSession(s)
    <2>1. transitionSession(session[s].status, action) \in ActiveStatuses
      BY <1>1, EventTransition DEF isActiveSession
    <2>2. session' = [session EXCEPT ![s].status = transitionSession(session[s].status, action)]
      BY <1>1
    <2> QED BY <1>1, <2>1, <2>2, StatusStep DEF isActiveSession
  <1>2. CASE ~isActiveSession(s)
    BY <1>2
  <1> QED BY <1>1, <1>2

\* SAFE_STATE_ENTERED.
LEMMA SafeStateKeeps ==
  ASSUME IInv, NEW s \in Sessions, safeStateEntered(s)
  PROVE  IInv'
  <1>1. UNCHANGED <<now, worker, poll>> /\ item' = item /\ DataOK(session, item, now)
    BY DEF safeStateEntered, IInv
  <1>2. DataOK(session', item, now)
    BY <1>1, FlagStep DEF safeStateEntered
  <1> QED BY <1>1, <1>2, DataStep

\* FRAUD_DETECTED with an item: what is held goes to review, and a held item
\* keeps the reason it was reported with.
LEMMA HoldKeeps ==
  ASSUME IInv, NEW i \in Items, holdItemForFraud(i)
  PROVE  IInv'
  <1> DEFINE s == item[i].session
             f == [item[i] EXCEPT !.fraud = TRUE]
             q == [item[i] EXCEPT
                     !.fraud = TRUE,
                     !.reason = IF item[i].status = "REVIEW" THEN @ ELSE "MACHINE",
                     !.status = "REVIEW"]
  <1>0. /\ now \in Time /\ DataOK(session, item, now)
        /\ UNCHANGED <<now, worker, poll>>
    BY DEF IInv, TypeOK, holdItemForFraud
  <1>1. /\ item \in [Items -> ItemRow] /\ item[i] \in ItemRow
        /\ ItemOK(item[i], session, now)
    BY <1>0 DEF DataOK, ItemsOK
  <1>2. s \in Sessions /\ s # None
    BY <1>1 DEF holdItemForFraud, ItemRow
  <1>3. DataOK(session, item', now)
    <2>1. CASE item' = [item EXCEPT ![i].fraud = TRUE]
      <3>1. item' = [item EXCEPT ![i] = f]
        BY <1>1, <2>1
      <3>2. /\ f \in ItemRow /\ f.session = s /\ f.status = item[i].status
            /\ f.accepted = item[i].accepted /\ f.reason = item[i].reason
            /\ f.occurredAt = item[i].occurredAt /\ f.afterEnd = item[i].afterEnd
        BY <1>1 DEF ItemRow
      <3> HIDE DEF f
      <3>3. ItemOn(f, session[s], now)
        BY <1>1, <1>2, <3>2 DEF ItemOK, ItemOn, Waiting, Paid
      <3>4. ItemOK(f, session, now)
        BY <1>1, <1>2, <3>2, <3>3 DEF ItemOK, AfterEndOK, Paid
      <3> QED BY <1>0, <3>1, <3>4, ItemWritten
    <2>2. CASE /\ ~(item[i].status = "REJECTED" \/ isReviewFinal(i))
               /\ item' = [item EXCEPT
                             ![i].fraud = TRUE,
                             ![i].reason = IF item[i].status = "REVIEW" THEN @ ELSE "MACHINE",
                             ![i].status = "REVIEW"]
      <3>1. item' = [item EXCEPT ![i] = q]
        BY <1>1, <2>2
      <3>2. /\ q \in ItemRow /\ q.session = s /\ q.status = "REVIEW"
            /\ q.accepted = item[i].accepted /\ q.afterEnd = item[i].afterEnd
            /\ item[i].status = "REVIEW" => q.reason = item[i].reason
        BY <1>1 DEF ItemRow, ItemStatuses, Reasons
      <3> HIDE DEF q
      <3>3. item[i].afterEnd => item[i].status = "REVIEW"
        BY <1>1, <2>2 DEF ItemOK, AfterEndOK, Paid, isReviewFinal
      <3>4. AfterEndOK(q)
        BY <1>1, <3>2, <3>3 DEF ItemOK, AfterEndOK, Paid
      <3>5. ItemOK(q, session, now)
        BY <1>0, <1>1, <1>2, <3>2, <3>4, Decided DEF Waiting, Paid
      <3> QED BY <1>0, <3>1, <3>5, ItemWritten
    <2> QED BY <2>1, <2>2 DEF holdItemForFraud
  <1>4. session' = IF isActiveSession(s)
                   THEN [session EXCEPT ![s].status = transitionSession(@, "ANOMALY")]
                   ELSE session
    BY DEF holdItemForFraud, AnomalyStatus
  <1> HIDE DEF s
  <1>5. DataOK(session', item', now)
    BY <1>2, <1>3, <1>4, FlagStep
  <1> QED BY <1>0, <1>5, DataStep

\* A reviewer's decision.
LEMMA ReviewKeeps ==
  ASSUME IInv, NEW i \in Items, NEW outcome, decideDepositReview(i, outcome)
  PROVE  IInv'
  <1> DEFINE a == [item[i] EXCEPT !.status = "ACCEPTED", !.reason = "REVIEW_APPROVED",
                                  !.fraud = FALSE]
             r == [item[i] EXCEPT !.status = "REJECTED", !.reason = "REVIEW_REJECTED"]
  <1>0. /\ now \in Time /\ DataOK(session, item, now) /\ session' = session
        /\ UNCHANGED <<now, worker, poll>>
    BY DEF IInv, TypeOK, decideDepositReview
  <1>1. /\ item \in [Items -> ItemRow] /\ item[i] \in ItemRow
        /\ ItemOK(item[i], session, now)
    BY <1>0 DEF DataOK, ItemsOK
  <1>2. item[i].session # None
    BY ItemHasSession DEF decideDepositReview
  <1>3. /\ a \in ItemRow /\ a.session = item[i].session
        /\ a.status = "ACCEPTED" /\ a.reason = "REVIEW_APPROVED"
    BY <1>1 DEF ItemRow, ItemStatuses, Reasons
  <1>4. r \in ItemRow /\ r.session = item[i].session /\ r.status = "REJECTED"
    BY <1>1 DEF ItemRow, ItemStatuses, Reasons
  <1>5. item' = [item EXCEPT ![i] = a] \/ item' = [item EXCEPT ![i] = r]
    BY <1>1 DEF decideDepositReview
  <1> HIDE DEF a, r
  <1>6. ItemOK(a, session, now)
    BY <1>0, <1>1, <1>2, <1>3, Decided DEF Waiting, Paid, AfterEndOK
  <1>7. ItemOK(r, session, now)
    BY <1>0, <1>1, <1>2, <1>4, Decided DEF Waiting, Paid, AfterEndOK
  <1>8. DataOK(session', item', now)
    BY <1>0, <1>5, <1>6, <1>7, ItemWritten
  <1> QED BY <1>0, <1>8, DataStep

\* Every step of the specification keeps the invariant.
LEMMA NextKeeps ==
  ASSUME IInv, [Next]_vars
  PROVE  IInv'
  <1>1. CASE UNCHANGED vars
    BY <1>1, DataStep DEF vars, IInv
  <1>2. CASE Tick
    BY <1>2, TickKeeps
  <1>3. CASE PollStep
    BY <1>3, PollKeeps
  <1>4. ASSUME NEW w \in Workers, writeUnlocked(w) PROVE IInv'
    BY <1>4, WriteKeeps
  <1>5. ASSUME NEW s \in Sessions, SessionStep(s) PROVE IInv'
    <2>1. ASSUME NEW idle \in IdleTimeouts, decideStart(s, idle) PROVE IInv'
      BY <2>1, StartKeeps
    <2>2. ASSUME NEW action, endDepositByOwner(s, action) PROVE IInv'
      BY <2>2, OwnerKeeps
    <2>3. ASSUME NEW i \in Items, NEW unknown \in BOOLEAN, NEW idle \in IdleTimeouts,
                 itemDetected(s, i, unknown, idle)
          PROVE  IInv'
      BY <2>3, DetectedKeeps
    <2>4. ASSUME NEW w \in Workers,
                 chamberOpened(w, s) \/ chamberTimeout(w, s) \/ vandalismDetected(w, s)
          PROVE  IInv'
      BY <2>4, ReadersKeep
    <2>5. CASE safeStateEntered(s)
      BY <2>5, SafeStateKeeps
    <2>6. CASE handleCloseWatermark(s)
      BY <2>6, TimeoutKeeps DEF handleCloseWatermark
    <2> QED BY <1>5, <2>1, <2>2, <2>3, <2>4, <2>5, <2>6 DEF SessionStep
  <1>6. ASSUME NEW i \in Items, ItemStep(i) PROVE IInv'
    <2>1. ASSUME NEW w \in Workers, sensorSequence(w, i) PROVE IInv'
      BY <2>1, SensorKeeps
    <2>2. ASSUME NEW occurred \in 0..now, NEW outcome, handleAcceptance(i, occurred, outcome)
          PROVE  IInv'
      BY <2>2, AcceptanceKeeps
    <2>3. CASE handleItemRejected(i)
      BY <2>3, RejectedKeeps
    <2>4. CASE holdItemForFraud(i)
      BY <2>4, HoldKeeps
    <2>5. ASSUME NEW outcome, decideDepositReview(i, outcome) PROVE IInv'
      BY <2>5, ReviewKeeps
    <2> QED BY <1>6, <2>1, <2>2, <2>3, <2>4, <2>5 DEF ItemStep
  <1> QED BY <1>1, <1>2, <1>3, <1>4, <1>5, <1>6 DEF Next

-----------------------------------------------------------------------------
(***************************************************************************)
(* The theorems                                                            *)
(***************************************************************************)

\* The strengthened invariant holds in every reachable state.
THEOREM Inductive == Spec => []IInv
  <1>1. Init => IInv
    BY InitIInv
  <1>2. IInv /\ [Next]_vars => IInv'
    BY NextKeeps
  <1> QED BY <1>1, <1>2, PTL DEF Spec

\* Every row, poll and unlocked transaction keeps its type.
THEOREM TypeCorrect == Spec => []TypeOK
  <1>1. IInv => TypeOK
    BY DEF IInv
  <1> QED BY <1>1, Inductive, PTL

\* No lease outlives the deadline of its session, however the poll's three
\* steps interleave with extensions and endings (issueLease).
THEOREM LeaseBounded == Spec => []LeaseWithinDeadline
  <1>1. IInv => LeaseWithinDeadline
    BY DEF IInv, DataOK, RowsOK, RowOK, LeaseWithinDeadline
  <1> QED BY <1>1, Inductive, PTL

\* When the timeout policy has closed a session, its deadline and every lease
\* signed for it have passed (expireTimedOutSessions).
THEOREM ExpiredStopped == Spec => []ExpiredMeansStopped
  <1>1. IInv => ExpiredMeansStopped
    <2> SUFFICES ASSUME IInv, NEW s \in Sessions, session[s].status = "EXPIRED"
                 PROVE  session[s].timeoutAt <= now /\ session[s].lease <= now
      BY DEF ExpiredMeansStopped
    <2>1. RowOK(session[s], now) /\ now \in Time
      BY DEF IInv, TypeOK, DataOK, RowsOK
    <2> QED BY <2>1, TimingAssumption DEF RowOK, SessionRow, Time
  <1> QED BY <1>1, Inductive, PTL

\* No item waits for the machine in an ended session (endDepositByOwner,
\* expireTimedOutSessions, ITEM_DETECTED).
THEOREM NoneStranded == Spec => []NoItemStranded
  <1>1. IInv => NoItemStranded
    <2> SUFFICES ASSUME IInv, NEW s \in Sessions, session[s].status \in Terminal,
                        NEW i \in Items, item[i].session = s
                 PROVE  ~Waiting(item[i])
      BY DEF NoItemStranded, undecidedItems, Waiting
    <2>1. ItemOK(item[i], session, now)
      BY DEF IInv, DataOK, ItemsOK
    <2> QED BY <2>1 DEF ItemOK, ItemOn
  <1> QED BY <1>1, Inductive, PTL

\* Nothing accepted after its session's end, or reported after it, is paid
\* without a reviewer (handleAcceptance).
THEOREM LateHeld == Spec => []LateAcceptanceHeld
  <1>1. IInv => LateAcceptanceHeld
    <2> SUFFICES ASSUME IInv, NEW i \in Items, Paid(item[i])
                 PROVE  /\ ~item[i].afterEnd
                        /\ item[i].occurredAt <= sessionEnd(item[i].session)
      BY DEF LateAcceptanceHeld, Paid
    <2>1. ItemOK(item[i], session, now)
      BY DEF IInv, DataOK, ItemsOK
    <2>2. ~item[i].afterEnd
      BY <2>1 DEF ItemOK, AfterEndOK
    <2>3. item[i].session \in Sessions
      BY ItemHasSession DEF Paid
    <2>4. ItemOn(item[i], session[item[i].session], now)
      BY <2>1, <2>3 DEF ItemOK
    <2> QED BY <2>2, <2>4 DEF ItemOn, sessionEnd
  <1> QED BY <1>1, Inductive, PTL

\* At most one session of the machine is active (decideStart, and the index
\* one_active_per_machine behind the unlocked writes).
THEOREM OneAtATime == Spec => []OneLiveSession
  <1>1. IInv => OneLiveSession
    <2> SUFFICES ASSUME IInv PROVE OneLiveSession
      OBVIOUS
    <2> DEFINE A == {s \in Sessions : isActiveSession(s)}
    <2>1. \A s, t \in A : s = t
      BY DEF IInv, DataOK, Unique, isActiveSession
    <2>2. CASE A = {}
      <3>1. Cardinality(A) = 0
        BY <2>2, FS_EmptySet
      <3> QED BY <3>1 DEF OneLiveSession
    <2>3. CASE A # {}
      <3>1. PICK s \in A : TRUE
        BY <2>3
      <3>2. A = {s}
        BY <2>1, <3>1
      <3>3. Cardinality(A) = 1
        BY <3>2, FS_Singleton
      <3> QED BY <3>3 DEF OneLiveSession
    <2> QED BY <2>2, <2>3
  <1> QED BY <1>1, Inductive, PTL

\* One step leaves the deadline of a session in use alone, unless it is an
\* ITEM_DETECTED that finds it active and its deadline not passed.
LEMMA DeadlineStep ==
  ASSUME IInv, [Next]_vars, NEW s \in Sessions, Used(s)
  PROVE  /\ session'[s].timeoutAt >= session[s].timeoutAt
         /\ (PastDeadline(s) \/ session[s].status \in Terminal)
              => session'[s].timeoutAt = session[s].timeoutAt
  <1>0. /\ session \in [Sessions -> SessionRow] /\ session[s] \in SessionRow
        /\ now \in Time /\ session[s].timeoutAt \in Time
    BY DEF IInv, TypeOK, SessionRow
  <1> DEFINE Same == session'[s].timeoutAt = session[s].timeoutAt
  <1>1. SUFFICES Same \/ \E i \in Items, unknown \in BOOLEAN, idle \in IdleTimeouts :
                            itemDetected(s, i, unknown, idle)
    <2>1. CASE Same
      BY <1>0, <2>1, TimingAssumption DEF Time
    <2>2. ASSUME NEW i \in Items, NEW unknown \in BOOLEAN, NEW idle \in IdleTimeouts,
                 itemDetected(s, i, unknown, idle)
          PROVE  /\ session'[s].timeoutAt >= session[s].timeoutAt
                 /\ (PastDeadline(s) \/ session[s].status \in Terminal) => Same
      <3>1. session'[s].timeoutAt = ExtendedDeadline(s, idle)
        BY <1>0, <2>2 DEF itemDetected, SessionRow
      <3>2. \/ ExtendedDeadline(s, idle) = session[s].timeoutAt
            \/ /\ ExtendedDeadline(s, idle) = now + idle
               /\ session[s].timeoutAt < now + idle
               /\ isActiveSession(s) /\ ~PastDeadline(s)
        BY DEF ExtendedDeadline
      <3>3. isActiveSession(s) => session[s].status \notin Terminal
        BY DEF isActiveSession, ActiveStatuses, Terminal
      <3> QED BY <1>0, <3>1, <3>2, <3>3, TimingAssumption DEF Time
    <2> QED BY <2>1, <2>2
  <1>2. \A ids : session' = Expired(ids, now) => Same
    BY <1>0 DEF Expired, SessionRow
  <1>3. CASE session' = session
    BY <1>3
  <1>4. ASSUME NEW t \in Sessions, NEW x, session' = [session EXCEPT ![t].status = x]
        PROVE  Same
    BY <1>0, <1>4 DEF SessionRow
  <1>5. CASE PollStep
    <2>1. CASE issueLease
      <3>1. CASE \E e : session' = [session EXCEPT ![poll.session].lease = e]
        BY <1>0, <3>1 DEF SessionRow
      <3> QED BY <1>3, <2>1, <3>1 DEF issueLease
    <2> QED BY <1>2, <1>3, <1>5, <2>1
            DEF PollStep, pollRead, currentMachineSession, expireTimedOutSessions
  <1>6. ASSUME NEW t \in Sessions, SessionStep(t)
        PROVE  Same \/ \E i \in Items, unknown \in BOOLEAN, idle \in IdleTimeouts :
                          itemDetected(s, i, unknown, idle)
    <2>1. ASSUME NEW idle \in IdleTimeouts, decideStart(t, idle) PROVE Same
      <3>1. s # t
        BY <2>1 DEF decideStart
      <3> QED BY <1>0, <2>1, <3>1 DEF decideStart, Expired, SessionRow
    <2>2. ASSUME NEW action, endDepositByOwner(t, action) PROVE Same
      <3>1. CASE OwnerEnd(t, action)
        BY <1>0, <3>1 DEF OwnerEnd, SessionRow
      <3> QED BY <1>2, <2>2, <3>1 DEF endDepositByOwner, expireTimedOutSessions
    <2>3. ASSUME NEW i \in Items, NEW unknown \in BOOLEAN, NEW idle \in IdleTimeouts,
                 itemDetected(t, i, unknown, idle), t # s
          PROVE  Same
      BY <1>0, <2>3 DEF itemDetected
    <2>4. ASSUME NEW w \in Workers,
                 chamberOpened(w, t) \/ chamberTimeout(w, t) \/ vandalismDetected(w, t)
          PROVE  Same
      BY <1>3, <2>4 DEF chamberOpened, chamberTimeout, vandalismDetected, readUnlocked
    <2>5. CASE safeStateEntered(t)
      BY <1>3, <1>4, <2>5 DEF safeStateEntered
    <2>6. CASE handleCloseWatermark(t)
      BY <1>2, <2>6 DEF handleCloseWatermark, expireTimedOutSessions
    <2> QED BY <1>6, <2>1, <2>2, <2>3, <2>4, <2>5, <2>6 DEF SessionStep
  <1>7. ASSUME NEW i \in Items, ItemStep(i) PROVE Same
    <2>0. item[i] \in ItemRow
      BY DEF IInv, TypeOK
    <2>1. CASE \E w \in Workers : sensorSequence(w, i)
      BY <1>3, <2>1 DEF sensorSequence, readUnlocked
    <2>2. CASE \E occurred \in 0..now, outcome \in ItemStatuses :
                 handleAcceptance(i, occurred, outcome)
      BY <1>4, <2>0, <2>2 DEF handleAcceptance, ItemRow
    <2>3. CASE handleItemRejected(i)
      BY <1>4, <2>0, <2>3 DEF handleItemRejected, ItemRow
    <2>4. CASE holdItemForFraud(i)
      BY <1>3, <1>4, <2>0, <2>4 DEF holdItemForFraud, ItemRow
    <2>5. CASE \E outcome \in ItemStatuses : decideDepositReview(i, outcome)
      BY <1>3, <2>5 DEF decideDepositReview
    <2> QED BY <1>7, <2>1, <2>2, <2>3, <2>4, <2>5 DEF ItemStep
  <1>8. ASSUME NEW w \in Workers, writeUnlocked(w) PROVE Same
    <2>1. worker[w].session \in Sessions
      BY <1>8 DEF writeUnlocked, IInv, PointersOK
    <2> QED BY <1>3, <1>4, <1>8, <2>1 DEF writeUnlocked
  <1>9. CASE Tick \/ UNCHANGED vars
    BY <1>3, <1>9 DEF Tick, vars
  <1> QED BY <1>5, <1>6, <1>7, <1>8, <1>9 DEF Next

\* A deadline only moves later, and not at all once it passed or its session
\* ended (ITEM_DETECTED's extension).
THEOREM DeadlineFrozen == Spec => DeadlineFrozenOncePassed
  <1> DEFINE Frozen == \A s \in Sessions : Used(s) =>
                         /\ session'[s].timeoutAt >= session[s].timeoutAt
                         /\ (PastDeadline(s) \/ session[s].status \in Terminal)
                              => session'[s].timeoutAt = session[s].timeoutAt
  <1>1. IInv /\ [Next]_vars => [Frozen]_vars
    BY DeadlineStep
  <1> QED BY <1>1, Inductive, PTL DEF Spec, DeadlineFrozenOncePassed

=============================================================================
