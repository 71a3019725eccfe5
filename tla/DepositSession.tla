--------------------------- MODULE DepositSession ---------------------------
(***************************************************************************)
(* The deposit sessions of one machine: admission, the machine's lease     *)
(* poll, the timeout policy, the owner's finish or cancel, and the machine *)
(* events that write DepositSession and DepositItem rows                   *)
(* (lib/deposit-session-service.ts, lib/deposit-session-deadline.ts,       *)
(* lib/machine-events/).                                                   *)
(*                                                                         *)
(* Every transaction runs at READ COMMITTED.  One that locks the session   *)
(* row (or the Machine row, which every transaction that ends a session    *)
(* takes) before it reads it is one step.  CHAMBER_OPENED, CHAMBER_TIMEOUT *)
(* and flagAnomaly read the session without a lock and later update it by  *)
(* id: they are two steps, readUnlocked and writeUnlocked, with anything   *)
(* in between.  The lease poll is three steps for the same reason.         *)
(*                                                                         *)
(* Who scans or finishes is left out: a scan on a machine in use writes    *)
(* nothing, whether it answers "resumed" or "busy".  anomalyCount, which   *)
(* no condition reads, is left out too, and Machine.status: a heartbeat    *)
(* may set any status at any time, so a scan may find the machine          *)
(* accepting or not, and a refused scan writes nothing.                    *)
(***************************************************************************)
EXTENDS Naturals, FiniteSets

CONSTANTS
  Sessions,       \* ids of DepositSession rows
  Items,          \* ids of DepositItem rows
  Workers,        \* event transactions that may be between read and write
  IdleTimeouts,   \* values an operator configures for sessionIdleTimeoutMinutes
  LeaseMax,       \* MACHINE_LEASE_MAX_SECONDS
  MaxTime,        \* bound of the server clock
  None            \* a value that is no id

ASSUME TimingAssumption ==
  /\ LeaseMax \in Nat \ {0}
  /\ MaxTime \in Nat
  /\ IdleTimeouts \subseteq Nat \ {0}

ASSUME NoneAssumption == None \notin Sessions \cup Items

VARIABLES
  now,            \* the server's clock
  session,        \* DepositSession rows, indexed by id
  item,           \* DepositItem rows, indexed by id
  worker,         \* unlocked event transactions in flight
  poll            \* the machine's session poll in flight

vars == <<now, session, item, worker, poll>>

Terminal == {"COMPLETED", "CANCELLED", "EXPIRED"}

ActiveStatuses == {"RESERVED", "ACTIVE", "PROCESSING_ITEM", "REVIEW"}

ItemStatuses == {"PENDING", "REVIEW", "ACCEPTED", "REJECTED"}

Reasons == {"none", "UNKNOWN_WASTE_TYPE", "SESSION_CLOSED", "SESSION_TIMEOUT",
            "MACHINE", "REVIEW_APPROVED", "REVIEW_REJECTED"}

Time == 0..MaxTime

Never == MaxTime + 1      \* completedAt IS NULL

NoSession == [status |-> "none", timeoutAt |-> 0, completedAt |-> Never,
              lease |-> 0]

NoItem == [session |-> None, status |-> "none", accepted |-> FALSE,
           reason |-> "none", fraud |-> FALSE, occurredAt |-> 0,
           afterEnd |-> FALSE]

IdleWorker == [session |-> None, item |-> None, next |-> "none"]

IdlePoll == [phase |-> "idle", session |-> None, deadline |-> 0]

(***************************************************************************)
(* Reading the rows                                                        *)
(***************************************************************************)
isActiveSession(s) == session[s].status \in ActiveStatuses

Used(s) == session[s].status # "none"

PastDeadline(s) == session[s].timeoutAt <= now

sessionEnd(s) ==
  IF session[s].completedAt < session[s].timeoutAt
  THEN session[s].completedAt
  ELSE session[s].timeoutAt

undecidedItems(s) ==
  {i \in Items : /\ item[i].session = s
                 /\ item[i].status = "PENDING"
                 /\ ~item[i].accepted}

Undecided(i) == ~item[i].accepted /\ item[i].status \in {"PENDING", "REVIEW"}

isReviewFinal(i) ==
  \/ item[i].status = "ACCEPTED" /\ item[i].reason = "REVIEW_APPROVED"
  \/ item[i].status = "REJECTED" /\ item[i].reason = "REVIEW_REJECTED"

\* SESSION_TRANSITIONS: the edges the event handlers ask for
transitionSession(status, action) ==
  CASE action = "START_ITEM" /\ status = "ACTIVE" -> "PROCESSING_ITEM"
    [] action = "ITEM_DONE" /\ status = "PROCESSING_ITEM" -> "ACTIVE"
    [] action \in {"ANOMALY", "SAFE_STATE"}
         /\ status \in {"ACTIVE", "PROCESSING_ITEM"} -> "REVIEW"
    [] action = "FINISH"
         /\ status \in {"ACTIVE", "PROCESSING_ITEM", "REVIEW"} -> "COMPLETED"
    [] OTHER -> status

\* An item row an unlocked transaction updated stays locked until it commits.
ItemLocked(i) == \E w \in Workers : worker[w].item = i

\* The partial unique index one_active_per_machine admits this active row.
IndexAdmits(s) == \A t \in Sessions \ {s} : ~isActiveSession(t)

\* Mutant: the lease lasts LeaseMax whatever the deadline.
LeaseIgnoringDeadline(deadline, issuedAt) == issuedAt + LeaseMax

machineLeaseExpiry(deadline, issuedAt) ==
  IF deadline < issuedAt + LeaseMax THEN deadline ELSE issuedAt + LeaseMax

(***************************************************************************)
(* The timeout policy, inside the caller's transaction.  Each session is   *)
(* re-read after its lock: it closes only when it is still active and its  *)
(* deadline, read now, is not after the caller's clock.                    *)
(***************************************************************************)
Closing(ids, clock) ==
  {s \in ids : isActiveSession(s) /\ session[s].timeoutAt <= clock}

ItemsOf(ids) == UNION {undecidedItems(s) : s \in ids}

Expired(ids, clock) ==
  [s \in Sessions |->
     IF s \in Closing(ids, clock)
     THEN [session[s] EXCEPT !.status = "EXPIRED", !.completedAt = clock]
     ELSE session[s]]

HeldForReview(ids, clock) ==
  [i \in Items |->
     IF i \in ItemsOf(Closing(ids, clock))
     THEN [item[i] EXCEPT !.status = "REVIEW",
                          !.reason = IF @ = "none" THEN "SESSION_TIMEOUT" ELSE @]
     ELSE item[i]]

\* The item locks the policy waits for.
MayExpire(ids, clock) ==
  \A i \in ItemsOf(Closing(ids, clock)) : ~ItemLocked(i)

expireTimedOutSessions(ids, clock) ==
  /\ MayExpire(ids, clock)
  /\ session' = Expired(ids, clock)
  /\ item' = HeldForReview(ids, clock)

(***************************************************************************)
(* A scan: under the Machine lock, sessions past their deadline are closed *)
(* and, when none stays live, a session is created.  Were a session        *)
(* revived between the read and the insert, the index would refuse the     *)
(* insert and the scan would be decided again.                             *)
(***************************************************************************)
decideStart(s, idle) ==
  /\ ~Used(s)
  /\ now + idle <= MaxTime                     \* bound
  /\ \A t \in Sessions : isActiveSession(t) => PastDeadline(t)
  /\ MayExpire(Sessions, now)
  /\ session' = [Expired(Sessions, now) EXCEPT
                   ![s] = [NoSession EXCEPT !.status = "ACTIVE",
                                            !.timeoutAt = now + idle]]
  /\ item' = HeldForReview(Sessions, now)
  /\ UNCHANGED <<now, worker, poll>>

(***************************************************************************)
(* Finish or cancel by the owner, under User -> Machine -> DepositSession. *)
(* With an undecided item only the timeout policy may end the session.     *)
(***************************************************************************)
OwnerEnd(s, action) ==
  /\ undecidedItems(s) = {}
  /\ session' = [session EXCEPT
                   ![s].status = IF action = "cancel" THEN "CANCELLED"
                                 ELSE transitionSession(@, "FINISH"),
                   ![s].completedAt = now]
  /\ UNCHANGED item

endDepositByOwner(s, action) ==
  /\ isActiveSession(s)
  /\ \/ OwnerEnd(s, action)
     \/ /\ undecidedItems(s) # {}
        /\ PastDeadline(s)
        /\ expireTimedOutSessions({s}, now)
  /\ UNCHANGED <<now, worker, poll>>

(***************************************************************************)
(* The machine's lease poll: read the candidate without a lock, close it   *)
(* through the timeout policy when the deadline read then has passed, read *)
(* it again and sign a lease.                                              *)
(***************************************************************************)
pollRead ==
  /\ poll.phase = "idle"
  /\ \E s \in Sessions :
        /\ isActiveSession(s)
        /\ poll' = [phase |-> "candidate", session |-> s,
                    deadline |-> session[s].timeoutAt]
  /\ UNCHANGED <<now, session, item, worker>>

\* Mutant: the poll leaves a timed-out session to the next scan.
PollWithoutTimeout ==
  /\ poll.phase = "candidate"
  /\ poll' = [poll EXCEPT !.phase = "live", !.deadline = 0]
  /\ UNCHANGED <<now, session, item, worker>>

currentMachineSession ==
  /\ poll.phase = "candidate"
  /\ IF poll.deadline > now
     THEN /\ poll' = [poll EXCEPT !.phase = "live", !.deadline = 0]
          /\ UNCHANGED <<session, item>>
     ELSE /\ expireTimedOutSessions({poll.session}, now)
          /\ poll' = IF Closing({poll.session}, now) = {}
                     THEN [poll EXCEPT !.phase = "live", !.deadline = 0]
                     ELSE IdlePoll
  /\ UNCHANGED <<now, worker>>

issueLease ==
  /\ poll.phase = "live"
  /\ LET s == poll.session
         expiresAt == machineLeaseExpiry(session[s].timeoutAt, now)
     IN  session' = IF isActiveSession(s) /\ expiresAt > now
                    THEN [session EXCEPT ![s].lease = expiresAt] ELSE session
  /\ poll' = IdlePoll
  /\ UNCHANGED <<now, item, worker>>

(***************************************************************************)
(* Machine events that read the session without a lock.  `next' is the     *)
(* status the handler will write, "none" when the status it read asks for  *)
(* no write.                                                               *)
(***************************************************************************)
readUnlocked(w, s, i, next) ==
  /\ worker[w] = IdleWorker
  /\ Used(s)
  /\ worker' = [worker EXCEPT ![w] = [session |-> s, item |-> i, next |-> next]]
  /\ UNCHANGED <<now, session, item, poll>>

chamberOpened(w, s) ==
  /\ session[s].status = "ACTIVE"
  /\ readUnlocked(w, s, None, transitionSession("ACTIVE", "START_ITEM"))

chamberTimeout(w, s) ==
  /\ session[s].status = "PROCESSING_ITEM"
  /\ readUnlocked(w, s, None, transitionSession("PROCESSING_ITEM", "ITEM_DONE"))

AnomalyStatus(s) ==
  IF isActiveSession(s) THEN transitionSession(session[s].status, "ANOMALY")
  ELSE "none"

\* VANDALISM_DETECTED, or FRAUD_DETECTED that names no item
vandalismDetected(w, s) ==
  /\ isActiveSession(s)
  /\ readUnlocked(w, s, None, AnomalyStatus(s))

\* SENSOR_SEQUENCE updates (and so locks) the item, then flags the session.
sensorSequence(w, i) ==
  /\ item[i].session # None
  /\ ~ItemLocked(i)
  /\ readUnlocked(w, item[i].session, i, AnomalyStatus(item[i].session))

FlaggedItem(i) ==
  [item EXCEPT ![i].status = "REVIEW",
               ![i].reason = IF @ = "none" THEN "MACHINE" ELSE @]

\* The update by id, and the item's: both or, refused by the index, neither.
writeUnlocked(w) ==
  LET s == worker[w].session
      i == worker[w].item
      next == worker[w].next
      admitted == next = "none" \/ IndexAdmits(s)
  IN  /\ worker[w] # IdleWorker
      /\ session' = IF next # "none" /\ admitted
                    THEN [session EXCEPT ![s].status = next] ELSE session
      /\ item' = IF admitted /\ i # None /\ Undecided(i)
                 THEN FlaggedItem(i) ELSE item
      /\ worker' = [worker EXCEPT ![w] = IdleWorker]
      /\ UNCHANGED <<now, poll>>

(***************************************************************************)
(* Machine events under the session lock, or the Machine row's.            *)
(***************************************************************************)
\* Mutant: an item reported after the session's end waits for the machine.
DetectedIgnoringEnd(closed, unknown) == IF unknown THEN "REVIEW" ELSE "PENDING"

DetectedStatus(closed, unknown) == IF unknown \/ closed THEN "REVIEW" ELSE "PENDING"

DetectedReason(closed, unknown) ==
  IF unknown THEN "UNKNOWN_WASTE_TYPE"
  ELSE IF closed THEN "SESSION_CLOSED" ELSE "none"

\* The deadline ITEM_DETECTED leaves: only later, and only before it passed
ExtendedDeadline(s, idle) ==
  IF isActiveSession(s) /\ ~PastDeadline(s) /\ session[s].timeoutAt < now + idle
  THEN now + idle ELSE session[s].timeoutAt

\* `idle' was read with the machine, before the transaction.
itemDetected(s, i, unknown, idle) ==
  LET closed == session[s].status \in Terminal IN
  /\ Used(s)
  /\ item[i] = NoItem
  /\ now + idle <= MaxTime                     \* bound
  /\ session' = [session EXCEPT
                   ![s].timeoutAt = ExtendedDeadline(s, idle),
                   ![s].status = IF @ = "ACTIVE" /\ ~PastDeadline(s)
                                 THEN "PROCESSING_ITEM" ELSE @]
  /\ item' = [item EXCEPT
                ![i] = [NoItem EXCEPT !.session = s,
                                      !.status = DetectedStatus(closed, unknown),
                                      !.reason = DetectedReason(closed, unknown),
                                      !.afterEnd = closed]]
  /\ UNCHANGED <<now, worker, poll>>

\* Mutant: only the deadline counts as the session's end.
LateByDeadline(i, occurred) ==
  \/ item[i].reason = "SESSION_CLOSED"
  \/ occurred > session[item[i].session].timeoutAt

\* An acceptance made at `occurred' came after the session's end.
Late(i, occurred) ==
  \/ item[i].reason = "SESSION_CLOSED"
  \/ occurred > sessionEnd(item[i].session)

\* The statuses decideReward can return; the weight and the material decide.
Outcomes(i, occurred) ==
  {"REJECTED", "REVIEW"} \cup
    (IF \/ Late(i, occurred)
        \/ item[i].fraud
        \/ item[i].reason = "UNKNOWN_WASTE_TYPE"
        \/ session[item[i].session].status = "REVIEW"
     THEN {} ELSE {"ACCEPTED"})

AcceptanceReason(i, occurred, outcome) ==
  IF outcome # "REVIEW" THEN "MACHINE"
  ELSE IF item[i].reason \in {"UNKNOWN_WASTE_TYPE", "SESSION_CLOSED"} THEN item[i].reason
  ELSE IF Late(i, occurred) THEN "SESSION_TIMEOUT" ELSE "MACHINE"

\* Session status after an item is decided
AfterItem(status, outcome) ==
  IF status # "PROCESSING_ITEM" THEN status
  ELSE transitionSession(status, IF outcome = "REVIEW" THEN "ANOMALY" ELSE "ITEM_DONE")

handleAcceptance(i, occurred, outcome) ==
  /\ item[i].session # None
  /\ ~ItemLocked(i)
  /\ Undecided(i)
  /\ outcome \in Outcomes(i, occurred)
  /\ item' = [item EXCEPT ![i].status = outcome,
                          ![i].reason = AcceptanceReason(i, occurred, outcome),
                          ![i].accepted = TRUE,
                          ![i].occurredAt = IF outcome = "ACCEPTED" THEN occurred ELSE 0]
  /\ session' = [session EXCEPT ![item[i].session].status = AfterItem(@, outcome)]
  /\ UNCHANGED <<now, worker, poll>>

handleItemRejected(i) ==
  /\ item[i].session # None
  /\ ~ItemLocked(i)
  /\ session' = [session EXCEPT ![item[i].session].status = AfterItem(@, "REJECTED")]
  /\ item' = IF Undecided(i)
             THEN [item EXCEPT ![i].status = "REJECTED", ![i].reason = "MACHINE"]
             ELSE item
  /\ UNCHANGED <<now, worker, poll>>

\* FRAUD_DETECTED with an item: the hold, then the flag, under the same locks
holdItemForFraud(i) ==
  LET s == item[i].session IN
  /\ s # None
  /\ ~ItemLocked(i)
  /\ item' = IF item[i].status = "REJECTED" \/ isReviewFinal(i)
             THEN [item EXCEPT ![i].fraud = TRUE]
             ELSE [item EXCEPT ![i].fraud = TRUE,
                               ![i].reason = IF item[i].status = "REVIEW" THEN @ ELSE "MACHINE",
                               ![i].status = "REVIEW"]
  /\ session' = IF isActiveSession(s)
                THEN [session EXCEPT ![s].status = AnomalyStatus(s)] ELSE session
  /\ UNCHANGED <<now, worker, poll>>

\* The update of Machine.status locks the row every ending of a session takes.
safeStateEntered(s) ==
  /\ Used(s)
  /\ session' = IF isActiveSession(s)
                THEN [session EXCEPT ![s].status = transitionSession(@, "SAFE_STATE")]
                ELSE session
  /\ UNCHANGED <<now, item, worker, poll>>

\* SESSION_CLOSE_WATERMARK: a session still open at its deadline is closed
\* first; one open before its deadline is refused.  The confirmation itself
\* and the money it releases are in RewardFunding.
handleCloseWatermark(s) ==
  /\ isActiveSession(s)
  /\ PastDeadline(s)
  /\ expireTimedOutSessions({s}, now)
  /\ UNCHANGED <<now, worker, poll>>

(***************************************************************************)
(* A reviewer approves only what passed the acceptance point, and rejects  *)
(* anything in review.                                                     *)
(***************************************************************************)
decideDepositReview(i, outcome) ==
  /\ item[i].status = "REVIEW"
  /\ ~ItemLocked(i)
  /\ \/ /\ outcome = "ACCEPTED"
        /\ item[i].accepted
        /\ item' = [item EXCEPT ![i].status = "ACCEPTED",
                                ![i].reason = "REVIEW_APPROVED",
                                ![i].fraud = FALSE]
     \/ /\ outcome = "REJECTED"
        /\ item' = [item EXCEPT ![i].status = "REJECTED",
                                ![i].reason = "REVIEW_REJECTED"]
  /\ UNCHANGED <<now, session, worker, poll>>

Tick ==
  /\ now < MaxTime
  /\ now' = now + 1
  /\ UNCHANGED <<session, item, worker, poll>>

Init ==
  /\ now = 0
  /\ session = [s \in Sessions |-> NoSession]
  /\ item = [i \in Items |-> NoItem]
  /\ worker = [w \in Workers |-> IdleWorker]
  /\ poll = IdlePoll

SessionStep(s) ==
  \/ \E idle \in IdleTimeouts : decideStart(s, idle)
  \/ \E action \in {"finish", "cancel"} : endDepositByOwner(s, action)
  \/ \E i \in Items, unknown \in BOOLEAN, idle \in IdleTimeouts :
        itemDetected(s, i, unknown, idle)
  \/ \E w \in Workers : chamberOpened(w, s)
  \/ \E w \in Workers : chamberTimeout(w, s)
  \/ \E w \in Workers : vandalismDetected(w, s)
  \/ safeStateEntered(s)
  \/ handleCloseWatermark(s)

ItemStep(i) ==
  \/ \E w \in Workers : sensorSequence(w, i)
  \/ \E occurred \in 0..now, outcome \in ItemStatuses :
        handleAcceptance(i, occurred, outcome)
  \/ handleItemRejected(i)
  \/ holdItemForFraud(i)
  \/ \E outcome \in ItemStatuses : decideDepositReview(i, outcome)

PollStep == pollRead \/ currentMachineSession \/ issueLease

Next ==
  \/ Tick
  \/ PollStep
  \/ \E w \in Workers : writeUnlocked(w)
  \/ \E s \in Sessions : SessionStep(s)
  \/ \E i \in Items : ItemStep(i)

Spec == Init /\ [][Next]_vars

(***************************************************************************)
(* Fairness: time passes, the machine polls every two seconds              *)
(* (rvm/controller.py) and an event transaction that began commits.        *)
(* Nothing is assumed of owners, reviewers or further events.              *)
(***************************************************************************)
FairSpec ==
  /\ Spec
  /\ WF_now(Tick)
  /\ WF_vars(pollRead)
  /\ WF_vars(currentMachineSession)
  /\ WF_vars(issueLease)
  /\ \A w \in Workers : WF_vars(writeUnlocked(w))

-----------------------------------------------------------------------------
(***************************************************************************)
(* Properties                                                              *)
(***************************************************************************)

SessionRow ==
  [status : {"none"} \cup ActiveStatuses \cup Terminal, timeoutAt : Time,
   completedAt : Time \cup {Never}, lease : 0..(MaxTime + LeaseMax)]

ItemRow ==
  [session : Sessions \cup {None}, status : {"none"} \cup ItemStatuses,
   accepted : BOOLEAN, reason : Reasons, fraud : BOOLEAN,
   occurredAt : Time, afterEnd : BOOLEAN]

\* Every row holds values of its columns' types (DepositSession, DepositItem).
TypeOK ==
  /\ now \in Time
  /\ session \in [Sessions -> SessionRow]
  /\ item \in [Items -> ItemRow]
  /\ worker \in [Workers ->
       [session : Sessions \cup {None}, item : Items \cup {None},
        next : {"none"} \cup ActiveStatuses]]
  /\ poll \in [phase : {"idle", "candidate", "live"},
               session : Sessions \cup {None}, deadline : Time]

\* No lease signed for a session (issueLease, machineLeaseExpiry) is valid
\* after the session's deadline, whatever polls and extensions interleave.
LeaseWithinDeadline == \A s \in Sessions : session[s].lease <= session[s].timeoutAt

\* A session the timeout policy closed (expireTimedOutSessions) is past the
\* deadline it has now, so every lease ever signed for it has expired: the
\* machine no longer runs what the server closed.
ExpiredMeansStopped ==
  \A s \in Sessions : session[s].status = "EXPIRED" =>
    /\ session[s].timeoutAt <= now
    /\ session[s].lease <= now

\* One session at a time runs on the machine: a scan under the Machine lock
\* admits none beside a live one, and an unlocked event cannot bring an ended
\* one back beside the next (decideStart, the index one_active_per_machine).
OneLiveSession == Cardinality({s \in Sessions : isActiveSession(s)}) <= 1

\* A deadline only moves later (ITEM_DETECTED), and not at all once it passed
\* or once the session ended.
DeadlineFrozenOncePassed ==
  [][\A s \in Sessions : Used(s) =>
       /\ session'[s].timeoutAt >= session[s].timeoutAt
       /\ (PastDeadline(s) \/ session[s].status \in Terminal)
            => session'[s].timeoutAt = session[s].timeoutAt]_vars

\* No item waits for the machine in a session that ended: what was undecided
\* when the session was closed, or reported afterwards, is in the review queue
\* (endDepositByOwner, expireTimedOutSessions, ITEM_DETECTED).
NoItemStranded ==
  \A s \in Sessions : session[s].status \in Terminal => undecidedItems(s) = {}

\* What the machine accepts after the session's end (deadline, or an earlier
\* finish, cancel or timeout), or reported after it, is never paid without a
\* reviewer: handleAcceptance holds it.
LateAcceptanceHeld ==
  \A i \in Items :
    item[i].status = "ACCEPTED" /\ item[i].reason # "REVIEW_APPROVED" =>
      /\ ~item[i].afterEnd
      /\ item[i].occurredAt <= sessionEnd(item[i].session)

\* A session never holds the machine forever: once time passes and the machine
\* polls, every active session ends, even one whose item is never decided.
MachineReleased ==
  \A s \in Sessions : isActiveSession(s) ~> ~isActiveSession(s)

\* "no late machine event can ... revive the session"
\* (lib/deposit-session-deadline.ts, sessionDeadline): an ended session stays
\* ended.  Violated by an unlocked event transaction that read the session
\* before the owner ended it (side-effects.ts CHAMBER_OPENED, flagAnomaly).
EndedStaysEnded ==
  [][\A s \in Sessions :
       session[s].status \in Terminal => session'[s].status \in Terminal]_vars

=============================================================================
