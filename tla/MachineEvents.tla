--------------------------- MODULE MachineEvents ---------------------------
(***************************************************************************)
(* The delivery of one machine's events: the SQLite outbox of the RVM      *)
(* (rvm/database.py), its flushes (rvm/sync.py), the session bridge that   *)
(* closes sessions locally (rvm/controller.py), the batch handler and the  *)
(* idempotent ingestion of the server (app/api/machine-events/route.ts,    *)
(* lib/machine-events/ingest.ts) and the close watermark that releases a   *)
(* session's money (lib/machine-events/watermark.ts).                      *)
(*                                                                         *)
(* An outbox row is named by its position, which stands for its            *)
(* localEventId.  Each SQLite call and each ingest transaction is one      *)
(* step; a flush is one at a time in the sync thread, but the maintenance  *)
(* command starts others beside it, so any free request may be flushed.    *)
(* What an event does to items and money is DepositSession's and           *)
(* RewardFunding's; here an event only counts.  Left out: a server that    *)
(* lost its database (orphaned references) and legacy machines with two    *)
(* live sessions (sessionConflict).                                        *)
(***************************************************************************)
EXTENDS Naturals, Sequences, FiniteSets

CONSTANTS
  Sessions,           \* deposit sessions of the machine
  NoSession,          \* an event or a poll answer without a session
  NoAnswer,           \* no session poll in flight
  Requests,           \* HTTP requests a flush may have in progress
  BatchSize,          \* config.batch_size
  MaxServerFailures,  \* MAX_SERVER_FAILURES
  MaxEvents,          \* bound: events of sessions
  MaxPlain,           \* bound: events without a session
  Faults,             \* bound: the kinds of fault, of FaultKinds, that happen
  MaxFaults           \* bound: how many do

\* A timeout or lost answer, a refused batch, a restart, an operator's retry.
FaultKinds == {"lost", "refused", "restart", "retry"}

ASSUME ConstantsAssumption ==
  /\ NoSession \notin Sessions /\ NoAnswer \notin Sessions \cup {NoSession}
  /\ IsFiniteSet(Sessions)
  /\ BatchSize \in Nat \ {0} /\ MaxServerFailures \in Nat \ {0}
  /\ MaxEvents \in Nat /\ MaxPlain \in Nat /\ MaxFaults \in Nat
  /\ Faults \subseteq FaultKinds

VARIABLES
  outbox,    \* the machine's outbox table, in id order
  lease,     \* session of the machine's valid lease
  row,       \* session_consumption: does it exist, closed_at, watermark_event_id
  answer,    \* what a session poll in flight will say
  isolating, \* one event per batch (_isolate_until)
  req,       \* requests in progress, machine and server side
  status,    \* DepositSession.status on the server
  stored,    \* the events with a MachineEvent row
  repeated,  \* history: events whose effects were applied again
  watermark, \* DepositSession.closeWatermarkAt is set
  refusals,  \* history: errors the server answered for the event itself
  faults     \* faults so far

machineVars == <<outbox, lease, row, answer, isolating>>
serverVars == <<status, stored, repeated, watermark, refusals>>
vars == <<machineVars, serverVars, req, faults>>

-----------------------------------------------------------------------------
Ids == 1 .. (MaxEvents + MaxPlain + Cardinality(Sessions))

Results == {"ack", "held", "transient", "permanent"}

Rows == [session  : Sessions \cup {NoSession},
         kind     : {"event", "watermark"},
         status   : {"pending", "sent", "dead_letter"},
         due      : BOOLEAN,                 \* next_attempt_at <= now
         failures : 0 .. MaxServerFailures,  \* server_failures
         limit    : BOOLEAN,                 \* last_error LIKE 'RETRY_LIMIT:%'
         count    : Nat,                     \* watermark: eventCount
         last     : Nat]                     \* watermark: lastLocalEventId, or 0

NewRow(s, kind, count, last) ==
  [session |-> s, kind |-> kind, status |-> "pending", due |-> TRUE,
   failures |-> 0, limit |-> FALSE, count |-> count, last |-> last]

Idle == [phase |-> "idle", rows |-> {}, dups |-> {}, held |-> {},
         res |-> {}, waiting |-> FALSE, racing |-> FALSE]

Phases == {"idle", "marked", "sent", "serving", "answered", "acked"}

RequestRows ==
  [phase : Phases, rows : SUBSET Nat, dups : SUBSET Nat, held : SUBSET Sessions,
   res : SUBSET (Nat \X Results), waiting : BOOLEAN, racing : BOOLEAN]

EventsOf(s) == {i \in DOMAIN outbox : outbox[i].session = s /\ outbox[i].kind = "event"}

Init ==
  /\ outbox = << >> /\ lease = NoSession /\ answer = NoAnswer /\ isolating = FALSE
  /\ row = [s \in Sessions |-> [known |-> FALSE, closed |-> FALSE, mark |-> 0]]
  /\ req = [r \in Requests |-> Idle]
  /\ status = [s \in Sessions |-> "none"]
  /\ stored = {} /\ repeated = {} /\ refusals = {}
  /\ watermark = [s \in Sessions |-> FALSE]
  /\ faults = 0

-----------------------------------------------------------------------------
(***************************************************************************)
(* The server's sessions, as far as the delivery depends on them.          *)
(***************************************************************************)
\* A scan: one session at a time runs on the machine.
sessionStarts(s) ==
  /\ status[s] = "none" /\ \A t \in Sessions : status[t] # "live"
  /\ status' = [status EXCEPT ![s] = "live"]
  /\ UNCHANGED <<machineVars, req, stored, repeated, watermark, refusals, faults>>

\* The event whose transaction request r is running: the first unanswered one.
Unanswered(r) == {i \in req[r].rows : \A k \in Results : <<i, k>> \notin req[r].res}
Current(r) == CHOOSE i \in Unanswered(r) : \A j \in Unanswered(r) : i <= j

\* Finish, cancel, timeout or deadline: a passed deadline never moves, and
\* every poll and watermark after it ends the session before it answers.  An
\* event transaction that read the session before may still write its active
\* status over the end.
sessionEnds(s) ==
  /\ status[s] = "live"
  /\ status' = [status EXCEPT ![s] = "ended"]
  /\ req' = [r \in Requests |->
       IF req[r].phase = "serving" /\ outbox[Current(r)].session = s
       THEN [req[r] EXCEPT !.racing = TRUE] ELSE req[r]]
  /\ UNCHANGED <<machineVars, stored, repeated, watermark, refusals, faults>>

-----------------------------------------------------------------------------
(***************************************************************************)
(* The controller: session bridge and events.                              *)
(***************************************************************************)
\* The answer is read on the server and applied later, under the controller
\* lock.
fetch_machine_session ==
  /\ answer = NoAnswer
  /\ \/ \E s \in Sessions : status[s] = "live" /\ answer' = s
     \/ /\ \A s \in Sessions : status[s] # "live"
        /\ answer' = NoSession
  /\ UNCHANGED <<outbox, lease, row, isolating, serverVars, req, faults>>

\* The counter row; a session closed locally and not watermarked runs again.
ensure_session(rw, s) ==
  [rw EXCEPT ![s].known = TRUE,
             ![s].closed = @ /\ rw[s].mark # 0]

\* Mutant: a session is closed only when another one takes its place.
ClosedWhenReplaced(rw, s) ==
  [t \in Sessions |-> IF rw[t].known /\ s \notin {t, NoSession}
                      THEN [rw[t] EXCEPT !.closed = TRUE] ELSE rw[t]]

\* Every running session other than the server's current one is closed.
close_sessions_except(rw, s) ==
  [t \in Sessions |-> IF rw[t].known /\ t # s THEN [rw[t] EXCEPT !.closed = TRUE] ELSE rw[t]]

Fault(kind) == kind \in Faults /\ faults < MaxFaults /\ faults' = faults + 1

\* The controller appends one event, below the bounds.
Emitted(s) ==
  /\ IF s = NoSession THEN Cardinality(EventsOf(NoSession)) < MaxPlain
     ELSE Cardinality(UNION {EventsOf(t) : t \in Sessions}) < MaxEvents
  /\ outbox' = Append(outbox, NewRow(s, "event", 0, 0))

\* The start of a leased session: with the gate opened it reports the chamber,
\* with the signed bound used up the gate stays shut.
activate_lease(s) ==
  /\ lease' = s
  /\ row' = close_sessions_except(ensure_session(row, s), s)
  /\ Emitted(s) \/ UNCHANGED outbox

\* Interlocks, a failed stop or an expired lease refuse an activation.
_poll_server_session ==
  /\ answer # NoAnswer /\ answer' = NoAnswer
  /\ \/ /\ answer \in {NoSession, lease}
        /\ lease' = answer
        /\ row' = close_sessions_except(row, answer)
        /\ UNCHANGED outbox
     \/ /\ answer \in Sessions \ {lease}
        /\ \/ activate_lease(answer)
           \/ /\ lease' = NoSession
              /\ row' = close_sessions_except(row, answer)
              /\ UNCHANGED outbox
  /\ UNCHANGED <<isolating, serverVars, req, faults>>

\* The machine's own clock ends the lease; the session is not closed by it.
_expire_lease ==
  /\ lease # NoSession /\ lease' = NoSession
  /\ UNCHANGED <<outbox, row, answer, isolating, serverVars, req, faults>>

\* An event carries the session of the valid lease, or none (heartbeats, and
\* whatever happens without one).
emit ==
  /\ \E s \in {lease, NoSession} : Emitted(s)
  /\ UNCHANGED <<lease, row, answer, isolating, serverVars, req, faults>>

-----------------------------------------------------------------------------
(***************************************************************************)
(* A flush on the machine: queue the watermarks, read what is due, send,   *)
(* and apply the answer.                                                   *)
(***************************************************************************)
WithStatus(s, st) == {i \in EventsOf(s) : outbox[i].status = st}

\* Mutant: dead letters do not keep a closed session from its watermark.
ReadyDespiteDeadLetters ==
  {s \in Sessions : row[s].closed /\ row[s].mark = 0 /\ WithStatus(s, "pending") = {}}

\* Closed sessions without a watermark, all of whose events are acknowledged.
Ready ==
  {s \in Sessions : /\ row[s].closed /\ row[s].mark = 0
                    /\ WithStatus(s, "pending") = {} /\ WithStatus(s, "dead_letter") = {}}

LastSent(s) ==
  IF WithStatus(s, "sent") = {} THEN 0
  ELSE CHOOSE i \in WithStatus(s, "sent") : \A j \in WithStatus(s, "sent") : j <= i

\* One watermark for each ready session, after everything it counts.
enqueue_close_watermarks ==
  \E order \in [1 .. Cardinality(Ready) -> Ready] :
    /\ \A s \in Ready : \E k \in DOMAIN order : order[k] = s
    /\ outbox' = outbox \o [k \in DOMAIN order |->
         NewRow(order[k], "watermark", Cardinality(WithStatus(order[k], "sent")), LastSent(order[k]))]
    /\ row' = [s \in Sessions |->
         IF s \in Ready
         THEN [row[s] EXCEPT !.mark = Len(outbox) + (CHOOSE k \in DOMAIN order : order[k] = s)]
         ELSE row[s]]

flush_once(r) ==
  /\ req[r].phase = "idle"
  /\ enqueue_close_watermarks
  /\ req' = [req EXCEPT ![r].phase = "marked"]
  /\ UNCHANGED <<lease, answer, isolating, serverVars, faults>>

Earlier(i) == {e \in DOMAIN outbox : e < i /\ outbox[e].session = outbox[i].session}

\* Due events no earlier event of the session holds back.
Due ==
  {i \in DOMAIN outbox :
     /\ outbox[i].status = "pending" /\ outbox[i].due
     /\ outbox[i].session # NoSession =>
          \A e \in Earlier(i) :
            /\ ~(outbox[e].status = "pending" /\ ~outbox[e].due)
            /\ ~(outbox[e].status = "dead_letter" /\ outbox[e].limit)}

\* The first `limit' of them, in id order.
pending(limit) == {i \in Due : Cardinality({j \in Due : j < i}) < limit}

sendBatch(r) ==
  /\ req[r].phase = "marked"
  /\ LET rows == pending(IF isolating THEN 1 ELSE BatchSize)
     IN req' = [req EXCEPT ![r] =
          IF rows = {} THEN Idle
          ELSE [Idle EXCEPT !.phase = "sent", !.rows = rows, !.waiting = TRUE]]
  /\ UNCHANGED <<machineVars, serverVars, faults>>

mark_sent(rw) == [rw EXCEPT !.status = "sent", !.limit = FALSE]

mark_dead_letter(rw) == [rw EXCEPT !.status = "dead_letter", !.limit = FALSE]

\* Back off, or dead-letter at the limit of errors the server reported.
mark_failed(rw, server_failure) ==
  LET failures == rw.failures + (IF server_failure THEN 1 ELSE 0)
  IN IF failures >= MaxServerFailures
     THEN [rw EXCEPT !.status = "dead_letter", !.failures = failures, !.limit = TRUE]
     ELSE [rw EXCEPT !.due = FALSE, !.failures = failures, !.limit = FALSE]

\* Answers and failures move only rows that are still pending.
Acked(ids) ==
  [i \in DOMAIN outbox |->
     IF i \in ids /\ outbox[i].status = "pending" THEN mark_sent(outbox[i]) ELSE outbox[i]]

BackedOff(ids) ==
  [i \in DOMAIN outbox |->
     IF i \in ids /\ outbox[i].status = "pending" THEN mark_failed(outbox[i], FALSE) ELSE outbox[i]]

Answered(r, kind) == {i \in req[r].rows : <<i, kind>> \in req[r].res}

\* Mutant: a transient error is acknowledged like a duplicate.
AckTransient(r) ==
  /\ req[r].phase = "answered" /\ req[r].waiting
  /\ outbox' = Acked(Answered(r, "ack") \cup Answered(r, "transient"))
  /\ req' = [req EXCEPT ![r].phase = "acked"]
  /\ UNCHANGED <<lease, row, answer, isolating, serverVars, faults>>

\* Accepted and duplicate events are acknowledged first ...
apply_event_results(r) ==
  /\ req[r].phase = "answered" /\ req[r].waiting
  /\ outbox' = Acked(Answered(r, "ack"))
  /\ req' = [req EXCEPT ![r].phase = "acked"]
  /\ UNCHANGED <<lease, row, answer, isolating, serverVars, faults>>

\* ... then the permanent refusals are set aside and the others back off: calls
\* on different rows, taken as one step.
applyFailures(r) ==
  LET Applied(i) ==
        IF i \in Answered(r, "permanent") THEN mark_dead_letter(outbox[i])
        ELSE IF i \in Answered(r, "held") THEN mark_failed(outbox[i], FALSE)
        ELSE IF i \in Answered(r, "transient") THEN mark_failed(outbox[i], TRUE)
        ELSE outbox[i]
  IN /\ req[r].phase = "acked"
     /\ outbox' = [i \in DOMAIN outbox |->
          IF outbox[i].status = "pending" THEN Applied(i) ELSE outbox[i]]
     /\ req' = [req EXCEPT ![r] = Idle]
     /\ UNCHANGED <<lease, row, answer, isolating, serverVars, faults>>

\* A timeout, a broken connection, an answer that cannot be read or trusted,
\* or an HTTP error: every event of the batch backs off.  The request may have
\* been lost, or the server goes on with it.
giveUp(r) ==
  /\ req[r].waiting /\ req[r].phase # "acked" /\ Fault("lost")
  /\ outbox' = BackedOff(req[r].rows)
  /\ \/ /\ req[r].phase \in {"sent", "answered"}
        /\ req' = [req EXCEPT ![r] = Idle]
     \/ /\ req[r].phase \in {"sent", "serving"}
        /\ req' = [req EXCEPT ![r].waiting = FALSE]
  /\ UNCHANGED <<lease, row, answer, isolating, serverVars>>

\* The server refuses the whole envelope (400, 413, 422) before reading events.
_reject_batch(r) ==
  /\ req[r].phase = "sent" /\ req[r].waiting /\ Fault("refused")
  /\ isolating' = (isolating \/ Cardinality(req[r].rows) > 1)
  /\ outbox' = BackedOff(req[r].rows)
  /\ req' = [req EXCEPT ![r] = Idle]
  /\ UNCHANGED <<lease, row, answer, serverVars>>

\* retry_delay is over.
backoffOver(i) ==
  /\ i \in DOMAIN outbox /\ outbox[i].status = "pending" /\ ~outbox[i].due
  /\ outbox' = [outbox EXCEPT ![i].due = TRUE]
  /\ UNCHANGED <<lease, row, answer, isolating, serverVars, req, faults>>

isolationOver ==
  /\ isolating /\ isolating' = FALSE
  /\ UNCHANGED <<outbox, lease, row, answer, serverVars, req, faults>>

\* The operator's maintenance command, for all dead letters or some of them.
retry_dead_letters ==
  /\ Fault("retry")
  /\ \E ids \in SUBSET {i \in DOMAIN outbox : outbox[i].status = "dead_letter"} :
       /\ ids # {}
       /\ outbox' = [i \in DOMAIN outbox |->
            IF i \in ids THEN [outbox[i] EXCEPT !.status = "pending", !.due = TRUE, !.failures = 0]
            ELSE outbox[i]]
  /\ UNCHANGED <<lease, row, answer, isolating, serverVars, req>>

\* The machine stops at any point.  SQLite keeps the outbox, the leases and the
\* session rows; the server goes on with what it received.
restart ==
  /\ Fault("restart")
  /\ answer' = NoAnswer /\ isolating' = FALSE
  /\ req' = [r \in Requests |->
       IF req[r].phase \in {"sent", "serving"} THEN [req[r] EXCEPT !.waiting = FALSE] ELSE Idle]
  /\ UNCHANGED <<outbox, lease, row, serverVars>>

-----------------------------------------------------------------------------
(***************************************************************************)
(* The batch handler: the events already stored are looked up once, then   *)
(* each event is ingested in its own transaction, in order.                *)
(***************************************************************************)
arrive(r) ==
  /\ req[r].phase = "sent"
  /\ req' = [req EXCEPT ![r].phase = "serving",
                        ![r].dups = req[r].rows \cap stored]
  /\ UNCHANGED <<machineVars, serverVars, faults>>

\* The result of the current event; after the last one the response is sent,
\* to a machine that may no longer wait for it.
Respond(r, kind, held) ==
  LET i == Current(r)
      q == [req[r] EXCEPT !.res = @ \cup {<<i, kind>>},
                          !.held = @ \cup held, !.racing = FALSE]
  IN req' = [req EXCEPT ![r] =
       CASE Unanswered(r) # {i} -> q
         [] Unanswered(r) = {i} /\ q.waiting -> [q EXCEPT !.phase = "answered"]
         [] OTHER -> Idle]

SessionHeld(r) == outbox[Current(r)].session \in req[r].held

duplicate(r) ==
  /\ req[r].phase = "serving"
  /\ \/ Current(r) \in req[r].dups
     \/ ~SessionHeld(r) /\ Current(r) \in stored
  /\ Respond(r, "ack", {})
  /\ UNCHANGED <<machineVars, serverVars, faults>>

\* An event waits for an earlier one of its session that failed in this batch.
hold(r) ==
  /\ req[r].phase = "serving" /\ Current(r) \notin req[r].dups /\ SessionHeld(r)
  /\ Respond(r, "held", {})
  /\ UNCHANGED <<machineVars, serverVars, faults>>

\* Mutant: only the batch's own lookup finds duplicates.
IngestingUnchecked(r) ==
  /\ req[r].phase = "serving" /\ Current(r) \notin req[r].dups /\ ~SessionHeld(r)

\* The event is new: neither the lookup of ingestMachineEvent nor the unique
\* index on (machineId, localEventId) finds a row.
Ingesting(r) ==
  /\ req[r].phase = "serving" /\ Current(r) \notin req[r].dups /\ ~SessionHeld(r)
  /\ Current(r) \notin stored

SessionOf(r) == outbox[Current(r)].session

\* Mutant: a failed event does not hold its session.
TransientWithoutHold(r) ==
  /\ Ingesting(r)
  /\ refusals' = refusals \cup {<<Current(r), "transient">>}
  /\ Respond(r, "transient", {})
  /\ UNCHANGED <<machineVars, status, stored, repeated, watermark, faults>>

\* Contention, a lost database or an unclassified error rolls the event back.
failTransient(r) ==
  /\ Ingesting(r)
  /\ refusals' = refusals \cup {<<Current(r), "transient">>}
  /\ Respond(r, "transient", {SessionOf(r)} \ {NoSession})
  /\ UNCHANGED <<machineVars, status, stored, repeated, watermark, faults>>

Refused(r) ==
  /\ refusals' = refusals \cup {<<Current(r), "permanent">>}
  /\ Respond(r, "permanent", {})

\* A rule or the data refuse the event for good.
failPermanent(r) ==
  /\ Ingesting(r) /\ Refused(r)
  /\ UNCHANGED <<machineVars, status, stored, repeated, watermark, faults>>

Accepted(r) ==
  /\ stored' = stored \cup {Current(r)}
  /\ repeated' = repeated \cup ({Current(r)} \cap stored)
  /\ Respond(r, "ack", {})

\* The event and its effects commit.  A status event that read its session
\* before the end may write the active status over it.
ingestMachineEvent(r) ==
  /\ Ingesting(r) /\ outbox[Current(r)].kind = "event"
  /\ Accepted(r)
  /\ \/ UNCHANGED status
     \/ /\ req[r].racing /\ \A s \in Sessions : status[s] # "live"
        /\ status' = [status EXCEPT ![SessionOf(r)] = "live"]
  /\ UNCHANGED <<machineVars, watermark, refusals, faults>>

StoredOf(s) == EventsOf(s) \cap stored

\* The server holds at least what the machine counted, and the last event.
Confirmed(i) ==
  /\ Cardinality(StoredOf(outbox[i].session)) >= outbox[i].count
  /\ outbox[i].last = 0 \/ outbox[i].last \in StoredOf(outbox[i].session)

\* A repeated confirmation changes nothing; a session that still runs is a
\* transient failure (failTransient), a count not confirmed a permanent one.
handleCloseWatermark(r) ==
  LET s == SessionOf(r)
  IN /\ Ingesting(r) /\ outbox[Current(r)].kind = "watermark"
     /\ watermark[s] \/ (status[s] = "ended" /\ Confirmed(Current(r)))
     /\ Accepted(r)
     /\ watermark' = [watermark EXCEPT ![s] = TRUE]
     /\ UNCHANGED <<machineVars, status, refusals, faults>>

-----------------------------------------------------------------------------
Bridge == fetch_machine_session \/ _poll_server_session
Serve(r) ==
  \/ arrive(r) \/ duplicate(r) \/ hold(r) \/ ingestMachineEvent(r)
  \/ handleCloseWatermark(r) \/ failTransient(r) \/ failPermanent(r)
Flush(r) == flush_once(r) \/ sendBatch(r) \/ apply_event_results(r) \/ applyFailures(r)

Next ==
  \/ \E s \in Sessions : sessionStarts(s) \/ sessionEnds(s)
  \/ Bridge \/ _expire_lease \/ emit
  \/ \E r \in Requests : Flush(r) \/ Serve(r) \/ giveUp(r) \/ _reject_batch(r)
  \/ \E i \in DOMAIN outbox : backoffOver(i)
  \/ isolationOver \/ retry_dead_letters \/ restart

Spec == Init /\ [][Next]_vars

\* The sync thread flushes, the bridge polls every two seconds, back-offs end,
\* and the server answers a request it has received.
FairSpec ==
  /\ Spec
  /\ \A r \in Requests : WF_vars(flush_once(r)) /\ WF_vars(sendBatch(r))
                         /\ WF_vars(apply_event_results(r)) /\ WF_vars(applyFailures(r))
                         /\ WF_vars(Serve(r))
  /\ \A i \in Ids : WF_vars(backoffOver(i))
  /\ WF_vars(fetch_machine_session) /\ WF_vars(_poll_server_session)

-----------------------------------------------------------------------------
\* Types of the outbox rows, the session rows, the requests and the server.
TypeOK ==
  /\ outbox \in Seq(Rows)
  /\ lease \in Sessions \cup {NoSession}
  /\ row \in [Sessions -> [known : BOOLEAN, closed : BOOLEAN, mark : Nat]]
  /\ answer \in Sessions \cup {NoSession, NoAnswer} /\ isolating \in BOOLEAN
  /\ req \in [Requests -> RequestRows]
  /\ \A r \in Requests : req[r].rows \subseteq DOMAIN outbox
  /\ status \in [Sessions -> {"none", "live", "ended"}]
  /\ stored \subseteq DOMAIN outbox /\ repeated \subseteq stored
  /\ watermark \in [Sessions -> BOOLEAN]
  /\ refusals \subseteq (DOMAIN outbox) \X {"transient", "permanent"}
  /\ faults \in 0 .. MaxFaults

\* The machine drops an event (mark_sent) only when the server has committed
\* it, whatever was lost, repeated or answered late.
AckedIsStored == \A i \in DOMAIN outbox : outbox[i].status = "sent" => i \in stored

\* The effects of an event are applied once (ingestMachineEvent), however many
\* requests carry it at the same time.
AppliedOnce == repeated = {}

\* The server applies the events of a session in the order the machine
\* recorded them (pending, heldSessions): an event overtakes an earlier one
\* only when that one was refused for good.
SessionOrder ==
  \A i \in DOMAIN outbox : \A e \in Earlier(i) :
    outbox[i].session # NoSession /\ i \in stored
      => e \in stored \/ <<e, "permanent">> \in refusals

\* Money is released (closeWatermarkAt) only when every event the machine
\* recorded before its watermark has been applied.
WatermarkVouches ==
  \A s \in Sessions : watermark[s] =>
    row[s].mark # 0 /\ \A i \in EventsOf(s) : i < row[s].mark => i \in stored

\* An event reaches the retry limit (mark_failed) only by errors the server
\* reported for the event itself: lost answers and held sessions never count.
LimitEarned ==
  \A i \in DOMAIN outbox :
    outbox[i].status = "dead_letter" /\ outbox[i].limit => <<i, "transient">> \in refusals

\* A batch may be sent, answered and applied any number of times: an event is
\* dropped only once it is stored, applied once, and set aside only for errors
\* of its own.
DeliveredOnce == AckedIsStored /\ AppliedOnce /\ LimitEarned

HeldByLimit(i) ==
  /\ outbox[i].session # NoSession
  /\ \E e \in Earlier(i) : outbox[e].status = "dead_letter" /\ outbox[e].limit

Waits(i) == i \in DOMAIN outbox /\ outbox[i].status = "pending"

\* Nothing is held for ever.  With finitely many faults each event is
\* acknowledged, set aside, or behind one that an operator must retry
\* (flush_once, mark_failed); and a session the machine ran and the server
\* ended gets its watermark (enqueue_close_watermarks), or shows the operator
\* a dead letter, or the server runs it again.
HoldReleased ==
  /\ \A i \in Ids : Waits(i) ~> (~Waits(i) \/ HeldByLimit(i))
  /\ \A s \in Sessions : (row[s].known /\ status[s] = "ended")
       ~> \/ watermark[s] \/ status[s] # "ended"
          \/ \E i \in DOMAIN outbox : outbox[i].session = s /\ outbox[i].status = "dead_letter"

=============================================================================
