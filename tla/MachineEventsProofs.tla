------------------------ MODULE MachineEventsProofs ------------------------
(***************************************************************************)
(* MachineEvents, for any sessions, requests, batch size, retry limit and  *)
(* faults: what the machine drops is stored, effects are applied once and  *)
(* in session order, a watermark vouches for what it counts, and the retry *)
(* limit is earned.                                                        *)
(*                                                                         *)
(* None of these is inductive alone: each rests on what the results in     *)
(* flight mean and on what was true when a batch was read.  The            *)
(* strengthening has a condition per outbox row (RowOK), per session       *)
(* (MarksOK) and per request (AnswersOK).  They take the state as          *)
(* arguments, so that one lemma serves both sides of a step.               *)
(***************************************************************************)
EXTENDS MachineEvents, TLAPS, FiniteSetTheorems, SequenceTheorems, WellFoundedInduction

\* Row i, with content w, against the stored events S, the refusals R and the
\* session rows M.
RowOK(i, w, S, R, M) ==
  /\ w.status = "sent" => i \in S
  /\ w.status = "pending" => w.failures < MaxServerFailures
  /\ w.status = "dead_letter" /\ w.limit => <<i, "transient">> \in R
  /\ w.status = "dead_letter" /\ ~w.limit => <<i, "permanent">> \in R
  /\ w.kind = "watermark" => w.session \in Sessions /\ M[w.session].mark # 0

\* A queued watermark lies in the outbox, behind acknowledged events only, and
\* nothing is confirmed without one.
MarksOK(B, M, W) ==
  \A s \in Sessions :
    /\ M[s].mark <= Len(B)
    /\ \A i \in DOMAIN B :
         B[i].session = s /\ B[i].kind = "event" /\ i < M[s].mark => B[i].status = "sent"
    /\ W[s] => M[s].mark # 0

\* Event e needs no further delivery before its successors.
Settled(e, S, R) == e \in S \/ <<e, "permanent">> \in R

Before(B, e, i) == e \in DOMAIN B /\ e < i /\ B[e].session = B[i].session

\* Request q: its results mean what they say, a failed event holds its session
\* for the rest of the batch, and the batch skips no event of a session.
AnswersOK(q, B, S, R) ==
  /\ q.rows \subseteq DOMAIN B /\ q.dups \subseteq S
  /\ \A i \in q.rows :
       /\ <<i, "ack">> \in q.res => i \in S
       /\ <<i, "permanent">> \in q.res => <<i, "permanent">> \in R
       /\ <<i, "transient">> \in q.res => <<i, "transient">> \in R
       /\ <<i, "transient">> \in q.res \/ <<i, "held">> \in q.res
            => B[i].session \in q.held \cup {NoSession}
  /\ \A i \in q.rows : B[i].session # NoSession =>
       \A e : Before(B, e, i) => e \in q.rows \/ Settled(e, S, R)
  /\ q.phase \in {"sent", "serving"} =>
       \E i \in q.rows : \A k \in Results : <<i, k>> \notin q.res

OrderOK(B, S, R) ==
  \A i \in DOMAIN B : i \in S /\ B[i].session # NoSession =>
    \A e : Before(B, e, i) => Settled(e, S, R)

\* Outbox B, session rows M, watermarks W, requests Q, stored S, refusals R.
DataOK(B, M, W, Q, S, R) ==
  /\ \A i \in DOMAIN B : RowOK(i, B[i], S, R, M)
  /\ MarksOK(B, M, W)
  /\ \A r \in Requests : AnswersOK(Q[r], B, S, R)
  /\ OrderOK(B, S, R)

IInv == TypeOK /\ DataOK(outbox, row, watermark, req, stored, refusals) /\ repeated = {}

-----------------------------------------------------------------------------
(***************************************************************************)
(* How the outbox moves                                                    *)
(***************************************************************************)

\* A set of positions has a first one.
LEMMA FirstOf ==
  ASSUME NEW T \in SUBSET Nat, T # {}
  PROVE  \E i \in T : \A j \in T : i <= j
  <1>1. \E i \in T : \A j \in T : ~(<<j, i>> \in OpToRel(<, Nat))
    BY WFMin, NatLessThanWellFounded
  <1>2. PICK i \in T : \A j \in T : ~(<<j, i>> \in OpToRel(<, Nat))
    BY <1>1
  <1>3. ASSUME NEW j \in T PROVE i <= j
    <2>1. i \in Nat /\ j \in Nat
      OBVIOUS
    <2>2. ~(j < i)
      BY <1>2, <2>1 DEF OpToRel
    <2> QED BY <2>1, <2>2
  <1> QED BY <1>3

\* Rows are appended and rewritten, never reordered: session and kind are
\* fixed and an acknowledged row stays so.
Extends(B, C) ==
  /\ Len(B) <= Len(C)
  /\ \A i \in DOMAIN B : /\ C[i].session = B[i].session /\ C[i].kind = B[i].kind
                         /\ B[i].status = "sent" => C[i].status = "sent"

\* A longer outbox keeps the rows of a shorter one at their places.
LEMMA Domains ==
  ASSUME NEW B \in Seq(Rows), NEW C \in Seq(Rows), Extends(B, C)
  PROVE  /\ DOMAIN B = 1 .. Len(B) /\ DOMAIN C = 1 .. Len(C)
         /\ Len(B) \in Nat /\ Len(C) \in Nat
         /\ DOMAIN B \subseteq DOMAIN C
         /\ \A i \in DOMAIN B : \A e : Before(C, e, i) <=> Before(B, e, i)
  <1>1. /\ DOMAIN B = 1 .. Len(B) /\ DOMAIN C = 1 .. Len(C)
        /\ Len(B) \in Nat /\ Len(C) \in Nat
    BY LenProperties
  <1>2. DOMAIN B \subseteq DOMAIN C
    BY <1>1 DEF Extends
  <1>3. ASSUME NEW i \in DOMAIN B, NEW e PROVE Before(C, e, i) <=> Before(B, e, i)
    <2>1. Before(C, e, i) => e \in DOMAIN B
      BY <1>1 DEF Before
    <2>2. C[i].session = B[i].session /\ (e \in DOMAIN B => C[e].session = B[e].session)
      BY DEF Extends
    <2> QED BY <1>2, <2>1, <2>2 DEF Before
  <1> QED BY <1>1, <1>2, <1>3

\* A request stays sound while the outbox is extended and the server learns.
LEMMA AnswersFrame ==
  ASSUME NEW B \in Seq(Rows), NEW C \in Seq(Rows), Extends(B, C),
         NEW S, NEW T, S \subseteq T, NEW R, NEW U, R \subseteq U,
         NEW q, AnswersOK(q, B, S, R)
  PROVE  AnswersOK(q, C, T, U)
  <1>1. /\ DOMAIN B \subseteq DOMAIN C
        /\ \A i \in DOMAIN B : \A e : Before(C, e, i) <=> Before(B, e, i)
        /\ \A i \in DOMAIN B : C[i].session = B[i].session
    BY Domains DEF Extends
  <1>2. q.rows \subseteq DOMAIN B
    BY DEF AnswersOK
  <1>3. \A i \in q.rows : C[i].session # NoSession =>
          \A e : Before(C, e, i) => e \in q.rows \/ Settled(e, T, U)
    BY <1>1, <1>2 DEF AnswersOK, Settled
  <1>4. \A i \in q.rows :
          /\ <<i, "ack">> \in q.res => i \in T
          /\ <<i, "permanent">> \in q.res => <<i, "permanent">> \in U
          /\ <<i, "transient">> \in q.res => <<i, "transient">> \in U
          /\ <<i, "transient">> \in q.res \/ <<i, "held">> \in q.res
               => C[i].session \in q.held \cup {NoSession}
    BY <1>1, <1>2 DEF AnswersOK
  <1>5. q.rows \subseteq DOMAIN C /\ q.dups \subseteq T
    BY <1>1, <1>2 DEF AnswersOK
  <1>6. q.phase \in {"sent", "serving"} =>
          \E i \in q.rows : \A k \in Results : <<i, k>> \notin q.res
    BY DEF AnswersOK
  <1> QED BY <1>3, <1>4, <1>5, <1>6 DEF AnswersOK

\* Only the phase or the flags of a request move.
LEMMA AnswersSame ==
  ASSUME NEW B, NEW S, NEW R, NEW q, NEW p, AnswersOK(q, B, S, R),
         p.rows = q.rows, p.dups = q.dups, p.held = q.held, p.res = q.res,
         p.phase \in {"sent", "serving"} => q.phase \in {"sent", "serving"}
  PROVE  AnswersOK(p, B, S, R)
  BY DEF AnswersOK

\* A request that is not under way has no answers to be wrong about.
LEMMA AnswersIdle ==
  ASSUME NEW B, NEW S, NEW R
  PROVE  AnswersOK(Idle, B, S, R)
  BY DEF AnswersOK, Idle

\* A step of the machine: the server's rows stay, the outbox is extended by
\* sound rows, no watermark is queued.
LEMMA MachineStep ==
  ASSUME NEW B \in Seq(Rows), NEW C \in Seq(Rows), Extends(B, C),
         NEW M, NEW N, NEW W, NEW Q, NEW P, NEW S, NEW R,
         S \subseteq DOMAIN B, DataOK(B, M, W, Q, S, R),
         \A i \in DOMAIN C : RowOK(i, C[i], S, R, M),
         \A s \in Sessions : M[s].mark \in Nat /\ N[s].mark = M[s].mark,
         \A r \in Requests : AnswersOK(P[r], B, S, R)
  PROVE  DataOK(C, N, W, P, S, R)
  <1>1. /\ DOMAIN B = 1 .. Len(B) /\ DOMAIN C = 1 .. Len(C)
        /\ Len(B) \in Nat /\ Len(C) \in Nat
        /\ DOMAIN B \subseteq DOMAIN C
        /\ \A i \in DOMAIN B : \A e : Before(C, e, i) <=> Before(B, e, i)
    BY Domains
  <1>2. \A i \in DOMAIN C : RowOK(i, C[i], S, R, N)
    BY DEF RowOK
  <1>3. ASSUME NEW s \in Sessions
        PROVE  /\ N[s].mark <= Len(C)
               /\ \A i \in DOMAIN C :
                    C[i].session = s /\ C[i].kind = "event" /\ i < N[s].mark => C[i].status = "sent"
               /\ W[s] => N[s].mark # 0
    <2>1. N[s].mark = M[s].mark /\ M[s].mark \in Nat /\ M[s].mark <= Len(B) /\ Len(B) <= Len(C)
      BY DEF DataOK, MarksOK, Extends
    <2>2. ASSUME NEW i \in DOMAIN C, C[i].session = s, C[i].kind = "event", i < N[s].mark
          PROVE  C[i].status = "sent"
      <3>1. i \in DOMAIN B
        BY <1>1, <2>1, <2>2
      <3>2. B[i].session = s /\ B[i].kind = "event" /\ i < M[s].mark
        BY <2>1, <2>2, <3>1 DEF Extends
      <3>3. B[i].status = "sent"
        BY <3>1, <3>2 DEF DataOK, MarksOK
      <3> QED BY <3>1, <3>3 DEF Extends
    <2>3. W[s] => N[s].mark # 0
      BY <2>1 DEF DataOK, MarksOK
    <2>4. N[s].mark <= Len(C)
      BY <1>1, <2>1
    <2> QED BY <2>2, <2>3, <2>4
  <1>4. \A r \in Requests : AnswersOK(P[r], C, S, R)
    BY AnswersFrame
  <1>5. OrderOK(C, S, R)
    <2>1. \A i \in S : i \in DOMAIN B /\ C[i].session = B[i].session
      BY DEF Extends
    <2> QED BY <1>1, <2>1 DEF OrderOK, DataOK
  <1> QED BY <1>2, <1>3, <1>4, <1>5 DEF DataOK, MarksOK

\* Rows rewritten in place are an outbox again.
LEMMA Rewritten ==
  ASSUME NEW B \in Seq(Rows), NEW C, C = [i \in DOMAIN B |-> C[i]],
         \A i \in DOMAIN B : C[i] \in Rows
  PROVE  C \in Seq(Rows) /\ DOMAIN C = DOMAIN B /\ Len(C) = Len(B)
  <1>1. DOMAIN B = 1 .. Len(B) /\ Len(B) \in Nat
    BY LenProperties
  <1>2. C \in [1 .. Len(B) -> Rows]
    BY <1>1
  <1>3. C \in Seq(Rows)
    BY <1>1, <1>2, SeqDef
  <1>4. DOMAIN C = 1 .. Len(C) /\ Len(C) \in Nat
    BY <1>3, LenProperties
  <1> QED BY <1>1, <1>2, <1>3, <1>4

-----------------------------------------------------------------------------
(***************************************************************************)
(* Steps of the machine that rewrite rows                                  *)
(***************************************************************************)

\* The facts of the types the steps below need.
LEMMA Types ==
  ASSUME TypeOK
  PROVE  /\ outbox \in Seq(Rows) /\ Len(outbox) \in Nat /\ DOMAIN outbox = 1 .. Len(outbox)
         /\ \A i \in DOMAIN outbox : i \in Nat /\ outbox[i] \in Rows
         /\ req \in [Requests -> RequestRows]
         /\ \A s \in Sessions : row[s].mark \in Nat
         /\ stored \subseteq DOMAIN outbox
  <1>1. outbox \in Seq(Rows)
    BY DEF TypeOK
  <1>2. Len(outbox) \in Nat /\ DOMAIN outbox = 1 .. Len(outbox)
    BY <1>1, LenProperties
  <1>3. \A i \in DOMAIN outbox : i \in Nat /\ outbox[i] \in Rows
    BY <1>1, <1>2, ElementOfSeq
  <1> QED BY <1>1, <1>2, <1>3 DEF TypeOK

\* A machine step with the requests as they are or idle leaves the rest typed.
LEMMA RewriteStep ==
  ASSUME IInv, NEW C, C = [i \in DOMAIN outbox |-> C[i]],
         NEW P, P \in [Requests -> RequestRows],
         \A i \in DOMAIN outbox :
           /\ C[i] \in Rows /\ C[i].session = outbox[i].session /\ C[i].kind = outbox[i].kind
           /\ outbox[i].status = "sent" => C[i] = outbox[i]
           /\ RowOK(i, C[i], stored, refusals, row),
         \A r \in Requests : AnswersOK(P[r], outbox, stored, refusals)
  PROVE  /\ C \in Seq(Rows) /\ DOMAIN C = DOMAIN outbox
         /\ \A r \in Requests : P[r].rows \subseteq DOMAIN C
         /\ DataOK(C, row, watermark, P, stored, refusals)
  <1>1. /\ outbox \in Seq(Rows) /\ stored \subseteq DOMAIN outbox /\ Len(outbox) \in Nat
        /\ \A s \in Sessions : row[s].mark \in Nat
    BY Types DEF IInv
  <1>2. C \in Seq(Rows) /\ DOMAIN C = DOMAIN outbox /\ Len(C) = Len(outbox)
    BY <1>1, Rewritten
  <1>3. Extends(outbox, C)
    BY <1>1, <1>2 DEF Extends
  <1>4. \A i \in DOMAIN C : RowOK(i, C[i], stored, refusals, row)
    BY <1>2
  <1>5. DataOK(outbox, row, watermark, req, stored, refusals)
    BY DEF IInv
  <1>6. DataOK(C, row, watermark, P, stored, refusals)
    BY <1>1, <1>2, <1>3, <1>4, <1>5, MachineStep
  <1>7. \A r \in Requests : P[r].rows \subseteq DOMAIN C
    BY <1>2 DEF AnswersOK
  <1> QED BY <1>2, <1>6, <1>7

\* What the rewriting operators make of a pending row.
Same(w, v) == v \in Rows /\ v.session = w.session /\ v.kind = w.kind

\* mark_sent changes the status alone.
LEMMA SentRow ==
  ASSUME NEW w \in Rows
  PROVE  Same(w, mark_sent(w)) /\ mark_sent(w).status = "sent"
  BY DEF Same, Rows, mark_sent

\* mark_dead_letter changes the status alone.
LEMMA DeadRow ==
  ASSUME NEW w \in Rows
  PROVE  /\ Same(w, mark_dead_letter(w))
         /\ mark_dead_letter(w).status = "dead_letter" /\ ~mark_dead_letter(w).limit
  BY DEF Same, Rows, mark_dead_letter

\* mark_failed counts a failure of the server and gives up at the limit only.
LEMMA FailedRow ==
  ASSUME NEW w \in Rows, w.status = "pending", w.failures < MaxServerFailures,
         NEW f \in BOOLEAN
  PROVE  /\ Same(w, mark_failed(w, f))
         /\ \/ /\ mark_failed(w, f).status = "pending"
               /\ mark_failed(w, f).failures < MaxServerFailures
            \/ /\ mark_failed(w, f).status = "dead_letter" /\ mark_failed(w, f).limit /\ f
  <1> DEFINE n == w.failures + (IF f THEN 1 ELSE 0)
  <1>1. MaxServerFailures \in Nat /\ w.failures \in Nat
    BY ConstantsAssumption DEF Rows
  <1>2. n \in 0 .. MaxServerFailures /\ (n >= MaxServerFailures => f)
    BY <1>1
  <1>3. CASE n >= MaxServerFailures
    <2>1. mark_failed(w, f) = [w EXCEPT !.status = "dead_letter", !.failures = n, !.limit = TRUE]
      BY <1>3 DEF mark_failed
    <2>2. f
      BY <1>2, <1>3
    <2> HIDE DEF n
    <2>3. /\ Same(w, mark_failed(w, f)) /\ mark_failed(w, f).status = "dead_letter"
          /\ mark_failed(w, f).limit
      BY <1>2, <2>1 DEF Same, Rows
    <2> QED BY <2>2, <2>3, Zenon
  <1>4. CASE ~(n >= MaxServerFailures)
    <2>1. mark_failed(w, f) = [w EXCEPT !.due = FALSE, !.failures = n, !.limit = FALSE]
      BY <1>4 DEF mark_failed
    <2> HIDE DEF n
    <2>2. /\ Same(w, mark_failed(w, f)) /\ mark_failed(w, f).status = "pending"
          /\ mark_failed(w, f).failures = n
      BY <1>2, <2>1 DEF Same, Rows
    <2>3. n < MaxServerFailures
      BY <1>1, <1>2, <1>4
    <2>4. mark_failed(w, f).failures < MaxServerFailures
      BY <2>2, <2>3
    <2> QED BY <2>2, <2>4
  <1> QED BY <1>3, <1>4

\* The row condition of a row and its request, unfolded.
LEMMA RowFacts ==
  ASSUME IInv, NEW i \in DOMAIN outbox
  PROVE  /\ outbox[i] \in Rows
         /\ RowOK(i, outbox[i], stored, refusals, row)
         /\ outbox[i].status = "pending" => outbox[i].failures < MaxServerFailures
  <1>1. RowOK(i, outbox[i], stored, refusals, row)
    BY DEF IInv, DataOK
  <1>2. outbox[i] \in Rows
    BY Types DEF IInv
  <1> QED BY <1>1, <1>2 DEF RowOK

\* Rewriting a pending row by what happened to it keeps its condition.
LEMMA RowRewritten ==
  ASSUME IInv, NEW i \in DOMAIN outbox, outbox[i].status = "pending", NEW v,
         \/ v = mark_sent(outbox[i]) /\ i \in stored
         \/ v = mark_dead_letter(outbox[i]) /\ <<i, "permanent">> \in refusals
         \/ v = mark_failed(outbox[i], FALSE)
         \/ v = mark_failed(outbox[i], TRUE) /\ <<i, "transient">> \in refusals
         \/ v = outbox[i]
  PROVE  /\ v \in Rows /\ v.session = outbox[i].session /\ v.kind = outbox[i].kind
         /\ RowOK(i, v, stored, refusals, row)
  <1>1. /\ outbox[i] \in Rows /\ outbox[i].failures < MaxServerFailures
        /\ RowOK(i, outbox[i], stored, refusals, row)
    BY RowFacts
  <1>2. CASE v = mark_sent(outbox[i]) /\ i \in stored
    BY <1>1, <1>2, SentRow DEF RowOK, Same
  <1>3. CASE v = mark_dead_letter(outbox[i]) /\ <<i, "permanent">> \in refusals
    BY <1>1, <1>3, DeadRow DEF RowOK, Same
  <1>4. CASE v = mark_failed(outbox[i], FALSE)
    BY <1>1, <1>4, FailedRow DEF RowOK, Same
  <1>5. CASE v = mark_failed(outbox[i], TRUE) /\ <<i, "transient">> \in refusals
    BY <1>1, <1>5, FailedRow DEF RowOK, Same
  <1> QED BY <1>1, <1>2, <1>3, <1>4, <1>5

\* The requests after one of them is set aside, gives up or moves on.
LEMMA RequestMoved ==
  ASSUME IInv, NEW P, NEW r \in Requests, NEW q, P = [req EXCEPT ![r] = q],
         q \in RequestRows,
         q = Idle \/ (/\ q.rows = req[r].rows /\ q.dups = req[r].dups
                      /\ q.held = req[r].held /\ q.res = req[r].res
                      /\ q.phase \in {"sent", "serving"} => req[r].phase \in {"sent", "serving"})
  PROVE  /\ P \in [Requests -> RequestRows]
         /\ \A x \in Requests : AnswersOK(P[x], outbox, stored, refusals)
         /\ \A x \in Requests : P[x].rows \subseteq DOMAIN outbox
  <1>1. req \in [Requests -> RequestRows]
    BY DEF IInv, TypeOK
  <1>2. \A x \in Requests : AnswersOK(req[x], outbox, stored, refusals)
    BY DEF IInv, DataOK
  <1>3. AnswersOK(q, outbox, stored, refusals)
    BY <1>2, AnswersSame, AnswersIdle
  <1>4. \A x \in Requests : P[x] = IF x = r THEN q ELSE req[x]
    BY <1>1
  <1>5. \A x \in Requests : AnswersOK(P[x], outbox, stored, refusals)
    BY <1>2, <1>3, <1>4
  <1> QED BY <1>1, <1>5 DEF AnswersOK

\* The request at rest is a request.
LEMMA IdleTyped == Idle \in RequestRows
  BY DEF Idle, RequestRows, Phases

\* A step that rewrites rows in place and leaves the sessions and the server.
LEMMA Rewrote ==
  ASSUME IInv, outbox' = [i \in DOMAIN outbox |-> outbox'[i]],
         \A i \in DOMAIN outbox :
           /\ outbox'[i] \in Rows
           /\ outbox'[i].session = outbox[i].session /\ outbox'[i].kind = outbox[i].kind
           /\ outbox[i].status = "sent" => outbox'[i] = outbox[i]
           /\ RowOK(i, outbox'[i], stored, refusals, row),
         req' \in [Requests -> RequestRows],
         \A r \in Requests : AnswersOK(req'[r], outbox, stored, refusals),
         isolating' \in BOOLEAN, faults' \in 0 .. MaxFaults,
         UNCHANGED <<lease, row, answer, serverVars>>
  PROVE  IInv'
  <1>1. /\ outbox' \in Seq(Rows) /\ DOMAIN outbox' = DOMAIN outbox
        /\ \A r \in Requests : req'[r].rows \subseteq DOMAIN outbox'
        /\ DataOK(outbox', row, watermark, req', stored, refusals)
    BY RewriteStep
  <1>2. TypeOK'
    BY <1>1 DEF IInv, TypeOK, serverVars
  <1> QED BY <1>1, <1>2 DEF IInv, serverVars

\* Row i stays, or was pending and is rewritten by an answer.
Moved(i, v) ==
  \/ v = outbox[i]
  \/ /\ outbox[i].status = "pending"
     /\ \/ v = mark_sent(outbox[i]) /\ i \in stored
        \/ v = mark_dead_letter(outbox[i]) /\ <<i, "permanent">> \in refusals
        \/ v = mark_failed(outbox[i], FALSE)
        \/ v = mark_failed(outbox[i], TRUE) /\ <<i, "transient">> \in refusals

\* A step of the machine that applies an answer, or its absence.
LEMMA AnswerApplied ==
  ASSUME IInv, outbox' = [i \in DOMAIN outbox |-> outbox'[i]],
         \A i \in DOMAIN outbox : Moved(i, outbox'[i]),
         NEW r \in Requests, NEW q \in RequestRows, req' = [req EXCEPT ![r] = q],
         q = Idle \/ (/\ q.rows = req[r].rows /\ q.dups = req[r].dups
                      /\ q.held = req[r].held /\ q.res = req[r].res
                      /\ q.phase \in {"sent", "serving"} => req[r].phase \in {"sent", "serving"}),
         isolating' \in BOOLEAN, faults' \in 0 .. MaxFaults,
         UNCHANGED <<lease, row, answer, serverVars>>
  PROVE  IInv'
  <1>1. ASSUME NEW i \in DOMAIN outbox
        PROVE  /\ outbox'[i] \in Rows
               /\ outbox'[i].session = outbox[i].session /\ outbox'[i].kind = outbox[i].kind
               /\ outbox[i].status = "sent" => outbox'[i] = outbox[i]
               /\ RowOK(i, outbox'[i], stored, refusals, row)
    <2>1. CASE outbox'[i] = outbox[i]
      BY <2>1, RowFacts
    <2>2. CASE outbox'[i] # outbox[i]
      <3>1. outbox[i].status = "pending"
        BY <2>2 DEF Moved
      <3>2. Moved(i, outbox'[i])
        OBVIOUS
      <3> QED BY <3>1, <3>2, RowRewritten DEF Moved
    <2> QED BY <2>1, <2>2
  <1>2. /\ req' \in [Requests -> RequestRows]
        /\ \A x \in Requests : AnswersOK(req'[x], outbox, stored, refusals)
    BY RequestMoved
  <1> QED BY <1>1, <1>2, Rewrote

\* Acknowledgements: what the server answered as stored is stored.
LEMMA AcknowledgedKeeps ==
  ASSUME IInv, NEW r \in Requests, apply_event_results(r)
  PROVE  IInv'
  <1> DEFINE q == [req[r] EXCEPT !.phase = "acked"]
  <1>1. req[r] \in RequestRows /\ req' = [req EXCEPT ![r] = q]
    BY Types DEF IInv, apply_event_results
  <1>2. /\ q \in RequestRows /\ q.rows = req[r].rows /\ q.dups = req[r].dups
        /\ q.held = req[r].held /\ q.res = req[r].res /\ q.phase = "acked"
    BY <1>1 DEF RequestRows, Phases
  <1> HIDE DEF q
  <1>3. \A i \in Answered(r, "ack") : i \in stored
    BY DEF Answered, IInv, DataOK, AnswersOK
  <1>4. outbox' = [i \in DOMAIN outbox |->
          IF i \in Answered(r, "ack") /\ outbox[i].status = "pending"
          THEN mark_sent(outbox[i]) ELSE outbox[i]]
    BY DEF apply_event_results, Acked
  <1>5. \A i \in DOMAIN outbox : Moved(i, outbox'[i])
    BY <1>3, <1>4 DEF Moved
  <1>6. outbox' = [i \in DOMAIN outbox |-> outbox'[i]]
    BY <1>4
  <1>7. UNCHANGED <<lease, row, answer, serverVars>> /\ isolating' \in BOOLEAN /\ faults' \in 0 .. MaxFaults
    BY DEF apply_event_results, IInv, TypeOK
  <1> QED BY <1>1, <1>2, <1>5, <1>6, <1>7, AnswerApplied

\* Refusals: a permanent one was answered, a transient one is earned.
LEMMA FailuresKeep ==
  ASSUME IInv, NEW r \in Requests, applyFailures(r)
  PROVE  IInv'
  <1> DEFINE Applied(i) ==
        IF i \in Answered(r, "permanent") THEN mark_dead_letter(outbox[i])
        ELSE IF i \in Answered(r, "held") THEN mark_failed(outbox[i], FALSE)
        ELSE IF i \in Answered(r, "transient") THEN mark_failed(outbox[i], TRUE)
        ELSE outbox[i]
  <1>1. /\ \A i \in Answered(r, "permanent") : <<i, "permanent">> \in refusals
        /\ \A i \in Answered(r, "transient") : <<i, "transient">> \in refusals
    BY DEF Answered, IInv, DataOK, AnswersOK
  <1>2. outbox' = [i \in DOMAIN outbox |->
          IF outbox[i].status = "pending" THEN Applied(i) ELSE outbox[i]]
    BY DEF applyFailures
  <1>3. ASSUME NEW i \in DOMAIN outbox PROVE Moved(i, outbox'[i])
    <2>1. CASE outbox[i].status # "pending"
      BY <1>2, <2>1 DEF Moved
    <2>2. CASE outbox[i].status = "pending"
      <3>1. outbox'[i] = Applied(i)
        BY <1>2, <2>2
      <3>2. \/ Applied(i) = outbox[i]
            \/ Applied(i) = mark_dead_letter(outbox[i]) /\ i \in Answered(r, "permanent")
            \/ Applied(i) = mark_failed(outbox[i], FALSE)
            \/ Applied(i) = mark_failed(outbox[i], TRUE) /\ i \in Answered(r, "transient")
        OBVIOUS
      <3> HIDE DEF Applied
      <3> QED BY <1>1, <2>2, <3>1, <3>2 DEF Moved
    <2> QED BY <2>1, <2>2
  <1>4. outbox' = [i \in DOMAIN outbox |-> outbox'[i]]
    BY <1>2
  <1>5. req' = [req EXCEPT ![r] = Idle]
    BY DEF applyFailures
  <1>6. UNCHANGED <<lease, row, answer, serverVars>> /\ isolating' \in BOOLEAN /\ faults' \in 0 .. MaxFaults
    BY DEF applyFailures, IInv, TypeOK
  <1> QED BY <1>3, <1>4, <1>5, <1>6, IdleTyped, AnswerApplied

\* A fault is counted within its bound.
LEMMA FaultTyped ==
  ASSUME IInv, NEW kind, Fault(kind)
  PROVE  faults' \in 0 .. MaxFaults
  BY ConstantsAssumption DEF IInv, TypeOK, Fault

\* A batch that backs off without an answer for its events.
LEMMA BatchFailed ==
  ASSUME IInv, NEW T, outbox' = BackedOff(T)
  PROVE  /\ outbox' = [i \in DOMAIN outbox |-> outbox'[i]]
         /\ \A i \in DOMAIN outbox : Moved(i, outbox'[i])
  <1>1. outbox' = [i \in DOMAIN outbox |->
          IF i \in T /\ outbox[i].status = "pending"
          THEN mark_failed(outbox[i], FALSE) ELSE outbox[i]]
    BY DEF BackedOff
  <1>2. \A i \in DOMAIN outbox : Moved(i, outbox'[i])
    BY <1>1 DEF Moved
  <1> QED BY <1>1, <1>2

\* A request given up on backs its rows off and keeps the invariant.
LEMMA GiveUpKeeps ==
  ASSUME IInv, NEW r \in Requests, giveUp(r)
  PROVE  IInv'
  <1> DEFINE q == [req[r] EXCEPT !.waiting = FALSE]
  <1>1. req[r] \in RequestRows /\ (req' = [req EXCEPT ![r] = Idle] \/ req' = [req EXCEPT ![r] = q])
    BY Types DEF IInv, giveUp
  <1>2. /\ q \in RequestRows /\ q.rows = req[r].rows /\ q.dups = req[r].dups
        /\ q.held = req[r].held /\ q.res = req[r].res /\ q.phase = req[r].phase
    BY <1>1 DEF RequestRows
  <1> HIDE DEF q
  <1>3. outbox' = BackedOff(req[r].rows)
    BY DEF giveUp
  <1>4. /\ outbox' = [i \in DOMAIN outbox |-> outbox'[i]]
        /\ \A i \in DOMAIN outbox : Moved(i, outbox'[i])
    BY <1>3, BatchFailed
  <1>5. UNCHANGED <<lease, row, answer, serverVars>> /\ isolating' \in BOOLEAN /\ faults' \in 0 .. MaxFaults
    BY FaultTyped DEF giveUp, IInv, TypeOK
  <1>6. CASE req' = [req EXCEPT ![r] = Idle]
    BY <1>4, <1>5, <1>6, IdleTyped, AnswerApplied
  <1>7. CASE req' = [req EXCEPT ![r] = q]
    BY <1>2, <1>4, <1>5, <1>7, AnswerApplied
  <1> QED BY <1>1, <1>6, <1>7

\* An envelope refused as a whole backs its rows off and keeps the invariant.
LEMMA RejectKeeps ==
  ASSUME IInv, NEW r \in Requests, _reject_batch(r)
  PROVE  IInv'
  <1>1. outbox' = BackedOff(req[r].rows) /\ req' = [req EXCEPT ![r] = Idle]
    BY DEF _reject_batch
  <1>2. /\ outbox' = [i \in DOMAIN outbox |-> outbox'[i]]
        /\ \A i \in DOMAIN outbox : Moved(i, outbox'[i])
    BY <1>1, BatchFailed
  <1>3. UNCHANGED <<lease, row, answer, serverVars>> /\ isolating' \in BOOLEAN /\ faults' \in 0 .. MaxFaults
    BY FaultTyped DEF _reject_batch, IInv, TypeOK
  <1> QED BY <1>1, <1>2, <1>3, IdleTyped, AnswerApplied

\* The requests and their answers as they stand.
LEMMA RequestsSound ==
  ASSUME IInv
  PROVE  /\ req \in [Requests -> RequestRows]
         /\ \A r \in Requests : /\ AnswersOK(req[r], outbox, stored, refusals)
                               /\ req[r].rows \subseteq DOMAIN outbox
  BY DEF IInv, TypeOK, DataOK, AnswersOK

\* A retry delay that is over keeps the invariant.
LEMMA BackoffKeeps ==
  ASSUME IInv, NEW n \in DOMAIN outbox, backoffOver(n)
  PROVE  IInv'
  <1>1. outbox[n].status = "pending" /\ outbox' = [outbox EXCEPT ![n].due = TRUE]
    BY DEF backoffOver
  <1>2. outbox = [i \in DOMAIN outbox |-> outbox[i]]
    <2>1. outbox \in [1 .. Len(outbox) -> Rows]
      BY LenProperties, Types DEF IInv
    <2> QED BY <2>1
  <1>3. /\ outbox' = [i \in DOMAIN outbox |-> outbox'[i]]
        /\ \A i \in DOMAIN outbox :
             outbox'[i] = IF i = n THEN [outbox[n] EXCEPT !.due = TRUE] ELSE outbox[i]
    BY <1>1, <1>2
  <1>4. ASSUME NEW i \in DOMAIN outbox
        PROVE  /\ outbox'[i] \in Rows
               /\ outbox'[i].session = outbox[i].session /\ outbox'[i].kind = outbox[i].kind
               /\ outbox[i].status = "sent" => outbox'[i] = outbox[i]
               /\ RowOK(i, outbox'[i], stored, refusals, row)
    <2>1. outbox[i] \in Rows /\ RowOK(i, outbox[i], stored, refusals, row)
      BY RowFacts
    <2>2. CASE i # n
      BY <1>3, <2>1, <2>2
    <2>3. CASE i = n
      <3> DEFINE v == [outbox[n] EXCEPT !.due = TRUE]
      <3>1. /\ v \in Rows /\ v.session = outbox[i].session /\ v.kind = outbox[i].kind
            /\ v.status = outbox[i].status /\ v.failures = outbox[i].failures
            /\ v.limit = outbox[i].limit
        BY <2>1, <2>3 DEF Rows
      <3>2. outbox'[i] = v
        BY <1>3, <2>3
      <3> HIDE DEF v
      <3>3. RowOK(i, v, stored, refusals, row)
        BY <2>1, <3>1 DEF RowOK
      <3> QED BY <1>1, <2>3, <3>1, <3>2, <3>3
    <2> QED BY <2>2, <2>3
  <1>5. UNCHANGED <<lease, row, answer, serverVars, isolating, req, faults>>
    BY DEF backoffOver
  <1>6. isolating' \in BOOLEAN /\ faults' \in 0 .. MaxFaults
    BY <1>5 DEF IInv, TypeOK
  <1> QED BY <1>3, <1>4, <1>5, <1>6, RequestsSound, Rewrote

\* An operator's retry puts a row back as it was before its failures.
LEMMA RetriedRow ==
  ASSUME NEW w \in Rows, NEW v, v = [w EXCEPT !.status = "pending", !.due = TRUE, !.failures = 0]
  PROVE  Same(w, v) /\ v.status = "pending" /\ v.failures = 0
  <1>1. 0 \in 0 .. MaxServerFailures
    BY ConstantsAssumption
  <1> QED BY <1>1 DEF Same, Rows

\* An operator's retry keeps the invariant.
LEMMA RetryKeeps ==
  ASSUME IInv, retry_dead_letters
  PROVE  IInv'
  <1>1. PICK ids \in SUBSET {i \in DOMAIN outbox : outbox[i].status = "dead_letter"} :
          outbox' = [i \in DOMAIN outbox |->
            IF i \in ids THEN [outbox[i] EXCEPT !.status = "pending", !.due = TRUE, !.failures = 0]
            ELSE outbox[i]]
    BY DEF retry_dead_letters
  <1>2. outbox' = [i \in DOMAIN outbox |-> outbox'[i]]
    BY <1>1
  <1>3. ASSUME NEW i \in DOMAIN outbox
        PROVE  /\ outbox'[i] \in Rows
               /\ outbox'[i].session = outbox[i].session /\ outbox'[i].kind = outbox[i].kind
               /\ outbox[i].status = "sent" => outbox'[i] = outbox[i]
               /\ RowOK(i, outbox'[i], stored, refusals, row)
    <2>1. outbox[i] \in Rows /\ RowOK(i, outbox[i], stored, refusals, row)
      BY RowFacts
    <2>2. CASE i \notin ids
      BY <1>1, <2>1, <2>2
    <2>3. CASE i \in ids
      <3> DEFINE v == [outbox[i] EXCEPT !.status = "pending", !.due = TRUE, !.failures = 0]
      <3>1. /\ v \in Rows /\ v.session = outbox[i].session /\ v.kind = outbox[i].kind
            /\ v.status = "pending" /\ v.failures = 0
        BY <2>1, RetriedRow DEF Same
      <3>2. outbox'[i] = v /\ outbox[i].status = "dead_letter"
        BY <1>1, <2>3
      <3> HIDE DEF v
      <3>3. RowOK(i, v, stored, refusals, row)
        BY <2>1, <3>1, ConstantsAssumption DEF RowOK
      <3> QED BY <3>1, <3>2, <3>3
    <2> QED BY <2>2, <2>3
  <1>4. UNCHANGED <<lease, row, answer, serverVars, isolating, req>> /\ faults' \in 0 .. MaxFaults
    BY FaultTyped DEF retry_dead_letters
  <1>5. isolating' \in BOOLEAN
    BY <1>4 DEF IInv, TypeOK
  <1> QED BY <1>2, <1>3, <1>4, <1>5, RequestsSound, Rewrote

\* Steps that move requests only, none of them into a batch.
LEMMA RequestsMoved ==
  ASSUME IInv, req' \in [Requests -> RequestRows],
         \A x \in Requests : AnswersOK(req'[x], outbox, stored, refusals),
         isolating' \in BOOLEAN, faults' \in 0 .. MaxFaults,
         answer' \in Sessions \cup {NoSession, NoAnswer},
         lease' \in Sessions \cup {NoSession}, status' \in [Sessions -> {"none", "live", "ended"}],
         UNCHANGED <<outbox, row, stored, repeated, watermark, refusals>>
  PROVE  IInv'
  <1>1. DataOK(outbox', row', watermark', req', stored', refusals')
    BY DEF IInv, DataOK
  <1>2. TypeOK'
    BY DEF IInv, TypeOK, AnswersOK
  <1> QED BY <1>1, <1>2 DEF IInv

\* A restart of the machine keeps the invariant: the outbox is on disk.
LEMMA RestartKeeps ==
  ASSUME IInv, restart
  PROVE  IInv'
  <1>1. req' = [r \in Requests |->
       IF req[r].phase \in {"sent", "serving"} THEN [req[r] EXCEPT !.waiting = FALSE] ELSE Idle]
    BY DEF restart
  <1>2. ASSUME NEW r \in Requests
        PROVE  req'[r] \in RequestRows /\ AnswersOK(req'[r], outbox, stored, refusals)
    <2>1. req[r] \in RequestRows /\ AnswersOK(req[r], outbox, stored, refusals)
      BY RequestsSound
    <2> DEFINE q == [req[r] EXCEPT !.waiting = FALSE]
    <2>2. /\ q \in RequestRows /\ q.rows = req[r].rows /\ q.dups = req[r].dups
          /\ q.held = req[r].held /\ q.res = req[r].res /\ q.phase = req[r].phase
      BY <2>1 DEF RequestRows
    <2>3. req'[r] \in {q, Idle}
      BY <1>1
    <2> HIDE DEF q
    <2> QED BY <2>1, <2>2, <2>3, AnswersSame, AnswersIdle, IdleTyped
  <1>3. req' \in [Requests -> RequestRows]
    BY <1>1, <1>2
  <1>4. /\ faults' \in 0 .. MaxFaults /\ isolating' \in BOOLEAN
        /\ answer' \in Sessions \cup {NoSession, NoAnswer}
        /\ lease' \in Sessions \cup {NoSession} /\ status' \in [Sessions -> {"none", "live", "ended"}]
        /\ UNCHANGED <<outbox, row, stored, repeated, watermark, refusals>>
    BY FaultTyped DEF restart, serverVars, IInv, TypeOK
  <1> QED BY <1>2, <1>3, <1>4, RequestsMoved

\* The end of a session at the server keeps the invariant.
LEMMA SessionEndsKeeps ==
  ASSUME IInv, NEW s \in Sessions, sessionEnds(s)
  PROVE  IInv'
  <1>1. req' = [r \in Requests |->
       IF req[r].phase = "serving" /\ outbox[Current(r)].session = s
       THEN [req[r] EXCEPT !.racing = TRUE] ELSE req[r]]
    BY DEF sessionEnds
  <1>2. ASSUME NEW r \in Requests
        PROVE  req'[r] \in RequestRows /\ AnswersOK(req'[r], outbox, stored, refusals)
    <2>1. req[r] \in RequestRows /\ AnswersOK(req[r], outbox, stored, refusals)
      BY RequestsSound
    <2> DEFINE q == [req[r] EXCEPT !.racing = TRUE]
    <2>2. /\ q \in RequestRows /\ q.rows = req[r].rows /\ q.dups = req[r].dups
          /\ q.held = req[r].held /\ q.res = req[r].res /\ q.phase = req[r].phase
      BY <2>1 DEF RequestRows
    <2>3. req'[r] \in {q, req[r]}
      BY <1>1
    <2> HIDE DEF q
    <2> QED BY <2>1, <2>2, <2>3, AnswersSame
  <1>3. req' \in [Requests -> RequestRows]
    BY <1>1, <1>2
  <1>4. /\ faults' \in 0 .. MaxFaults /\ isolating' \in BOOLEAN
        /\ answer' \in Sessions \cup {NoSession, NoAnswer}
        /\ lease' \in Sessions \cup {NoSession} /\ status' \in [Sessions -> {"none", "live", "ended"}]
        /\ UNCHANGED <<outbox, row, stored, repeated, watermark, refusals>>
    BY DEF sessionEnds, machineVars, IInv, TypeOK
  <1> QED BY <1>2, <1>3, <1>4, RequestsMoved

\* The remaining steps that touch neither the outbox nor the server's rows.
LEMMA QuietKeeps ==
  ASSUME IInv,
         \/ \E s \in Sessions : sessionStarts(s)
         \/ fetch_machine_session \/ _expire_lease \/ isolationOver
  PROVE  IInv'
  <1>1. /\ faults' \in 0 .. MaxFaults /\ isolating' \in BOOLEAN
        /\ answer' \in Sessions \cup {NoSession, NoAnswer}
        /\ lease' \in Sessions \cup {NoSession} /\ status' \in [Sessions -> {"none", "live", "ended"}]
        /\ UNCHANGED <<outbox, row, stored, repeated, watermark, refusals, req>>
    BY DEF sessionStarts, fetch_machine_session, _expire_lease, isolationOver,
           machineVars, serverVars, IInv, TypeOK
  <1> QED BY <1>1, RequestsSound, RequestsMoved

-----------------------------------------------------------------------------
(***************************************************************************)
(* Steps of the machine that append rows                                   *)
(***************************************************************************)

\* The marks of the session rows do not move when sessions open and close.
SameMarks(M, N) ==
  /\ N \in [Sessions -> [known : BOOLEAN, closed : BOOLEAN, mark : Nat]]
  /\ \A s \in Sessions : N[s].mark = M[s].mark

\* What a step of the machine's own tables must show to keep the invariant.
LEMMA MachineMoved ==
  ASSUME IInv, outbox' \in Seq(Rows), Extends(outbox, outbox'),
         \A i \in DOMAIN outbox' : RowOK(i, outbox'[i], stored, refusals, row),
         SameMarks(row, row'), UNCHANGED <<req, serverVars, isolating, faults>>,
         answer' \in Sessions \cup {NoSession, NoAnswer}, lease' \in Sessions \cup {NoSession}
  PROVE  IInv'
  <1>1. /\ outbox \in Seq(Rows) /\ stored \subseteq DOMAIN outbox
        /\ \A s \in Sessions : row[s].mark \in Nat
    BY Types DEF IInv
  <1>2. DataOK(outbox, row, watermark, req, stored, refusals)
    BY DEF IInv
  <1>3. DataOK(outbox', row', watermark, req, stored, refusals)
    BY <1>1, <1>2, RequestsSound, MachineStep DEF SameMarks
  <1>4. DOMAIN outbox \subseteq DOMAIN outbox'
    BY <1>1, Domains
  <1>5. TypeOK'
    BY <1>4 DEF IInv, TypeOK, SameMarks, serverVars
  <1> QED BY <1>3, <1>5 DEF IInv, serverVars

\* A freshly written row is pending, with no failure.
LEMMA NewRowSound ==
  ASSUME NEW s \in Sessions \cup {NoSession}, NEW k \in {"event", "watermark"},
         NEW n \in Nat, NEW l \in Nat
  PROVE  /\ NewRow(s, k, n, l) \in Rows /\ NewRow(s, k, n, l).status = "pending"
         /\ NewRow(s, k, n, l).failures < MaxServerFailures
         /\ NewRow(s, k, n, l).session = s /\ NewRow(s, k, n, l).kind = k
  <1>1. 0 \in 0 .. MaxServerFailures /\ 0 < MaxServerFailures
    BY ConstantsAssumption
  <1> QED BY <1>1 DEF NewRow, Rows

\* Writing an event only lengthens the outbox.
LEMMA EmittedSound ==
  ASSUME IInv, NEW s \in Sessions \cup {NoSession}, Emitted(s)
  PROVE  /\ outbox' \in Seq(Rows) /\ Extends(outbox, outbox')
         /\ \A i \in DOMAIN outbox' : RowOK(i, outbox'[i], stored, refusals, row)
  <1> DEFINE w == NewRow(s, "event", 0, 0)
  <1>1. /\ w \in Rows /\ w.status = "pending" /\ w.failures < MaxServerFailures
        /\ w.session = s /\ w.kind = "event"
    BY NewRowSound
  <1>2. outbox \in Seq(Rows) /\ Len(outbox) \in Nat /\ DOMAIN outbox = 1 .. Len(outbox)
    BY Types DEF IInv
  <1>3. outbox' = Append(outbox, w)
    BY DEF Emitted
  <1> HIDE DEF w
  <1>4. /\ outbox' \in Seq(Rows) /\ Len(outbox') = Len(outbox) + 1
        /\ DOMAIN outbox' = 1 .. Len(outbox) + 1
        /\ \A i \in 1 .. Len(outbox) : outbox'[i] = outbox[i]
        /\ outbox'[Len(outbox) + 1] = w
    BY <1>1, <1>2, <1>3
  <1>5. Extends(outbox, outbox')
    BY <1>2, <1>4 DEF Extends
  <1>6. \A i \in DOMAIN outbox : RowOK(i, outbox[i], stored, refusals, row)
    BY RowFacts
  <1>7. RowOK(Len(outbox) + 1, w, stored, refusals, row)
    BY <1>1 DEF RowOK
  <1>8. \A i \in DOMAIN outbox' : i \in DOMAIN outbox \/ i = Len(outbox) + 1
    BY <1>2, <1>4
  <1>9. \A i \in DOMAIN outbox' : RowOK(i, outbox'[i], stored, refusals, row)
    BY <1>2, <1>4, <1>6, <1>7, <1>8
  <1> QED BY <1>4, <1>5, <1>9

\* Writing nothing leaves every row sound.
LEMMA NothingAppended ==
  ASSUME IInv, UNCHANGED outbox
  PROVE  /\ outbox' \in Seq(Rows) /\ Extends(outbox, outbox')
         /\ \A i \in DOMAIN outbox' : RowOK(i, outbox'[i], stored, refusals, row)
  BY Types, RowFacts DEF IInv, Extends

\* Writing an event keeps the invariant.
LEMMA EmitKeeps ==
  ASSUME IInv, emit
  PROVE  IInv'
  <1>1. lease \in Sessions \cup {NoSession} /\ SameMarks(row, row)
    BY DEF IInv, TypeOK, SameMarks
  <1>2. PICK s \in {lease, NoSession} : Emitted(s)
    BY DEF emit
  <1>3. /\ outbox' \in Seq(Rows) /\ Extends(outbox, outbox')
        /\ \A i \in DOMAIN outbox' : RowOK(i, outbox'[i], stored, refusals, row)
    BY <1>1, <1>2, EmittedSound
  <1>4. UNCHANGED <<lease, row, answer, isolating, serverVars, req, faults>>
    BY DEF emit
  <1>5. answer' \in Sessions \cup {NoSession, NoAnswer}
    BY <1>4 DEF IInv, TypeOK
  <1> QED BY <1>1, <1>3, <1>4, <1>5, MachineMoved

\* Closing the other sessions leaves every watermark where it was.
LEMMA ClosingKeepsMarks ==
  ASSUME NEW M \in [Sessions -> [known : BOOLEAN, closed : BOOLEAN, mark : Nat]], NEW s
  PROVE  SameMarks(M, close_sessions_except(M, s))
  BY DEF SameMarks, close_sessions_except

\* Opening a session leaves every watermark where it was.
LEMMA OpeningKeepsMarks ==
  ASSUME NEW M \in [Sessions -> [known : BOOLEAN, closed : BOOLEAN, mark : Nat]],
         NEW s \in Sessions
  PROVE  SameMarks(M, ensure_session(M, s))
  BY DEF SameMarks, ensure_session

\* A session poll and its local bookkeeping keep the invariant.
LEMMA PollKeeps ==
  ASSUME IInv, _poll_server_session
  PROVE  IInv'
  <1>1. row \in [Sessions -> [known : BOOLEAN, closed : BOOLEAN, mark : Nat]]
    BY DEF IInv, TypeOK
  <1>2. answer \in Sessions \cup {NoSession} /\ UNCHANGED <<isolating, serverVars, req, faults>>
    BY DEF _poll_server_session, IInv, TypeOK
  <1>3. answer' \in Sessions \cup {NoSession, NoAnswer}
    BY DEF _poll_server_session
  <1>4. CASE row' = close_sessions_except(row, answer) /\ UNCHANGED outbox
    <2>1. lease' \in Sessions \cup {NoSession}
      BY <1>2 DEF _poll_server_session, activate_lease
    <2>2. SameMarks(row, row')
      BY <1>1, <1>4, ClosingKeepsMarks
    <2> QED BY <1>2, <1>3, <1>4, <2>1, <2>2, NothingAppended, MachineMoved
  <1>5. CASE answer \in Sessions /\ activate_lease(answer)
    <2> DEFINE N == ensure_session(row, answer)
    <2>1. lease' = answer /\ row' = close_sessions_except(N, answer)
      BY <1>5 DEF activate_lease
    <2>2. SameMarks(row, N)
      BY <1>1, <1>5, OpeningKeepsMarks
    <2> HIDE DEF N
    <2>3. SameMarks(N, row')
      BY <2>1, <2>2, ClosingKeepsMarks DEF SameMarks
    <2>4. SameMarks(row, row')
      BY <2>2, <2>3 DEF SameMarks
    <2>5. /\ outbox' \in Seq(Rows) /\ Extends(outbox, outbox')
          /\ \A i \in DOMAIN outbox' : RowOK(i, outbox'[i], stored, refusals, row)
      BY <1>5, EmittedSound, NothingAppended DEF activate_lease
    <2> QED BY <1>2, <1>3, <1>5, <2>1, <2>4, <2>5, MachineMoved
  <1> QED BY <1>4, <1>5 DEF _poll_server_session

\* A bounded set of positions has a last one.
LEMMA LastOf ==
  ASSUME NEW n \in Nat, NEW T \in SUBSET (1 .. n), T # {}
  PROVE  \E i \in T : \A j \in T : j <= i
  <1> DEFINE D == {n - i : i \in T}
  <1>1. D \in SUBSET Nat /\ D # {}
    <2>1. \A i \in T : i \in Nat /\ n - i \in Nat
      OBVIOUS
    <2>2. PICK i \in T : TRUE
      OBVIOUS
    <2>3. n - i \in D
      OBVIOUS
    <2> QED BY <2>1, <2>3
  <1>2. PICK d \in D : \A x \in D : d <= x
    BY <1>1, FirstOf
  <1>3. PICK i \in T : d = n - i
    OBVIOUS
  <1>4. ASSUME NEW j \in T PROVE j <= i
    <2>1. i \in Nat /\ j \in Nat
      OBVIOUS
    <2>2. n - j \in D
      BY Zenon
    <2> HIDE DEF D
    <2>3. n - i <= n - j
      BY <1>2, <1>3, <2>2
    <2> QED BY <2>1, <2>3
  <1> QED BY <1>4

\* What a watermark states is a number and a position.
LEMMA Counted ==
  ASSUME IInv, NEW s
  PROVE  Cardinality(WithStatus(s, "sent")) \in Nat /\ LastSent(s) \in Nat
  <1> DEFINE T == WithStatus(s, "sent")
  <1>1. Len(outbox) \in Nat /\ DOMAIN outbox = 1 .. Len(outbox)
    BY Types DEF IInv
  <1>2. T \in SUBSET (1 .. Len(outbox))
    BY <1>1 DEF WithStatus, EventsOf
  <1>3. IsFiniteSet(1 .. Len(outbox))
    BY <1>1, FS_Interval
  <1>4. Cardinality(T) \in Nat
    BY <1>2, <1>3, FS_Subset, FS_CardinalityType
  <1>5. LastSent(s) \in Nat
    <2>1. CASE T = {}
      BY <2>1 DEF LastSent
    <2>2. CASE T # {}
      <3>1. \E i \in T : \A j \in T : j <= i
        BY <1>1, <1>2, <2>2, LastOf
      <3>2. LastSent(s) \in T
        BY <2>2, <3>1 DEF LastSent
      <3> QED BY <1>2, <3>2
    <2> QED BY <2>1, <2>2
  <1> QED BY <1>4, <1>5

\* Queuing watermarks: each lies behind the events of its session, all of them
\* acknowledged.
LEMMA FlushKeeps ==
  ASSUME IInv, NEW r \in Requests, flush_once(r)
  PROVE  IInv'
  <1> DEFINE L == Len(outbox)
             c == Cardinality(Ready)
             Mark(x) == NewRow(x, "watermark", Cardinality(WithStatus(x, "sent")), LastSent(x))
             Place(o, x) == CHOOSE k \in DOMAIN o : o[k] = x
  <1>1. PICK order \in [1 .. c -> Ready] :
          /\ \A s \in Ready : \E k \in DOMAIN order : order[k] = s
          /\ outbox' = outbox \o [k \in DOMAIN order |-> Mark(order[k])]
          /\ row' = [s \in Sessions |->
               IF s \in Ready THEN [row[s] EXCEPT !.mark = L + Place(order, s)] ELSE row[s]]
    BY DEF flush_once, enqueue_close_watermarks
  <1>2. /\ outbox \in Seq(Rows) /\ L \in Nat /\ DOMAIN outbox = 1 .. L
        /\ \A s \in Sessions : row[s].mark \in Nat
        /\ stored \subseteq DOMAIN outbox
    BY Types DEF IInv
  <1>3. c \in Nat
    <2>1. Ready \in SUBSET Sessions /\ IsFiniteSet(Sessions)
      BY ConstantsAssumption DEF Ready
    <2> QED BY <2>1, FS_Subset, FS_CardinalityType
  <1> DEFINE tail == [k \in DOMAIN order |-> Mark(order[k])]
  <1>4. \A x \in Ready : /\ Mark(x) \in Rows /\ Mark(x).status = "pending"
                         /\ Mark(x).failures < MaxServerFailures
                         /\ Mark(x).session = x /\ Mark(x).kind = "watermark"
    <2>1. Ready \subseteq Sessions
      BY DEF Ready
    <2> QED BY <2>1, Counted, NewRowSound
  <1> HIDE DEF Mark
  <1>5. tail \in [1 .. c -> Rows] /\ DOMAIN order = 1 .. c
    BY <1>4
  <1>6. tail \in Seq(Rows) /\ Len(tail) = c
    <2>1. tail \in Seq(Rows)
      BY <1>3, <1>5, SeqDef
    <2>2. DOMAIN tail = 1 .. Len(tail) /\ Len(tail) \in Nat
      BY <2>1, LenProperties
    <2> QED BY <1>3, <1>5, <2>1, <2>2
  <1>7. /\ outbox' \in Seq(Rows) /\ Len(outbox') = L + c /\ DOMAIN outbox' = 1 .. L + c
        /\ \A i \in 1 .. L : outbox'[i] = outbox[i]
        /\ \A i \in 1 .. L + c : i > L =>
             order[i - L] \in Ready /\ outbox'[i] = Mark(order[i - L])
    <2>1. \A k \in 1 .. c : order[k] \in Ready /\ tail[k] = Mark(order[k])
      BY <1>5
    <2>2. outbox' = outbox \o tail
      BY <1>1
    <2> HIDE DEF tail, L, c
    <2>3. /\ outbox' \in Seq(Rows) /\ Len(outbox') = L + c
          /\ \A i \in 1 .. L + c : outbox'[i] = IF i <= L THEN outbox[i] ELSE tail[i - L]
      BY <1>2, <1>6, <2>2, ConcatProperties DEF L
    <2>4. DOMAIN outbox' = 1 .. L + c
      BY <2>3, LenProperties
    <2>5. \A i \in 1 .. L : outbox'[i] = outbox[i]
      BY <1>2, <1>3, <2>3
    <2>6. ASSUME NEW i \in 1 .. L + c, i > L
          PROVE  order[i - L] \in Ready /\ outbox'[i] = Mark(order[i - L])
      <3>1. i - L \in 1 .. c
        BY <1>2, <1>3, <2>6
      <3>2. outbox'[i] = tail[i - L]
        BY <1>2, <1>3, <2>3, <2>6
      <3> QED BY <2>1, <3>1, <3>2
    <2> QED BY <2>3, <2>4, <2>5, <2>6
  <1> HIDE DEF tail
  <1>8. Extends(outbox, outbox')
    <2>1. \A i \in DOMAIN outbox : outbox'[i] = outbox[i]
      BY <1>2, <1>3, <1>7
    <2> QED BY <1>2, <1>3, <1>7, <2>1 DEF Extends
  <1>9. \A s \in Ready : Place(order, s) \in 1 .. c
    BY <1>1, <1>5
  <1>10. \A s \in Sessions :
           /\ row'[s].mark = IF s \in Ready THEN L + Place(order, s) ELSE row[s].mark
           /\ row'[s] \in [known : BOOLEAN, closed : BOOLEAN, mark : Nat]
    <2>1. row \in [Sessions -> [known : BOOLEAN, closed : BOOLEAN, mark : Nat]]
      BY DEF IInv, TypeOK
    <2>2. \A s \in Ready : L + Place(order, s) \in Nat
      BY <1>2, <1>9
    <2> HIDE DEF Place
    <2> QED BY <1>1, <2>1, <2>2
  <1> HIDE DEF Place
  <1>11. ASSUME NEW i \in DOMAIN outbox'
         PROVE  RowOK(i, outbox'[i], stored, refusals, row')
    <2>1. CASE i <= L
      <3>1. i \in DOMAIN outbox /\ outbox'[i] = outbox[i]
        BY <1>2, <1>7, <2>1
      <3>2. RowOK(i, outbox[i], stored, refusals, row)
        BY <3>1, RowFacts
      <3>3. \A s \in Sessions : row[s].mark # 0 => row'[s].mark # 0
        BY <1>2, <1>9, <1>10
      <3> QED BY <3>1, <3>2, <3>3 DEF RowOK
    <2>2. CASE i > L
      <3>1. order[i - L] \in Ready /\ outbox'[i] = Mark(order[i - L])
        BY <1>7, <2>2
      <3>2. \A s \in Ready : s \in Sessions /\ row'[s].mark # 0
        <4>1. \A s \in Ready : s \in Sessions
          BY DEF Ready
        <4> QED BY <1>2, <1>9, <1>10, <4>1
      <3> QED BY <1>4, <3>1, <3>2 DEF RowOK
    <2> QED BY <1>2, <1>7, <2>1, <2>2
  <1>12. MarksOK(outbox', row', watermark)
    <2>1. ASSUME NEW s \in Sessions
          PROVE  /\ row'[s].mark <= Len(outbox')
                 /\ watermark[s] => row'[s].mark # 0
      <3>1. row[s].mark <= L /\ (watermark[s] => row[s].mark # 0)
        BY DEF IInv, DataOK, MarksOK
      <3> QED BY <1>2, <1>3, <1>7, <1>9, <1>10, <3>1
    <2>2. ASSUME NEW s \in Sessions, NEW i \in DOMAIN outbox',
                 outbox'[i].session = s, outbox'[i].kind = "event", i < row'[s].mark
          PROVE  outbox'[i].status = "sent"
      <3>1. i <= L
        <4>1. SUFFICES ASSUME i > L PROVE FALSE
          BY <1>2, <1>7
        <4>2. order[i - L] \in Ready /\ outbox'[i] = Mark(order[i - L])
          BY <1>7, <4>1
        <4> QED BY <1>4, <2>2, <4>2
      <3>2. i \in DOMAIN outbox /\ outbox'[i] = outbox[i]
        BY <1>2, <1>7, <3>1
      <3>3. CASE s \in Ready
        <4>1. outbox[i].status \notin {"pending", "dead_letter"}
          BY <2>2, <3>2, <3>3 DEF Ready, WithStatus, EventsOf
        <4>2. outbox[i] \in Rows
          BY <3>2, RowFacts
        <4>3. outbox[i].status = "sent"
          BY <4>1, <4>2 DEF Rows
        <4> QED BY <3>2, <4>3
      <3>4. CASE s \notin Ready
        <4>1. row'[s].mark = row[s].mark
          BY <1>10, <3>4
        <4> QED BY <2>2, <3>2, <4>1 DEF IInv, DataOK, MarksOK
      <3> QED BY <3>3, <3>4
    <2> QED BY <2>1, <2>2 DEF MarksOK
  <1> DEFINE q == [req[r] EXCEPT !.phase = "marked"]
  <1>13. req[r] \in RequestRows /\ req' = [req EXCEPT ![r] = q]
    BY RequestsSound DEF flush_once
  <1>14. /\ q \in RequestRows /\ q.rows = req[r].rows /\ q.dups = req[r].dups
         /\ q.held = req[r].held /\ q.res = req[r].res /\ q.phase = "marked"
    BY <1>13 DEF RequestRows, Phases
  <1> HIDE DEF q
  <1>15. /\ req' \in [Requests -> RequestRows]
         /\ \A x \in Requests : AnswersOK(req'[x], outbox, stored, refusals)
    BY <1>13, <1>14, RequestMoved
  <1>16. \A x \in Requests : AnswersOK(req'[x], outbox', stored, refusals)
    BY <1>2, <1>7, <1>8, <1>15, AnswersFrame
  <1>17. OrderOK(outbox', stored, refusals)
    <2>1. \A i \in DOMAIN outbox : \A e : Before(outbox', e, i) <=> Before(outbox, e, i)
      BY <1>2, <1>7, <1>8, Domains
    <2>2. \A i \in stored : i \in DOMAIN outbox /\ outbox'[i].session = outbox[i].session
      BY <1>2, <1>8 DEF Extends
    <2> QED BY <2>1, <2>2 DEF OrderOK, IInv, DataOK
  <1>18. UNCHANGED <<lease, answer, isolating, serverVars, faults>>
    BY DEF flush_once
  <1>19. DataOK(outbox', row', watermark', req', stored', refusals')
    BY <1>11, <1>12, <1>16, <1>17, <1>18 DEF DataOK, serverVars
  <1>20. TypeOK'
    <2>1. row' \in [Sessions -> [known : BOOLEAN, closed : BOOLEAN, mark : Nat]]
      BY <1>1, <1>10
    <2>2. DOMAIN outbox \subseteq DOMAIN outbox'
      BY <1>2, <1>3, <1>7
    <2>3. \A x \in Requests : req'[x].rows \subseteq DOMAIN outbox'
      BY <1>16 DEF AnswersOK
    <2> QED BY <1>7, <1>15, <1>18, <2>1, <2>2, <2>3 DEF IInv, TypeOK, serverVars
  <1> QED BY <1>18, <1>19, <1>20 DEF IInv, serverVars

-----------------------------------------------------------------------------
(***************************************************************************)
(* Reading and sending a batch                                             *)
(***************************************************************************)

\* A batch skips an earlier event of a session only if it is settled.
LEMMA BatchSound ==
  ASSUME IInv, NEW limit \in Nat
  PROVE  /\ pending(limit) \subseteq DOMAIN outbox
         /\ \A i \in pending(limit) : outbox[i].session # NoSession =>
              \A e : Before(outbox, e, i) => e \in pending(limit) \/ Settled(e, stored, refusals)
  <1>1. Len(outbox) \in Nat /\ DOMAIN outbox = 1 .. Len(outbox)
    BY Types DEF IInv
  <1>2. Due \subseteq DOMAIN outbox /\ pending(limit) \subseteq Due
    BY DEF Due, pending
  <1>3. ASSUME NEW i \in pending(limit), outbox[i].session # NoSession,
               NEW e, Before(outbox, e, i)
        PROVE  e \in pending(limit) \/ Settled(e, stored, refusals)
    <2>1. i \in Due /\ i \in DOMAIN outbox /\ e \in DOMAIN outbox /\ e < i /\ e \in Earlier(i)
          /\ outbox[e].session = outbox[i].session
      BY <1>2, <1>3 DEF Before, Earlier
    <2>2. /\ ~(outbox[e].status = "pending" /\ ~outbox[e].due)
          /\ ~(outbox[e].status = "dead_letter" /\ outbox[e].limit)
      BY <1>3, <2>1 DEF Due
    <2>3. outbox[e] \in Rows /\ RowOK(e, outbox[e], stored, refusals, row)
      BY <2>1, RowFacts
    <2>4. CASE outbox[e].status # "pending"
      <3>1. outbox[e].status \in {"sent", "dead_letter"}
        BY <2>3, <2>4 DEF Rows
      <3> QED BY <2>2, <2>3, <3>1 DEF RowOK, Settled
    <2>5. CASE outbox[e].status = "pending"
      <3>1. \A x \in Earlier(e) : x \in Earlier(i)
        BY <1>1, <2>1 DEF Earlier
      <3>2. \A x \in Earlier(i) :
              /\ ~(outbox[x].status = "pending" /\ ~outbox[x].due)
              /\ ~(outbox[x].status = "dead_letter" /\ outbox[x].limit)
        BY <1>3, <2>1 DEF Due
      <3>3. e \in Due
        BY <2>1, <2>2, <2>5, <3>1, <3>2 DEF Due
      <3> DEFINE X == {j \in Due : j < e}
                 Y == {j \in Due : j < i}
      <3>4. X \in SUBSET Y /\ Y \in SUBSET (1 .. Len(outbox))
        BY <1>1, <1>2, <2>1
      <3>5. IsFiniteSet(Y)
        <4>1. IsFiniteSet(1 .. Len(outbox))
          BY <1>1, FS_Interval
        <4> QED BY <3>4, <4>1, FS_Subset
      <3>6. /\ Cardinality(X) <= Cardinality(Y) /\ Cardinality(X) \in Nat
            /\ Cardinality(Y) \in Nat
        BY <3>4, <3>5, FS_Subset, FS_CardinalityType
      <3>7. Cardinality(Y) < limit
        BY <1>3 DEF pending
      <3> HIDE DEF X, Y
      <3>8. Cardinality(X) < limit
        BY <3>6, <3>7
      <3> QED BY <3>3, <3>8 DEF pending, X
    <2> QED BY <2>4, <2>5
  <1> QED BY <1>2, <1>3

\* Taking a batch from the outbox keeps the invariant.
LEMMA SendKeeps ==
  ASSUME IInv, NEW r \in Requests, sendBatch(r)
  PROVE  IInv'
  <1> DEFINE rows == pending(IF isolating THEN 1 ELSE BatchSize)
             q == IF rows = {} THEN Idle
                  ELSE [Idle EXCEPT !.phase = "sent", !.rows = rows, !.waiting = TRUE]
  <1>1. (IF isolating THEN 1 ELSE BatchSize) \in Nat
    BY ConstantsAssumption
  <1>2. /\ rows \subseteq DOMAIN outbox
        /\ \A i \in rows : outbox[i].session # NoSession =>
             \A e : Before(outbox, e, i) => e \in rows \/ Settled(e, stored, refusals)
    BY <1>1, BatchSound
  <1>3. req' = [req EXCEPT ![r] = q]
    BY DEF sendBatch
  <1>4. rows \in SUBSET Nat
    BY <1>2, Types DEF IInv
  <1> HIDE DEF rows
  <1>5. q \in RequestRows
    BY <1>4 DEF Idle, RequestRows, Phases
  <1>6. AnswersOK(q, outbox, stored, refusals)
    <2>1. CASE rows = {}
      BY <2>1, AnswersIdle
    <2>2. CASE rows # {}
      <3>1. q.phase = "sent" /\ q.rows = rows /\ q.dups = {} /\ q.res = {}
        BY <2>2 DEF Idle
      <3> HIDE DEF q
      <3> QED BY <1>2, <2>2, <3>1 DEF AnswersOK
    <2> QED BY <2>1, <2>2
  <1> HIDE DEF q
  <1>7. /\ req' \in [Requests -> RequestRows]
        /\ \A x \in Requests : AnswersOK(req'[x], outbox, stored, refusals)
    BY <1>3, <1>5, <1>6, RequestsSound
  <1>8. UNCHANGED <<machineVars, serverVars, faults>>
    BY DEF sendBatch
  <1> QED BY <1>7, <1>8, RequestsMoved DEF machineVars, serverVars, IInv, TypeOK

\* A batch's arrival, with its lookup of duplicates, keeps the invariant.
LEMMA ArriveKeeps ==
  ASSUME IInv, NEW r \in Requests, arrive(r)
  PROVE  IInv'
  <1> DEFINE q == [req[r] EXCEPT !.phase = "serving", !.dups = req[r].rows \cap stored]
  <1>1. req[r] \in RequestRows /\ AnswersOK(req[r], outbox, stored, refusals)
    BY RequestsSound
  <1>2. req' = [req EXCEPT ![r] = q] /\ req[r].phase = "sent"
    BY <1>1 DEF arrive
  <1>3. /\ q \in RequestRows /\ q.rows = req[r].rows /\ q.held = req[r].held
        /\ q.res = req[r].res /\ q.dups = req[r].rows \cap stored
    BY <1>1 DEF RequestRows, Phases
  <1> HIDE DEF q
  <1>4. AnswersOK(q, outbox, stored, refusals)
    BY <1>1, <1>2, <1>3 DEF AnswersOK
  <1>5. /\ req' \in [Requests -> RequestRows]
        /\ \A x \in Requests : AnswersOK(req'[x], outbox, stored, refusals)
    BY <1>2, <1>3, <1>4, RequestsSound
  <1>6. UNCHANGED <<machineVars, serverVars, faults>>
    BY DEF arrive
  <1> QED BY <1>5, <1>6, RequestsMoved DEF machineVars, serverVars, IInv, TypeOK

-----------------------------------------------------------------------------
(***************************************************************************)
(* The server                                                              *)
(***************************************************************************)

\* The current event is the first without a result: those of the batch before
\* it have one.
LEMMA CurrentFirst ==
  ASSUME IInv, NEW r \in Requests, req[r].phase = "serving"
  PROVE  /\ Current(r) \in req[r].rows /\ Current(r) \in DOMAIN outbox
         /\ \A k \in Results : <<Current(r), k>> \notin req[r].res
         /\ \A j \in req[r].rows : j < Current(r) => \E k \in Results : <<j, k>> \in req[r].res
  <1>1. AnswersOK(req[r], outbox, stored, refusals) /\ req[r].rows \subseteq DOMAIN outbox
    BY RequestsSound
  <1>2. DOMAIN outbox \subseteq Nat
    BY Types DEF IInv
  <1>3. Unanswered(r) # {} /\ Unanswered(r) \in SUBSET Nat
    BY <1>1, <1>2 DEF AnswersOK, Unanswered
  <1>4. \E i \in Unanswered(r) : \A j \in Unanswered(r) : i <= j
    BY <1>3, FirstOf
  <1>5. Current(r) \in Unanswered(r) /\ \A j \in Unanswered(r) : Current(r) <= j
    BY <1>4 DEF Current
  <1>6. Current(r) \in req[r].rows /\ \A k \in Results : <<Current(r), k>> \notin req[r].res
    BY <1>5 DEF Unanswered
  <1>7. ASSUME NEW j \in req[r].rows, j < Current(r)
        PROVE  \E k \in Results : <<j, k>> \in req[r].res
    <2>1. j \in Nat /\ Current(r) \in Nat
      BY <1>1, <1>2, <1>6
    <2>2. j \notin Unanswered(r)
      BY <1>5, <1>7, <2>1
    <2> QED BY <2>2 DEF Unanswered
  <1> QED BY <1>1, <1>6, <1>7

\* A result that is true keeps the request sound.
LEMMA RespondSound ==
  ASSUME IInv, NEW r \in Requests, req[r].phase = "serving", NEW kind \in Results,
         NEW h \in SUBSET Sessions, Respond(r, kind, h),
         NEW S, stored \subseteq S, NEW R, refusals \subseteq R,
         kind = "ack" => Current(r) \in S,
         kind = "permanent" => <<Current(r), "permanent">> \in R,
         kind = "transient" => <<Current(r), "transient">> \in R,
         kind \in {"transient", "held"} =>
           outbox[Current(r)].session \in req[r].held \cup h \cup {NoSession}
  PROVE  /\ req' \in [Requests -> RequestRows]
         /\ \A x \in Requests : /\ AnswersOK(req'[x], outbox, S, R)
                               /\ req'[x].rows \subseteq DOMAIN outbox
  <1> DEFINE i == Current(r)
             q == [req[r] EXCEPT !.res = @ \cup {<<i, kind>>},
                                 !.held = @ \cup h, !.racing = FALSE]
             p == [q EXCEPT !.phase = "answered"]
  <1>1. /\ i \in req[r].rows /\ i \in DOMAIN outbox
        /\ \A k \in Results : <<i, k>> \notin req[r].res
    BY CurrentFirst
  <1>2. /\ req[r] \in RequestRows /\ outbox \in Seq(Rows)
        /\ \A x \in Requests : AnswersOK(req[x], outbox, stored, refusals)
    BY RequestsSound, Types DEF IInv
  <1>3. \A x \in Requests : AnswersOK(req[x], outbox, S, R)
    <2>1. Extends(outbox, outbox)
      BY Types DEF Extends, IInv
    <2> QED BY <1>2, <2>1, AnswersFrame
  <1>4. i \in Nat
    BY <1>1, Types DEF IInv
  <1>5. req' = [req EXCEPT ![r] =
          IF Unanswered(r) # {i} THEN q ELSE IF q.waiting THEN p ELSE Idle]
    BY DEF Respond
  <1> HIDE DEF i
  <1>6. /\ q \in RequestRows /\ q.rows = req[r].rows /\ q.dups = req[r].dups
        /\ q.held = req[r].held \cup h /\ q.res = req[r].res \cup {<<i, kind>>}
        /\ q.phase = req[r].phase
    <2> DEFINE A == req[r].res \cup {<<i, kind>>}
               H == req[r].held \cup h
    <2>1. A \in SUBSET (Nat \X Results) /\ H \in SUBSET Sessions
      BY <1>2, <1>4 DEF RequestRows
    <2>2. q = [req[r] EXCEPT !.res = A, !.held = H, !.racing = FALSE]
      BY <1>2
    <2> HIDE DEF A, H, q
    <2>3. /\ q \in RequestRows /\ q.rows = req[r].rows /\ q.dups = req[r].dups
          /\ q.held = H /\ q.res = A /\ q.phase = req[r].phase
      BY <1>2, <2>1, <2>2 DEF RequestRows
    <2> QED BY <2>3 DEF A, H
  <1>7. /\ p \in RequestRows /\ p.rows = q.rows /\ p.dups = q.dups
        /\ p.held = q.held /\ p.res = q.res /\ p.phase = "answered"
    BY <1>2, <1>4, <1>6 DEF RequestRows, Phases
  <1> HIDE DEF q, p
  <1>8. \A j \in q.rows :
          /\ <<j, "ack">> \in q.res => j \in S
          /\ <<j, "permanent">> \in q.res => <<j, "permanent">> \in R
          /\ <<j, "transient">> \in q.res => <<j, "transient">> \in R
          /\ <<j, "transient">> \in q.res \/ <<j, "held">> \in q.res
               => outbox[j].session \in q.held \cup {NoSession}
    BY <1>3, <1>6 DEF AnswersOK, i
  <1>9. AnswersOK(p, outbox, S, R)
    BY <1>3, <1>6, <1>7, <1>8 DEF AnswersOK
  <1>10. Unanswered(r) # {i} => AnswersOK(q, outbox, S, R)
    <2>1. SUFFICES ASSUME Unanswered(r) # {i} PROVE AnswersOK(q, outbox, S, R)
      OBVIOUS
    <2>2. i \in Unanswered(r)
      BY <1>1 DEF Unanswered
    <2>3. PICK j \in Unanswered(r) : j # i
      BY <2>1, <2>2
    <2>4. j \in q.rows /\ \A k \in Results : <<j, k>> \notin q.res
      BY <1>6, <2>3 DEF Unanswered
    <2> QED BY <1>3, <1>6, <1>8, <2>4 DEF AnswersOK
  <1>11. req'[r] \in RequestRows /\ AnswersOK(req'[r], outbox, S, R)
    <2>1. req'[r] = IF Unanswered(r) # {i} THEN q ELSE IF q.waiting THEN p ELSE Idle
      BY <1>5, RequestsSound
    <2> QED BY <1>6, <1>7, <1>9, <1>10, <2>1, AnswersIdle, IdleTyped
  <1>12. /\ req' \in [Requests -> RequestRows]
         /\ \A x \in Requests : AnswersOK(req'[x], outbox, S, R)
    <2>1. \A x \in Requests \ {r} : req'[x] = req[x]
      BY <1>5, RequestsSound
    <2> QED BY <1>3, <1>5, <1>11, <2>1, RequestsSound
  <1> QED BY <1>12 DEF AnswersOK

\* A batch handler's step that stores nothing.
LEMMA NothingStored ==
  ASSUME IInv, req' \in [Requests -> RequestRows],
         \A x \in Requests : /\ AnswersOK(req'[x], outbox, stored, refusals')
                             /\ req'[x].rows \subseteq DOMAIN outbox,
         refusals \subseteq refusals',
         refusals' \subseteq (DOMAIN outbox) \X {"transient", "permanent"},
         UNCHANGED <<machineVars, status, stored, repeated, watermark, faults>>
  PROVE  IInv'
  <1>1. DataOK(outbox', row', watermark', req', stored', refusals')
    <2>1. \A i \in DOMAIN outbox : RowOK(i, outbox[i], stored, refusals', row)
      BY RowFacts DEF RowOK
    <2>2. OrderOK(outbox, stored, refusals')
      BY DEF IInv, DataOK, OrderOK, Settled
    <2>3. MarksOK(outbox, row, watermark)
      BY DEF IInv, DataOK
    <2> QED BY <2>1, <2>2, <2>3 DEF DataOK, machineVars
  <1>2. TypeOK'
    BY DEF IInv, TypeOK, machineVars
  <1> QED BY <1>1, <1>2 DEF IInv

\* An event already stored is acknowledged and not stored again.
LEMMA DuplicateKeeps ==
  ASSUME IInv, NEW r \in Requests, duplicate(r)
  PROVE  IInv'
  <1>1. req[r].phase = "serving" /\ Respond(r, "ack", {})
    BY DEF duplicate
  <1>2. Current(r) \in stored
    BY RequestsSound DEF duplicate, AnswersOK
  <1>3. "ack" \in Results /\ {} \in SUBSET Sessions
    BY DEF Results
  <1>4. /\ req' \in [Requests -> RequestRows]
        /\ \A x \in Requests : /\ AnswersOK(req'[x], outbox, stored, refusals)
                              /\ req'[x].rows \subseteq DOMAIN outbox
    BY <1>1, <1>2, <1>3, RespondSound
  <1>5. UNCHANGED <<machineVars, serverVars, faults>>
    BY DEF duplicate
  <1> QED BY <1>4, <1>5, NothingStored DEF serverVars, IInv, TypeOK

\* An event that must wait for another keeps the invariant.
LEMMA HoldKeeps ==
  ASSUME IInv, NEW r \in Requests, hold(r)
  PROVE  IInv'
  <1>1. req[r].phase = "serving" /\ Respond(r, "held", {}) /\ outbox[Current(r)].session \in req[r].held
    BY DEF hold, SessionHeld
  <1>2. "held" \in Results /\ {} \in SUBSET Sessions
    BY DEF Results
  <1>3. /\ req' \in [Requests -> RequestRows]
        /\ \A x \in Requests : /\ AnswersOK(req'[x], outbox, stored, refusals)
                              /\ req'[x].rows \subseteq DOMAIN outbox
    BY <1>1, <1>2, RespondSound
  <1>4. UNCHANGED <<machineVars, serverVars, faults>>
    BY DEF hold
  <1> QED BY <1>3, <1>4, NothingStored DEF serverVars, IInv, TypeOK

\* A passing failure at the server keeps the invariant.
LEMMA TransientKeeps ==
  ASSUME IInv, NEW r \in Requests, failTransient(r)
  PROVE  IInv'
  <1> DEFINE h == {SessionOf(r)} \ {NoSession}
  <1>1. req[r].phase = "serving" /\ Respond(r, "transient", h)
    BY DEF failTransient, Ingesting
  <1>2. Current(r) \in DOMAIN outbox /\ outbox[Current(r)] \in Rows
    BY <1>1, CurrentFirst, RowFacts
  <1>3. h \in SUBSET Sessions /\ outbox[Current(r)].session \in h \cup {NoSession}
    BY <1>2 DEF SessionOf, Rows
  <1>4. "transient" \in Results
    BY DEF Results
  <1>5. /\ refusals' = refusals \cup {<<Current(r), "transient">>}
        /\ UNCHANGED <<machineVars, status, stored, repeated, watermark, faults>>
    BY DEF failTransient
  <1> HIDE DEF h
  <1>6. /\ req' \in [Requests -> RequestRows]
        /\ \A x \in Requests : /\ AnswersOK(req'[x], outbox, stored, refusals')
                              /\ req'[x].rows \subseteq DOMAIN outbox
    <2>1. refusals \subseteq refusals' /\ <<Current(r), "transient">> \in refusals'
      BY <1>5
    <2> QED BY <1>1, <1>3, <1>4, <2>1, RespondSound
  <1>7. refusals' \subseteq (DOMAIN outbox) \X {"transient", "permanent"}
    BY <1>2, <1>5 DEF IInv, TypeOK
  <1> QED BY <1>5, <1>6, <1>7, NothingStored

\* A refusal for good keeps the invariant.
LEMMA PermanentKeeps ==
  ASSUME IInv, NEW r \in Requests, failPermanent(r)
  PROVE  IInv'
  <1>1. req[r].phase = "serving" /\ Respond(r, "permanent", {})
    BY DEF failPermanent, Ingesting, Refused
  <1>2. Current(r) \in DOMAIN outbox
    BY <1>1, CurrentFirst
  <1>3. "permanent" \in Results /\ {} \in SUBSET Sessions
    BY DEF Results
  <1>4. /\ refusals' = refusals \cup {<<Current(r), "permanent">>}
        /\ UNCHANGED <<machineVars, status, stored, repeated, watermark, faults>>
    BY DEF failPermanent, Refused
  <1>5. /\ req' \in [Requests -> RequestRows]
        /\ \A x \in Requests : /\ AnswersOK(req'[x], outbox, stored, refusals')
                              /\ req'[x].rows \subseteq DOMAIN outbox
    <2>1. refusals \subseteq refusals' /\ <<Current(r), "permanent">> \in refusals'
      BY <1>4
    <2> QED BY <1>1, <1>3, <2>1, RespondSound
  <1>6. refusals' \subseteq (DOMAIN outbox) \X {"transient", "permanent"}
    BY <1>2, <1>4 DEF IInv, TypeOK
  <1> QED BY <1>4, <1>5, <1>6, NothingStored

\* When an event is ingested, everything its session recorded before it is
\* settled: the batch skipped nothing else, and a failure would hold it.
LEMMA IngestInOrder ==
  ASSUME IInv, NEW r \in Requests, Ingesting(r), outbox[Current(r)].session # NoSession,
         NEW e, Before(outbox, e, Current(r))
  PROVE  Settled(e, stored, refusals)
  <1>1. req[r].phase = "serving" /\ outbox[Current(r)].session \notin req[r].held
    BY DEF Ingesting, SessionHeld
  <1>2. AnswersOK(req[r], outbox, stored, refusals)
    BY RequestsSound
  <1>3. /\ Current(r) \in req[r].rows
        /\ \A j \in req[r].rows : j < Current(r) => \E k \in Results : <<j, k>> \in req[r].res
    BY <1>1, CurrentFirst
  <1>4. e \in req[r].rows \/ Settled(e, stored, refusals)
    BY <1>2, <1>3 DEF AnswersOK
  <1>5. CASE e \in req[r].rows
    <2>1. e < Current(r) /\ outbox[e].session = outbox[Current(r)].session
      BY DEF Before
    <2>2. PICK k \in Results : <<e, k>> \in req[r].res
      BY <1>3, <1>5, <2>1
    <2>3. k \notin {"held", "transient"}
      BY <1>1, <1>2, <1>5, <2>1, <2>2 DEF AnswersOK
    <2>4. k \in {"ack", "permanent"}
      BY <2>2, <2>3 DEF Results
    <2> QED BY <1>2, <1>5, <2>2, <2>4 DEF AnswersOK, Settled
  <1> QED BY <1>4, <1>5

\* Storing an event in order, with the watermarks moved only to sessions that
\* have one queued.
LEMMA AcceptedKeeps ==
  ASSUME IInv, NEW r \in Requests, Ingesting(r), Accepted(r),
         status' \in [Sessions -> {"none", "live", "ended"}],
         watermark' \in [Sessions -> BOOLEAN],
         \A s \in Sessions : watermark'[s] => row[s].mark # 0,
         UNCHANGED <<machineVars, refusals, faults>>
  PROVE  IInv'
  <1>1. /\ req[r].phase = "serving" /\ Respond(r, "ack", {}) /\ Current(r) \notin stored
        /\ stored' = stored \cup {Current(r)}
        /\ repeated' = repeated \cup ({Current(r)} \cap stored)
    BY DEF Ingesting, Accepted
  <1>2. Current(r) \in DOMAIN outbox
    BY <1>1, CurrentFirst
  <1>3. "ack" \in Results /\ {} \in SUBSET Sessions
    BY DEF Results
  <1>4. /\ req' \in [Requests -> RequestRows]
        /\ \A x \in Requests : /\ AnswersOK(req'[x], outbox, stored', refusals)
                              /\ req'[x].rows \subseteq DOMAIN outbox
    <2>1. stored \subseteq stored' /\ Current(r) \in stored'
      BY <1>1
    <2>2. req[r].phase = "serving" /\ Respond(r, "ack", {})
      BY <1>1
    <2> QED BY <1>3, <2>1, <2>2, RespondSound
  <1>5. repeated' = {}
    BY <1>1 DEF IInv
  <1>6. \A i \in DOMAIN outbox : RowOK(i, outbox[i], stored', refusals, row)
    BY <1>1, RowFacts DEF RowOK
  <1>7. OrderOK(outbox, stored', refusals)
    <2>1. ASSUME NEW i \in DOMAIN outbox, i \in stored', outbox[i].session # NoSession,
                 NEW e, Before(outbox, e, i)
          PROVE  Settled(e, stored', refusals)
      <3>1. Settled(e, stored, refusals)
        <4>1. CASE i \in stored
          BY <2>1, <4>1 DEF IInv, DataOK, OrderOK
        <4>2. CASE i = Current(r)
          BY <2>1, <4>2, IngestInOrder
        <4> QED BY <1>1, <2>1, <4>1, <4>2
      <3> QED BY <1>1, <3>1 DEF Settled
    <2> QED BY <2>1 DEF OrderOK
  <1>8. MarksOK(outbox, row, watermark')
    BY DEF IInv, DataOK, MarksOK
  <1>9. DataOK(outbox', row', watermark', req', stored', refusals')
    BY <1>4, <1>6, <1>7, <1>8 DEF DataOK, machineVars
  <1>10. TypeOK'
    BY <1>1, <1>2, <1>4, <1>5 DEF IInv, TypeOK, machineVars
  <1> QED BY <1>5, <1>9, <1>10 DEF IInv

\* Storing an event keeps the invariant.
LEMMA IngestKeeps ==
  ASSUME IInv, NEW r \in Requests, ingestMachineEvent(r)
  PROVE  IInv'
  <1>1. Ingesting(r) /\ Accepted(r) /\ UNCHANGED <<machineVars, watermark, refusals, faults>>
    BY DEF ingestMachineEvent
  <1>2. status' \in [Sessions -> {"none", "live", "ended"}]
    BY DEF ingestMachineEvent, IInv, TypeOK
  <1>3. \A s \in Sessions : watermark'[s] => row[s].mark # 0
    BY <1>1 DEF IInv, DataOK, MarksOK
  <1>4. watermark' \in [Sessions -> BOOLEAN]
    BY <1>1 DEF IInv, TypeOK
  <1> QED BY <1>1, <1>2, <1>3, <1>4, AcceptedKeeps

\* A watermark is applied only with every event before it accounted for.
LEMMA WatermarkKeeps ==
  ASSUME IInv, NEW r \in Requests, handleCloseWatermark(r)
  PROVE  IInv'
  <1> DEFINE n == SessionOf(r)
  <1>1. /\ Ingesting(r) /\ Accepted(r) /\ UNCHANGED <<machineVars, status, refusals, faults>>
        /\ outbox[Current(r)].kind = "watermark"
        /\ watermark' = [watermark EXCEPT ![n] = TRUE]
    BY DEF handleCloseWatermark
  <1>2. Current(r) \in DOMAIN outbox
    BY <1>1, CurrentFirst DEF Ingesting
  <1>3. n \in Sessions /\ row[n].mark # 0
    BY <1>1, <1>2, RowFacts DEF RowOK, SessionOf
  <1> HIDE DEF n
  <1>4. watermark' \in [Sessions -> BOOLEAN]
    BY <1>1 DEF IInv, TypeOK
  <1>5. \A s \in Sessions : watermark[s] => row[s].mark # 0
    BY DEF IInv, DataOK, MarksOK
  <1>6. \A s \in Sessions : s # n => watermark'[s] = watermark[s]
    BY <1>1 DEF IInv, TypeOK
  <1>7. \A s \in Sessions : watermark'[s] => row[s].mark # 0
    BY <1>3, <1>5, <1>6
  <1>8. status' \in [Sessions -> {"none", "live", "ended"}]
    BY <1>1 DEF IInv, TypeOK
  <1> QED BY <1>1, <1>4, <1>7, <1>8, AcceptedKeeps

-----------------------------------------------------------------------------
(***************************************************************************)
(* The theorems                                                            *)
(***************************************************************************)

\* Before anything is written the invariant holds.
LEMMA InitSound == Init => IInv
  <1> SUFFICES ASSUME Init PROVE IInv
    OBVIOUS
  <1>1. outbox = << >> /\ outbox \in Seq(Rows) /\ DOMAIN outbox = {} /\ Len(outbox) = 0
    BY EmptySeq DEF Init
  <1>2. req \in [Requests -> RequestRows] /\ \A r \in Requests : req[r] = Idle
    BY IdleTyped DEF Init
  <1>3. \A r \in Requests : AnswersOK(req[r], outbox, stored, refusals)
    BY <1>2, AnswersIdle
  <1>4. TypeOK
    <2>1. row \in [Sessions -> [known : BOOLEAN, closed : BOOLEAN, mark : Nat]]
      BY DEF Init
    <2>2. \A r \in Requests : req[r].rows \subseteq DOMAIN outbox
      BY <1>3 DEF AnswersOK
    <2>3. /\ status \in [Sessions -> {"none", "live", "ended"}]
          /\ watermark \in [Sessions -> BOOLEAN]
      BY DEF Init
    <2>4. faults \in 0 .. MaxFaults
      BY ConstantsAssumption DEF Init
    <2> QED BY <1>1, <1>2, <2>1, <2>2, <2>3, <2>4 DEF Init, TypeOK
  <1>5. DataOK(outbox, row, watermark, req, stored, refusals)
    BY <1>1, <1>3 DEF Init, DataOK, MarksOK, OrderOK
  <1> QED BY <1>4, <1>5 DEF IInv, Init

\* Every step of machine, network and server keeps the invariant.
LEMMA StepSound == IInv /\ [Next]_vars => IInv'
  <1> SUFFICES ASSUME IInv, [Next]_vars PROVE IInv'
    OBVIOUS
  <1>1. ASSUME NEW s \in Sessions, sessionStarts(s) \/ sessionEnds(s) PROVE IInv'
    BY <1>1, QuietKeeps, SessionEndsKeeps
  <1>2. CASE Bridge \/ _expire_lease \/ emit
    BY <1>2, QuietKeeps, PollKeeps, EmitKeeps DEF Bridge
  <1>3. ASSUME NEW r \in Requests, Flush(r) PROVE IInv'
    BY <1>3, FlushKeeps, SendKeeps, AcknowledgedKeeps, FailuresKeep DEF Flush
  <1>4. ASSUME NEW r \in Requests, Serve(r) PROVE IInv'
    BY <1>4, ArriveKeeps, DuplicateKeeps, HoldKeeps, IngestKeeps, WatermarkKeeps,
       TransientKeeps, PermanentKeeps DEF Serve
  <1>5. ASSUME NEW r \in Requests, giveUp(r) \/ _reject_batch(r) PROVE IInv'
    BY <1>5, GiveUpKeeps, RejectKeeps
  <1>6. ASSUME NEW i \in DOMAIN outbox, backoffOver(i) PROVE IInv'
    BY <1>6, BackoffKeeps
  <1>7. CASE isolationOver \/ retry_dead_letters \/ restart
    BY <1>7, QuietKeeps, RetryKeeps, RestartKeeps
  <1>8. CASE UNCHANGED vars
    <2>1. UNCHANGED <<outbox, lease, row, answer, isolating, req, status, stored, repeated,
                      watermark, refusals, faults>>
      BY <1>8 DEF vars, machineVars, serverVars
    <2> QED BY <2>1, RequestsSound, RequestsMoved DEF IInv, TypeOK
  <1> QED BY <1>1, <1>2, <1>3, <1>4, <1>5, <1>6, <1>7, <1>8 DEF Next

\* The inductive invariant holds throughout.
LEMMA Inductive == Spec => []IInv
  BY InitSound, StepSound, PTL DEF Spec

\* The outbox, the session rows, the requests and the server's rows keep their
\* types; in particular no event counts more failures than the retry limit.
THEOREM TypeCorrect == Spec => []TypeOK
  <1>1. IInv => TypeOK
    BY DEF IInv
  <1> QED BY <1>1, Inductive, PTL

\* Whatever is lost, repeated or answered late, the machine drops an event
\* (mark_sent) only when the server has committed it.
THEOREM AcknowledgedStored == Spec => []AckedIsStored
  <1>1. IInv => AckedIsStored
    BY DEF IInv, DataOK, RowOK, AckedIsStored
  <1> QED BY <1>1, Inductive, PTL

\* However many requests carry an event, its effects are applied once
\* (ingestMachineEvent).
THEOREM EffectsOnce == Spec => []AppliedOnce
  <1>1. IInv => AppliedOnce
    BY DEF IInv, AppliedOnce
  <1> QED BY <1>1, Inductive, PTL

\* Any number of requests, back-offs, restarts and operator retries leave the
\* events of a session applied in the order recorded (pending, heldSessions).
THEOREM AppliedInOrder == Spec => []SessionOrder
  <1>1. ASSUME IInv PROVE SessionOrder
    <2>1. OrderOK(outbox, stored, refusals)
      BY <1>1 DEF IInv, DataOK
    <2>2. ASSUME NEW i \in DOMAIN outbox, NEW e \in Earlier(i),
                 outbox[i].session # NoSession, i \in stored
          PROVE  e \in stored \/ <<e, "permanent">> \in refusals
      <3>1. Before(outbox, e, i)
        BY <2>2 DEF Before, Earlier
      <3> QED BY <2>1, <2>2, <3>1 DEF OrderOK, Settled
    <2> QED BY <2>2 DEF SessionOrder
  <1> QED BY <1>1, Inductive, PTL

\* The money of a session is released (closeWatermarkAt) only with every event
\* recorded before its watermark applied.
THEOREM WatermarksVouch == Spec => []WatermarkVouches
  <1>1. ASSUME IInv PROVE WatermarkVouches
    <2>1. ASSUME NEW s \in Sessions, watermark[s]
          PROVE  row[s].mark # 0 /\ \A i \in EventsOf(s) : i < row[s].mark => i \in stored
      <3>1. row[s].mark # 0
        BY <1>1, <2>1 DEF IInv, DataOK, MarksOK
      <3>2. ASSUME NEW i \in EventsOf(s), i < row[s].mark PROVE i \in stored
        <4>1. i \in DOMAIN outbox /\ outbox[i].status = "sent"
          BY <1>1, <3>2 DEF IInv, DataOK, MarksOK, EventsOf
        <4> QED BY <1>1, <4>1 DEF IInv, DataOK, RowOK
      <3> QED BY <3>1, <3>2
    <2> QED BY <2>1 DEF WatermarkVouches
  <1> QED BY <1>1, Inductive, PTL

\* Outages and held sessions never use up an event's retries (mark_failed): the
\* limit is reached only by errors the server reported for the event.
THEOREM LimitsEarned == Spec => []LimitEarned
  <1>1. IInv => LimitEarned
    BY DEF IInv, DataOK, RowOK, LimitEarned
  <1> QED BY <1>1, Inductive, PTL

\* Sent, answered and applied any number of times, an event is dropped only
\* once it is stored, applied once, and set aside only for errors of its own
\* (mark_sent, ingestMachineEvent, mark_failed).
THEOREM DeliveredAlwaysOnce == Spec => []DeliveredOnce
  BY AcknowledgedStored, EffectsOnce, LimitsEarned, PTL DEF DeliveredOnce
=============================================================================
