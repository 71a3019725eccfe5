---------------------------- MODULE FieldProofs ----------------------------
(***************************************************************************)
(* Proofs about the machines' side: media, captures, remote commands, the  *)
(* controller and the gate of signed requests, and the specification of    *)
(* MCField that puts them side by side.                                    *)
(***************************************************************************)
EXTENDS MCField, FiniteSetTheorems, NaturalsInduction, WellFoundedInduction, TLAPS

-----------------------------------------------------------------------------
(* MachineMedia.  Between the removal of stale files and the new playlist    *)
(* the items to come are in the cache.                                       *)

MediaInv ==
    /\ sync.phase \in {"idle", "download", "replace"}
    /\ sync.items \subseteq sync.assets \/ sync.phase = "idle"
    /\ sync.phase = "replace" => sync.items \subseteq cache
    /\ PlaylistPlayable

\* Nothing is cached or played at first.
LEMMA MediaInitially == MediaInit => MediaInv
  BY DEF MediaInit, MediaInv, PlaylistPlayable, NoSync

\* Every edit of the media and every step of a synchronisation keeps what is played on disk.
LEMMA MediaKeeps == MediaInv /\ [MediaNext]_mediaVars => MediaInv'
  <1> SUFFICES ASSUME MediaInv, [MediaNext]_mediaVars PROVE MediaInv'
    OBVIOUS
  <1> USE DEF MediaInv, PlaylistPlayable, NoSync
  <1>1. ASSUME NEW a \in Assets, uploadMedia(a) \/ deleteMedia(a)
        PROVE  MediaInv'
    BY <1>1 DEF uploadMedia, deleteMedia
  <1>2. ASSUME NEW a \in Assets, NEW to, patchMedia(a, to) PROVE MediaInv'
    BY <1>2 DEF patchMedia
  <1>3. ASSUME NEW a \in Assets, download(a) PROVE MediaInv'
    BY <1>3 DEF download
  <1>4. CASE readManifest
    BY <1>4 DEF readManifest, manifest, ActiveMedia, AllMedia
  <1>5. CASE removeStale
    <2>1. sync'.phase = "replace" /\ sync'.items = sync.items /\ sync'.assets = sync.assets
      BY <1>5 DEF removeStale
    <2> QED
      BY <1>5, <2>1 DEF removeStale
  <1>6. CASE replacePlaylist
    BY <1>6 DEF replacePlaylist
  <1>7. CASE connectionLost
    BY <1>7 DEF connectionLost
  <1>8. CASE mediaPowerCut
    BY <1>8 DEF mediaPowerCut
  <1>9. CASE UNCHANGED mediaVars
    BY <1>9 DEF mediaVars
  <1> QED
    BY <1>1, <1>2, <1>3, <1>4, <1>5, <1>6, <1>7, <1>8, <1>9 DEF MediaNext

-----------------------------------------------------------------------------
(* MachineCaptures.  Only an answer that says so stands for a stored row.    *)

CaptureInv ==
    /\ outbox \in [Captures -> {"untaken", "taken", "pending", "orphan", "sent"}]
    /\ flush \in [Flushers -> [capture : Captures \cup {"none"},
                               step : {"idle", "posted", "absent", "ok", "error"}]]
    /\ \A f \in Flushers : flush[f].step = "ok" => flush[f].capture \in uploads
    /\ CaptureSentIsStored

\* Nothing is captured at first.
LEMMA CaptureInitially == CaptureInit => CaptureInv
  BY DEF CaptureInit, CaptureInv, CaptureSentIsStored, NoPost

\* Every step of capture and upload keeps what is marked sent stored at the server.
LEMMA CaptureKeeps == CaptureInv /\ [CaptureNext]_captureVars => CaptureInv'
  <1> SUFFICES ASSUME CaptureInv, [CaptureNext]_captureVars PROVE CaptureInv'
    OBVIOUS
  <1> USE DEF CaptureInv, CaptureSentIsStored, NoPost
  <1>1. ASSUME NEW c \in Captures, captureEvidence(c) \/ enqueueCapture(c) PROVE CaptureInv'
    BY <1>1 DEF captureEvidence, enqueueCapture
  <1>2. ASSUME NEW f \in Flushers, NEW c \in Captures, flushReads(f, c) PROVE CaptureInv'
    BY <1>2 DEF flushReads
  <1>3. ASSUME NEW f \in Flushers, lookUpCapture(f) PROVE CaptureInv'
    BY <1>3 DEF lookUpCapture
  <1>4. ASSUME NEW f \in Flushers, createCapture(f) PROVE CaptureInv'
    BY <1>4 DEF createCapture
  <1>5. ASSUME NEW f \in Flushers, answerLost(f) PROVE CaptureInv'
    BY <1>5 DEF answerLost
  <1>6. ASSUME NEW f \in Flushers, markCapture(f) PROVE CaptureInv'
    BY <1>6 DEF markCapture
  <1>7. CASE machineReboots
    BY <1>7 DEF machineReboots
  <1>8. CASE UNCHANGED captureVars
    BY <1>8 DEF captureVars
  <1> QED
    BY <1>1, <1>2, <1>3, <1>4, <1>5, <1>6, <1>7, <1>8 DEF CaptureNext

-----------------------------------------------------------------------------
(* RemoteCommands.  A run that is counted has its result in the cache, is    *)
(* about to have it, or was cut short; a report carries what the cache says. *)

CommandRows == [kind : Kinds, status : PENDING \cup FINAL, late : BOOLEAN]

Work   == [job : {"none", "expire", "find", "mark", "read", "write"}, command : Nat, result : Results]
Thread == [phase : {"rest", "polling", "got", "ran", "cached", "reporting"}, command : Nat,
           result : Results, awaits : Handlers \cup {"none"}]

CommandShape ==
    /\ commands \in [CommandIds -> CommandRows] /\ queued \in 0..MaxCommands
    /\ asking \subseteq Kinds
    /\ work \in [Handlers -> Work] /\ machine \in Thread
    /\ resultCache \in [CommandIds -> Results \cup {"none"}]
    /\ runs \in [CommandIds -> Nat] /\ cut \in [CommandIds -> Nat]

\* Rows are queued in order, and requests and the machine name queued ones.
NamesQueued ==
    /\ \A c \in CommandIds : c > queued => commands[c].status = "QUEUED"
    /\ \A h \in Handlers : work[h].job \in {"mark", "read", "write"} => work[h].command \in 1..queued
    /\ machine.phase \in {"got", "ran", "cached"} => machine.command \in 1..queued
    /\ machine.awaits # "none" => machine.phase \in {"polling", "reporting"}

ReportsTrue ==
    /\ \A h \in Handlers : work[h].job \in {"read", "write"} => work[h].result = resultCache[work[h].command]
    /\ machine.phase = "cached" => machine.result = resultCache[machine.command]
    /\ machine.phase = "ran" => resultCache[machine.command] = "none"
    /\ OutcomeIsTrue

\* The run of c whose result the machine still holds in memory.
InMemory(c) == machine.phase = "ran" /\ machine.command = c

RunsCounted ==
    \A c \in CommandIds :
      runs[c] = cut[c] + (IF resultCache[c] # "none" \/ InMemory(c) THEN 1 ELSE 0)

CommandInv == CommandShape /\ NamesQueued /\ ReportsTrue /\ RunsCounted

\* What the command proofs use of the constants.
LEMMA CommandConstants ==
    MaxCommands \in Nat \ {0} /\ "none" \notin Handlers /\ CommandIds = 1..MaxCommands
  BY CommandAssumption DEF CommandIds

\* The machine at rest is a state of its command thread.
LEMMA RestFits == Idle \in Work /\ Resting \in Thread
  <1>1. "SUCCEEDED" \in Results /\ 0 \in Nat
    BY DEF Results
  <1>2. Idle \in Work
    BY <1>1 DEF Idle, Work
  <1>3. Resting \in Thread
    BY <1>1 DEF Resting, Thread
  <1> QED
    BY <1>2, <1>3

\* Before any command is queued nothing has run.
LEMMA CommandInitially == CommandInit => CommandInv
  <1> SUFFICES ASSUME CommandInit PROVE CommandInv
    OBVIOUS
  <1> USE CommandConstants DEF CommandInit
  <1>1. CommandShape
    <2>1. [kind |-> "other", status |-> "QUEUED", late |-> FALSE] \in CommandRows
      BY DEF CommandRows, Kinds, PENDING
    <2>2. commands \in [CommandIds -> CommandRows]
      BY <2>1, Zenon
    <2>3. work \in [Handlers -> Work] /\ machine \in Thread
      BY RestFits, Zenon
    <2>4. resultCache \in [CommandIds -> Results \cup {"none"}]
      BY Zenon
    <2>5. runs \in [CommandIds -> Nat] /\ cut \in [CommandIds -> Nat]
      OBVIOUS
    <2>6. queued \in 0..MaxCommands /\ asking \subseteq Kinds
      OBVIOUS
    <2> QED
      BY <2>2, <2>3, <2>4, <2>5, <2>6 DEF CommandShape
  <1>2. NamesQueued /\ ReportsTrue /\ RunsCounted
    BY DEF NamesQueued, ReportsTrue, RunsCounted, InMemory, OutcomeIsTrue, Idle, Resting, Results
  <1> QED
    BY <1>1, <1>2 DEF CommandInv

\* Steps of the server's rows alone: no new outcome but the cached one.
LEMMA RowsStepKeeps ==
    ASSUME CommandInv, commands' \in [CommandIds -> CommandRows],
           queued' \in queued..MaxCommands, asking' \subseteq Kinds,
           \A c \in CommandIds : \/ commands'[c].status = commands[c].status
                                 \/ c \in 1..queued' /\ commands'[c].status \notin Results
                                 \/ c \in 1..queued' /\ commands'[c].status = resultCache[c],
           UNCHANGED <<work, machine, resultCache, runs, cut>>
    PROVE  CommandInv'
  <1>1. CommandShape'
    <2>1. queued' \in 0..MaxCommands
      BY CommandConstants DEF CommandInv, CommandShape
    <2> QED
      BY <2>1 DEF CommandInv, CommandShape
  <1>2. queued \in Nat /\ queued' \in Nat /\ queued <= queued' /\ 1..queued' \subseteq CommandIds
    BY CommandConstants DEF CommandInv, CommandShape
  <1>3. NamesQueued'
    <2>1. \A c \in CommandIds : c > queued' => commands'[c].status = "QUEUED"
      BY <1>2, CommandConstants DEF CommandInv, NamesQueued
    <2> QED
      BY <1>2, <2>1 DEF CommandInv, NamesQueued
  <1>4. OutcomeIsTrue'
    <2> SUFFICES ASSUME NEW c \in 1..queued', commands'[c].status \in Results
                 PROVE  commands'[c].status = resultCache[c]
      BY DEF OutcomeIsTrue
    <2>1. c \in CommandIds /\ (c \in 1..queued \/ c > queued)
      BY <1>2
    <2> QED
      BY <2>1 DEF CommandInv, NamesQueued, ReportsTrue, OutcomeIsTrue, Results
  <1>5. ReportsTrue'
    BY <1>4 DEF CommandInv, ReportsTrue
  <1> QED
    BY <1>1, <1>3, <1>5 DEF CommandInv, RunsCounted, InMemory

\* What a request in progress may be, and what the machine's thread may be.
WorkFits(w) ==
    /\ w.job \in {"mark", "read", "write"} => w.command \in 1..queued
    /\ w.job \in {"read", "write"} => w.result = resultCache[w.command]

ThreadFits(m) ==
    /\ m \in Thread
    /\ m.awaits # "none" => m.phase \in {"polling", "reporting"}
    /\ m.phase \in {"got", "ran", "cached"} => m.command \in 1..queued
    /\ m.phase = "cached" => m.result = resultCache[m.command]

\* Steps of a request or of the thread: nothing is run or cached.
LEMMA ThreadStepKeeps ==
    ASSUME CommandInv, work' \in [Handlers -> Work],
           \A h \in Handlers : work'[h] = work[h] \/ WorkFits(work'[h]),
           ThreadFits(machine'), machine'.phase = "ran" \/ machine.phase = "ran" => machine' = machine,
           commands' \in [CommandIds -> CommandRows],
           \A c \in CommandIds : \/ commands'[c].status = commands[c].status
                                 \/ c \in 1..queued /\ commands'[c].status \notin Results
                                 \/ c \in 1..queued /\ commands'[c].status = resultCache[c],
           UNCHANGED <<queued, asking, resultCache, runs, cut>>
    PROVE  CommandInv'
  <1>1. CommandShape'
    BY DEF CommandInv, CommandShape, ThreadFits
  <1>2. queued \in Nat /\ 1..queued \subseteq CommandIds
    BY CommandConstants DEF CommandInv, CommandShape
  <1>3. NamesQueued'
    <2>1. \A c \in CommandIds : c > queued => commands'[c].status = "QUEUED"
      BY <1>2, CommandConstants DEF CommandInv, NamesQueued
    <2>2. \A h \in Handlers : work'[h].job \in {"mark", "read", "write"} => work'[h].command \in 1..queued
      BY DEF CommandInv, NamesQueued, WorkFits
    <2> QED
      BY <2>1, <2>2 DEF NamesQueued, ThreadFits
  <1>4. OutcomeIsTrue'
    BY <1>2 DEF CommandInv, ReportsTrue, OutcomeIsTrue, Results
  <1>5. ReportsTrue'
    <2>1. \A h \in Handlers : work'[h].job \in {"read", "write"} => work'[h].result = resultCache[work'[h].command]
      BY DEF CommandInv, ReportsTrue, WorkFits
    <2>2. machine'.phase = "ran" => resultCache[machine'.command] = "none"
      BY DEF CommandInv, ReportsTrue
    <2> QED
      BY <1>4, <2>1, <2>2 DEF ReportsTrue, ThreadFits
  <1>6. RunsCounted'
    <2>1. \A c : InMemory(c)' <=> InMemory(c)
      BY DEF InMemory
    <2> QED
      BY <2>1 DEF CommandInv, RunsCounted
  <1> QED
    BY <1>1, <1>3, <1>5, <1>6 DEF CommandInv

\* An answer ends its request, and reaches a machine that still waits for it.
LEMMA AnswerFits ==
    ASSUME CommandInv, NEW h \in Handlers, NEW phase \in {"rest", "got"}, NEW c \in 0..queued,
           phase = "got" => c # 0, Answer(h, phase, c)
    PROVE  /\ work' \in [Handlers -> Work] /\ \A g \in Handlers : work'[g] = work[g] \/ WorkFits(work'[g])
           /\ ThreadFits(machine') /\ (machine'.phase = "ran" \/ machine.phase = "ran" => machine' = machine)
  <1> USE CommandConstants
  <1>1. work' \in [Handlers -> Work] /\ \A g \in Handlers : work'[g] = work[g] \/ work'[g] = Idle
    BY RestFits DEF Answer, CommandInv, CommandShape
  <1>2. WorkFits(Idle)
    BY DEF WorkFits, Idle
  <1>3. CASE machine.awaits = h
    <2> DEFINE m == [Resting EXCEPT !.phase = phase, !.command = c]
    <2>1. c \in Nat /\ (c # 0 => c \in 1..queued)
      BY DEF CommandInv, CommandShape
    <2>2. m \in Thread /\ m.phase = phase /\ m.command = c /\ m.awaits = "none"
      BY <2>1, RestFits DEF Thread, Resting
    <2>3. machine' = m /\ machine.phase # "ran"
      BY <1>3 DEF Answer, CommandInv, NamesQueued
    <2> HIDE DEF m
    <2> QED
      BY <1>1, <1>2, <2>1, <2>2, <2>3 DEF ThreadFits
  <1>4. CASE machine.awaits # h
    <2>1. machine' = machine /\ ThreadFits(machine)
      BY <1>4 DEF Answer, CommandInv, CommandShape, NamesQueued, ReportsTrue, ThreadFits
    <2> QED
      BY <1>1, <1>2, <2>1
  <1> QED
    BY <1>3, <1>4

\* A set of natural numbers has a least one.
LEMMA LeastOf ==
    ASSUME NEW T \in SUBSET Nat, T # {}
    PROVE  \E i \in T : \A j \in T : i <= j
  <1>1. PICK i \in T : \A j \in T : ~(<<j, i>> \in OpToRel(<, Nat))
    BY WFMin, NatLessThanWellFounded
  <1>2. \A j \in T : ~(j < i)
    BY <1>1 DEF OpToRel
  <1> QED
    BY <1>2

\* The command a poll hands out is one that was queued, or none.
LEMMA nextPendingFits == ASSUME CommandInv PROVE nextPending \in 0..queued
  <1>1. queued \in Nat
    BY CommandConstants DEF CommandInv, CommandShape
  <1>2. ASSUME NEW kinds PROVE oldestPending(kinds) \in 0..queued
    <2> DEFINE found == {c \in 1..queued : Live(c) /\ commands[c].kind \in kinds}
    <2>1. CASE found = {}
      BY <1>1, <2>1 DEF oldestPending, Nothing
    <2>2. CASE found # {}
      <3>1. \E i \in found : \A j \in found : i <= j
        <4>1. found \in SUBSET Nat
          BY <1>1
        <4> HIDE DEF found
        <4> QED
          BY <2>2, <4>1, LeastOf
      <3>2. oldestPending(kinds) = CHOOSE c \in found : \A d \in found : c <= d
        BY <2>2 DEF oldestPending
      <3>3. oldestPending(kinds) \in found
        <4> HIDE DEF found
        <4> QED
          BY <3>1, <3>2, Zenon
      <3> QED
        BY <1>1, <3>3
    <2> QED
      BY <2>1, <2>2
  <1> QED
    BY <1>2 DEF nextPending

\* Whatever the thread is at, it fits while nothing of it changes.
LEMMA ThreadFitsNow ==
    ASSUME CommandInv
    PROVE  ThreadFits(machine) /\ commands \in [CommandIds -> CommandRows] /\ work \in [Handlers -> Work]
           /\ (\A h \in Handlers : WorkFits(work[h])) /\ queued \in Nat /\ 1..queued \subseteq CommandIds
  BY CommandConstants DEF CommandInv, CommandShape, NamesQueued, ReportsTrue, ThreadFits, WorkFits

\* Expiry touches queued rows only and never invents a result.
LEMMA expireLateRows ==
    ASSUME CommandInv, expireLate
    PROVE  /\ commands' \in [CommandIds -> CommandRows]
           /\ \A c \in CommandIds : \/ commands'[c].status = commands[c].status
                                    \/ c \in 1..queued /\ commands'[c].status \notin Results
  <1>1. \A r \in CommandRows : LET e == [r EXCEPT !.status = "EXPIRED"] IN e \in CommandRows /\ e.status = "EXPIRED"
    BY DEF CommandRows, FINAL
  <1>2. \A c \in CommandIds : commands'[c] = commands[c] \/ (c \in 1..queued
                                /\ commands'[c] = [commands[c] EXCEPT !.status = "EXPIRED"])
    BY DEF expireLate, Pending
  <1>3. \A c \in CommandIds : commands[c] \in CommandRows
    BY DEF CommandInv, CommandShape
  <1>4. commands' = [c \in CommandIds |-> commands'[c]]
    BY DEF expireLate
  <1>5. \A c \in CommandIds : commands'[c] \in CommandRows
    BY <1>1, <1>2, <1>3
  <1>6. "EXPIRED" \notin Results
    BY DEF Results
  <1>7. commands' \in [CommandIds -> CommandRows]
    BY <1>4, <1>5, Zenon
  <1>8. \A c \in CommandIds : \/ commands'[c].status = commands[c].status
                              \/ c \in 1..queued /\ commands'[c].status \notin Results
    <2> SUFFICES ASSUME NEW c \in CommandIds, commands'[c].status # commands[c].status
                 PROVE  c \in 1..queued /\ commands'[c].status \notin Results
      OBVIOUS
    <2>1. c \in 1..queued /\ commands'[c] = [commands[c] EXCEPT !.status = "EXPIRED"]
      BY <1>2, Zenon
    <2>2. commands'[c].status = "EXPIRED"
      BY <1>1, <1>3, <2>1, Zenon
    <2> QED
      BY <1>6, <2>1, <2>2
  <1> QED
    BY <1>7, <1>8

\* Queueing a command keeps the invariant.
LEMMA SuperadminKeeps ==
    ASSUME CommandInv,
           \/ ListCommands \/ \E c \in CommandIds : Expires(c)
           \/ \E kind \in Kinds : AskCommand(kind) \/ QueueCommand(kind)
    PROVE  CommandInv'
  <1> USE ThreadFitsNow, CommandConstants
  <1>0. queued \in queued..MaxCommands /\ asking \subseteq Kinds /\ queued <= MaxCommands
    BY DEF CommandInv, CommandShape
  <1>1. CASE ListCommands
    BY <1>0, <1>1, expireLateRows, RowsStepKeeps DEF ListCommands
  <1>2. ASSUME NEW c \in CommandIds, Expires(c) PROVE CommandInv'
    <2>1. commands' \in [CommandIds -> CommandRows]
          /\ \A d \in CommandIds : commands'[d].status = commands[d].status
      BY <1>2 DEF Expires, CommandRows
    <2> QED
      BY <1>0, <1>2, <2>1, RowsStepKeeps DEF Expires
  <1>3. ASSUME NEW kind \in Kinds, AskCommand(kind) PROVE CommandInv'
    BY <1>0, <1>3, RowsStepKeeps DEF AskCommand
  <1>4. ASSUME NEW kind \in Kinds, QueueCommand(kind) PROVE CommandInv'
    <2>1. commands' \in [CommandIds -> CommandRows]
          /\ \A d \in CommandIds : commands'[d].status = commands[d].status
      BY <1>4 DEF QueueCommand, CommandRows
    <2>2. queued' \in queued..MaxCommands /\ asking' \subseteq Kinds
      BY <1>0, <1>4 DEF QueueCommand
    <2> QED
      BY <1>4, <2>1, <2>2, RowsStepKeeps DEF QueueCommand
  <1> QED
    BY <1>1, <1>2, <1>3, <1>4

\* Handing a command out, after expiring the late ones, keeps the invariant.
LEMMA PollKeeps ==
    ASSUME CommandInv, NEW h \in Handlers, PollExpires(h) \/ PollFinds(h) \/ PollMarks(h)
    PROVE  CommandInv'
  <1> USE ThreadFitsNow
  <1>1. CASE PollExpires(h)
    <2>1. work' \in [Handlers -> Work] /\ \A g \in Handlers : work'[g] = work[g] \/ work'[g].job = "find"
      BY <1>1 DEF PollExpires, Work
    <2>2. \A g \in Handlers : work'[g] = work[g] \/ WorkFits(work'[g])
      BY <2>1 DEF WorkFits
    <2> QED
      BY <1>1, <2>1, <2>2, expireLateRows, ThreadStepKeeps DEF PollExpires
  <1>2. CASE PollFinds(h)
    <2> DEFINE c == nextPending
    <2>1. c \in 0..queued
      BY nextPendingFits
    <2>2. CASE c # Nothing /\ commands[c].status = "QUEUED"
      <3> DEFINE w == [work[h] EXCEPT !.job = "mark", !.command = c]
      <3>1. w \in Work /\ w.job = "mark" /\ w.command = c
        <4>1. work[h] \in Work /\ c \in Nat
          BY <2>1
        <4> HIDE DEF c
        <4> QED
          BY <4>1 DEF Work
      <3>2. work' = [work EXCEPT ![h] = w] /\ UNCHANGED <<machine, commands, queued, asking, resultCache, runs, cut>>
        BY <1>2, <2>2 DEF PollFinds
      <3>3. WorkFits(w)
        BY <2>1, <2>2, <3>1 DEF WorkFits, Nothing
      <3> HIDE DEF w
      <3>4. work' \in [Handlers -> Work] /\ \A g \in Handlers : work'[g] = work[g] \/ WorkFits(work'[g])
        BY <3>1, <3>2, <3>3
      <3> QED
        BY <3>2, <3>4, ThreadStepKeeps
    <2>3. CASE ~(c # Nothing /\ commands[c].status = "QUEUED")
      <3>1. Answer(h, IF c = Nothing THEN "rest" ELSE "got", c)
            /\ UNCHANGED <<commands, queued, asking, resultCache, runs, cut>>
        BY <1>2, <2>3 DEF PollFinds
      <3> HIDE DEF c
      <3>2. Answer(h, "rest", c) \/ (Answer(h, "got", c) /\ c # 0)
        BY <3>1 DEF Nothing
      <3> QED
        BY <2>1, <3>1, <3>2, AnswerFits, ThreadStepKeeps
    <2> QED
      BY <2>2, <2>3
  <1>3. CASE PollMarks(h)
    <2>1. work[h].command \in 1..queued /\ Answer(h, "got", work[h].command)
      BY <1>3 DEF PollMarks, WorkFits
    <2>2. work[h].command \in 0..queued /\ work[h].command # 0
      BY <2>1
    <2>3. /\ commands' \in [CommandIds -> CommandRows]
          /\ \A d \in CommandIds : \/ commands'[d].status = commands[d].status
                                   \/ d \in 1..queued /\ commands'[d].status = "DISPATCHED"
      BY <1>3, <2>1 DEF PollMarks, CommandRows, PENDING
    <2>4. "DISPATCHED" \notin Results
      BY DEF Results
    <2> QED
      BY <1>3, <2>1, <2>2, <2>3, <2>4, AnswerFits, ThreadStepKeeps DEF PollMarks
  <1> QED
    BY <1>1, <1>2, <1>3

\* Recording a result, first or repeated, keeps the invariant.
LEMMA ReportKeeps ==
    ASSUME CommandInv, NEW h \in Handlers, ResultReads(h) \/ ResultWrites(h)
    PROVE  CommandInv'
  <1> USE ThreadFitsNow
  <1>0. 0 \in 0..queued
    OBVIOUS
  <1>1. CASE ResultReads(h) /\ commands[work[h].command].status \in FINAL
    <2>1. Answer(h, "rest", 0) /\ UNCHANGED <<commands, queued, asking, resultCache, runs, cut>>
      BY <1>1 DEF ResultReads
    <2> QED
      BY <1>0, <2>1, AnswerFits, ThreadStepKeeps
  <1>2. CASE ResultReads(h) /\ commands[work[h].command].status \notin FINAL
    <2> DEFINE w == [work[h] EXCEPT !.job = "write"]
    <2>1. /\ w \in Work /\ w.job = "write" /\ w.command = work[h].command
          /\ w.result = work[h].result /\ work[h].job = "read"
      BY <1>2 DEF ResultReads, Work
    <2>2. WorkFits(w)
      BY <2>1 DEF WorkFits
    <2>3. work' = [work EXCEPT ![h] = w] /\ UNCHANGED <<machine, commands, queued, asking, resultCache, runs, cut>>
      BY <1>2 DEF ResultReads
    <2> HIDE DEF w
    <2>4. work' \in [Handlers -> Work] /\ \A g \in Handlers : work'[g] = work[g] \/ WorkFits(work'[g])
      BY <2>1, <2>2, <2>3
    <2> QED
      BY <2>3, <2>4, ThreadStepKeeps
  <1>3. CASE ResultWrites(h)
    <2>1. /\ work[h].command \in 1..queued /\ work[h].result = resultCache[work[h].command]
          /\ work[h].result \in Results /\ Answer(h, "rest", 0)
      BY <1>3 DEF ResultWrites, WorkFits, Work
    <2>2. /\ commands' \in [CommandIds -> CommandRows]
          /\ \A d \in CommandIds : \/ commands'[d].status = commands[d].status
                                   \/ d \in 1..queued /\ commands'[d].status = resultCache[d]
      BY <1>3, <2>1 DEF ResultWrites, CommandRows, FINAL, Results
    <2> QED
      BY <1>0, <1>3, <2>1, <2>2, AnswerFits, ThreadStepKeeps DEF ResultWrites
  <1> QED
    BY <1>1, <1>2, <1>3 DEF ResultReads

\* The machine's thread, and its runs.
LEMMA ThreadMoves ==
    ASSUME CommandInv, UNCHANGED <<commands, queued, asking, resultCache, runs, cut>>,
           \/ MachineGivesUp \/ MachineFindsCached
           \/ \E h \in Handlers : MachinePolls(h) \/ MachineReportsResult(h)
    PROVE  CommandInv'
  <1> USE ThreadFitsNow
  <1>1. CASE MachineGivesUp
    <2>1. ThreadFits(Resting) /\ machine.phase # "ran" /\ Resting.phase # "ran"
      BY <1>1, RestFits DEF MachineGivesUp, ThreadFits, Resting
    <2> QED
      BY <1>1, <2>1, ThreadStepKeeps DEF MachineGivesUp
  <1>2. CASE MachineFindsCached
    <2> DEFINE m == [machine EXCEPT !.phase = "cached", !.result = resultCache[machine.command]]
    <2>1. machine.phase = "got" /\ machine.command \in 1..queued /\ machine.awaits = "none"
          /\ resultCache[machine.command] \in Results
      BY <1>2 DEF MachineFindsCached, CommandInv, CommandShape, NamesQueued
    <2>2. m \in Thread /\ m.phase = "cached" /\ m.command = machine.command /\ m.awaits = "none"
          /\ m.result = resultCache[machine.command]
      BY <2>1 DEF ThreadFits, Thread
    <2>3. machine' = m /\ UNCHANGED work
      BY <1>2 DEF MachineFindsCached
    <2> HIDE DEF m
    <2> QED
      BY <2>1, <2>2, <2>3, ThreadStepKeeps DEF ThreadFits
  <1>3. ASSUME NEW h \in Handlers, MachinePolls(h) \/ MachineReportsResult(h) PROVE CommandInv'
    <2>1. PICK w \in {[Idle EXCEPT !.job = "expire"],
                      [job |-> "read", command |-> machine.command, result |-> machine.result]},
               phase \in {"polling", "reporting"} :
            /\ Send(h, phase, w) /\ machine.phase \in {"rest", "cached"}
            /\ w.job = "read" => machine.phase = "cached" /\ w.command = machine.command
                                 /\ w.result = machine.result
      BY <1>3 DEF MachinePolls, MachineReportsResult, Idle
    <2>2. w \in Work /\ w.job \in {"expire", "read"}
      BY RestFits DEF Work, ThreadFits, Thread, Idle
    <2>3. WorkFits(w)
      BY <2>1, <2>2 DEF WorkFits, ThreadFits
    <2>4. work' \in [Handlers -> Work] /\ \A g \in Handlers : work'[g] = work[g] \/ WorkFits(work'[g])
      BY <2>1, <2>2, <2>3 DEF Send
    <2>5. ThreadFits(machine') /\ machine.phase # "ran" /\ machine'.phase # "ran"
      BY <2>1, CommandConstants DEF Send, ThreadFits, Thread
    <2> QED
      BY <2>4, <2>5, ThreadStepKeeps
  <1> QED
    BY <1>1, <1>2, <1>3

\* Running the handler keeps the invariant.
LEMMA MachineRunsKeeps ==
    ASSUME CommandInv, NEW result \in Results, MachineRuns(result) PROVE CommandInv'
  <1> USE ThreadFitsNow
  <1> DEFINE m == [machine EXCEPT !.phase = "ran", !.result = result]
  <1>1. machine.phase = "got" /\ machine.command \in 1..queued /\ machine.awaits = "none"
        /\ resultCache[machine.command] = "none"
    BY DEF MachineRuns, CommandInv, NamesQueued
  <1>2. m \in Thread /\ m.phase = "ran" /\ m.command = machine.command /\ m.awaits = "none"
    BY <1>1 DEF ThreadFits, Thread
  <1>3. machine' = m
    BY DEF MachineRuns
  <1> HIDE DEF m
  <1>4. CommandShape'
    <2>1. runs \in [CommandIds -> Nat] /\ runs' = [runs EXCEPT ![machine.command] = @ + 1]
      BY DEF MachineRuns, CommandInv, CommandShape
    <2>2. runs' \in [CommandIds -> Nat]
      BY <1>1, <2>1
    <2> QED
      BY <1>2, <1>3, <2>2 DEF MachineRuns, CommandInv, CommandShape
  <1>5. NamesQueued' /\ ReportsTrue'
    BY <1>1, <1>2, <1>3 DEF MachineRuns, CommandInv, NamesQueued, ReportsTrue, OutcomeIsTrue
  <1>6. RunsCounted'
    BY <1>1, <1>2, <1>3 DEF MachineRuns, CommandInv, CommandShape, RunsCounted, InMemory
  <1> QED
    BY <1>4, <1>5, <1>6 DEF CommandInv

\* Remembering the result before it is reported keeps the invariant.
LEMMA MachineCachesKeeps == ASSUME CommandInv, MachineCaches PROVE CommandInv'
  <1> USE ThreadFitsNow
  <1> DEFINE m == [machine EXCEPT !.phase = "cached"]
             done == machine.command
  <1>1. machine.phase = "ran" /\ done \in 1..queued /\ done \in CommandIds /\ machine.awaits = "none"
        /\ resultCache[done] = "none" /\ machine.result \in Results
    BY DEF MachineCaches, CommandInv, NamesQueued, ReportsTrue, ThreadFits, Thread
  <1>2. m \in Thread /\ m.phase = "cached" /\ m.command = done /\ m.awaits = "none"
        /\ m.result = machine.result
    BY <1>1 DEF ThreadFits, Thread
  <1>3. machine' = m /\ resultCache' = [resultCache EXCEPT ![done] = machine.result]
    BY DEF MachineCaches
  <1>4. \A c \in CommandIds : resultCache'[c] = IF c = done THEN machine.result ELSE resultCache[c]
    BY <1>3 DEF CommandInv, CommandShape
  <1> HIDE DEF m
  <1>5. CommandShape'
    BY <1>1, <1>2, <1>3 DEF MachineCaches, CommandInv, CommandShape
  <1>6. NamesQueued'
    BY <1>1, <1>2, <1>3 DEF MachineCaches, CommandInv, NamesQueued
  <1>7. "none" \notin Results
    BY DEF Results
  <1>8. OutcomeIsTrue'
    BY <1>1, <1>4, <1>7 DEF MachineCaches, CommandInv, ReportsTrue, OutcomeIsTrue
  <1>9. \A h \in Handlers : work[h].job \in {"read", "write"} => work[h].result = resultCache'[work[h].command]
    <2> SUFFICES ASSUME NEW h \in Handlers, work[h].job \in {"read", "write"}
                 PROVE  work[h].result = resultCache'[work[h].command]
      OBVIOUS
    <2>1. work[h].command \in CommandIds /\ work[h].result = resultCache[work[h].command]
          /\ work[h].result \in Results
      BY DEF WorkFits, Work
    <2> QED
      BY <1>1, <1>4, <1>7, <2>1
  <1>10. ReportsTrue'
    BY <1>1, <1>2, <1>3, <1>4, <1>8, <1>9 DEF MachineCaches, ReportsTrue
  <1>11. RunsCounted'
    BY <1>1, <1>2, <1>3, <1>4, <1>7 DEF MachineCaches, CommandInv, RunsCounted, InMemory
  <1> QED
    BY <1>5, <1>6, <1>10, <1>11 DEF CommandInv

\* A stop of the machine keeps the invariant: what it remembers survives.
LEMMA MachineStopsKeeps == ASSUME CommandInv, MachineStops PROVE CommandInv'
  <1> USE ThreadFitsNow
  <1>1. Resting \in Thread /\ Resting.phase = "rest" /\ Resting.awaits = "none"
    BY RestFits DEF Resting
  <1>2. CommandShape'
    <2>1. cut \in [CommandIds -> Nat] /\ (cut' = cut \/ cut' = [cut EXCEPT ![machine.command] = @ + 1])
      BY DEF MachineStops, CommandInv, CommandShape
    <2>2. cut' \in [CommandIds -> Nat]
      BY <2>1
    <2> QED
      BY <1>1, <2>2 DEF MachineStops, CommandInv, CommandShape
  <1>3. NamesQueued' /\ ReportsTrue'
    BY <1>1 DEF MachineStops, CommandInv, NamesQueued, ReportsTrue, OutcomeIsTrue
  <1>4. RunsCounted'
    <2>1. machine.phase = "ran" => resultCache[machine.command] = "none"
      BY DEF CommandInv, ReportsTrue
    <2> QED
      BY <1>1, <2>1 DEF MachineStops, CommandInv, CommandShape, RunsCounted, InMemory
  <1> QED
    BY <1>2, <1>3, <1>4 DEF CommandInv

\* Every step of the command queue keeps the invariant.
LEMMA CommandKeeps == CommandInv /\ [CommandNext]_commandVars => CommandInv'
  <1> SUFFICES ASSUME CommandInv, [CommandNext]_commandVars PROVE CommandInv'
    OBVIOUS
  <1>1. CASE UNCHANGED commandVars
    BY <1>1 DEF commandVars, CommandInv, CommandShape, NamesQueued, ReportsTrue, OutcomeIsTrue, RunsCounted, InMemory
  <1>2. CASE MachineGivesUp \/ MachineFindsCached
             \/ \E h \in Handlers : MachinePolls(h) \/ MachineReportsResult(h)
    <2>1. UNCHANGED <<commands, queued, asking, resultCache, runs, cut>>
      BY <1>2 DEF MachineGivesUp, MachineFindsCached, MachinePolls, MachineReportsResult
    <2> QED
      BY <1>2, <2>1, ThreadMoves
  <1>3. CASE CommandNext
    BY <1>2, <1>3, SuperadminKeeps, PollKeeps, ReportKeeps, MachineRunsKeeps, MachineCachesKeeps,
       MachineStopsKeeps DEF CommandNext, Serve, MachineWorks
  <1> QED
    BY <1>1, <1>3

\* The invariant says that no handler runs twice for one command.
LEMMA CommandsAreTrue == CommandInv => RunOnce
  <1> SUFFICES ASSUME CommandInv PROVE RunOnce
    OBVIOUS
  <1>1. \A c \in CommandIds : runs[c] <= 1 + cut[c]
    BY DEF CommandInv, CommandShape, RunsCounted
  <1> QED
    BY <1>1 DEF CommandInv, ReportsTrue, RunOnce

-----------------------------------------------------------------------------
(* RvmController.  Every part of a tick, and every command, leaves the       *)
(* controller safe, and after a stop it is still: nothing on, or a known     *)
(* fault with its latch.                                                     *)

CtlFields == {"state", "reason", "alert", "on", "stuck", "fault", "lease", "selected", "weighed", "raised"}
IsCtl(c)  == /\ c = [f \in CtlFields |-> c[f]]
             /\ c.lease \in RvmSessions \cup {NoLease} /\ c.selected \in Types \cup {NoType}

Still(c) == IF c.fault THEN c.reason ELSE c.on = {}
Safe(c)  == IF c.fault THEN c.reason
            ELSE c.on # {} => /\ ~latchActive(c)
                              /\ c.state = "MAINTENANCE" \/ (c.state = "SESSION_ACTIVE" /\ c.on = {"gate"})

\* From c to d no lease or type is gained, the latch is not left, and what is
\* newly on under the latch failed to stop.
Leads(c, d) ==
    /\ d.lease = c.lease /\ d.selected \in {c.selected, NoType} /\ c.stuck \subseteq d.stuck
    /\ latchActive(c) => latchActive(d) /\ d.on \subseteq c.on \cup d.stuck
    /\ latchActive(d) /\ ~latchActive(c) => d.on \subseteq d.stuck
Good(c, d) == IsCtl(d) /\ Safe(d) /\ Leads(c, d)

\* What one call may do and what the next may do compose.
LEMMA LeadsOn == ASSUME NEW a, NEW b, NEW d, Leads(a, b), Leads(b, d) PROVE Leads(a, d)
  BY DEF Leads

\* Doing nothing is among what a call may do.
LEMMA LeadsNowhere == ASSUME NEW c, IsCtl(c) PROVE Leads(c, c)
  BY DEF Leads

\* What is left as it was, but for the fields that are stops, latch or state.
LEMMA stopOutputsLemma ==
    ASSUME NEW c, IsCtl(c)
    PROVE  LET d == stopOutputs(c) IN
           /\ IsCtl(d) /\ d.on = c.on \cap c.stuck /\ d.fault = (c.stuck # {})
           /\ d.state = c.state /\ d.reason = c.reason /\ d.alert = c.alert /\ d.stuck = c.stuck
           /\ d.lease = c.lease /\ d.selected = c.selected /\ d.weighed = c.weighed /\ d.raised = c.raised
  BY DEF IsCtl, CtlFields, stopOutputs

\* enter_safe_state leaves the outputs off, or the fault raised for those that stick.
LEMMA enterSafeStateLemma ==
    ASSUME NEW c, IsCtl(c)
    PROVE  LET d == enterSafeState(c) IN
           /\ IsCtl(d) /\ Still(d) /\ Safe(d) /\ latchActive(d) /\ Leads(c, d)
           /\ d.on = c.on \cap c.stuck /\ d.fault = (c.stuck # {}) /\ d.state = "SAFE_STATE" /\ d.reason
           /\ d.stuck = c.stuck /\ d.lease = c.lease /\ d.selected = c.selected
           /\ d.weighed = c.weighed /\ d.raised = c.raised
  <1> DEFINE b == stopOutputs(c)
             d == enterSafeState(c)
  <1>1. /\ IsCtl(b) /\ b.on = c.on \cap c.stuck /\ b.fault = (c.stuck # {}) /\ b.stuck = c.stuck
        /\ b.lease = c.lease /\ b.selected = c.selected /\ b.weighed = c.weighed /\ b.raised = c.raised
    BY stopOutputsLemma
  <1>2. d = [b EXCEPT !.alert = "CRITICAL", !.reason = TRUE, !.state = "SAFE_STATE"]
    BY DEF enterSafeState
  <1> HIDE DEF b, d
  <1>3. /\ IsCtl(d) /\ d.on = c.on \cap c.stuck /\ d.fault = (c.stuck # {}) /\ d.state = "SAFE_STATE" /\ d.reason
        /\ d.stuck = c.stuck /\ d.lease = c.lease /\ d.selected = c.selected
        /\ d.weighed = c.weighed /\ d.raised = c.raised
    BY <1>1, <1>2 DEF IsCtl, CtlFields
  <1>4. latchActive(d) /\ Still(d) /\ Safe(d)
    BY <1>3 DEF latchActive, Still, Safe
  <1>5. Leads(c, d)
    BY <1>3, <1>4 DEF Leads
  <1> QED
    BY <1>3, <1>4, <1>5 DEF d

\* safe_all_stop leaves the outputs off and otherwise changes nothing, unless one sticks.
LEMMA safeAllStopLemma ==
    ASSUME NEW c, IsCtl(c)
    PROVE  LET d == safeAllStop(c) IN
           /\ IsCtl(d) /\ Still(d) /\ Safe(d) /\ Leads(c, d) /\ d.on \subseteq d.stuck
           /\ d.stuck = c.stuck /\ d.lease = c.lease /\ d.selected = c.selected
           /\ d.weighed = c.weighed /\ d.raised = c.raised
           /\ c.stuck = {} => /\ d.state = c.state /\ d.reason = c.reason /\ d.alert = c.alert
                              /\ ~d.fault /\ d.on = {}
           /\ c.stuck # {} => d.state = "SAFE_STATE" /\ d.reason /\ d.fault
  <1> DEFINE d == safeAllStop(c)
  <1>1. CASE c.stuck # {}
    <2>1. d = enterSafeState(c)
      BY <1>1 DEF safeAllStop
    <2>2. /\ IsCtl(d) /\ Still(d) /\ Safe(d) /\ Leads(c, d)
          /\ d.on = c.on \cap c.stuck /\ d.fault = (c.stuck # {}) /\ d.state = "SAFE_STATE" /\ d.reason
          /\ d.stuck = c.stuck /\ d.lease = c.lease /\ d.selected = c.selected
          /\ d.weighed = c.weighed /\ d.raised = c.raised
      BY <2>1, enterSafeStateLemma
    <2> HIDE DEF d
    <2>3. d.fault /\ d.on \subseteq d.stuck
      BY <1>1, <2>2
    <2> QED
      BY <1>1, <2>2, <2>3 DEF d
  <1>2. CASE c.stuck = {}
    <2>1. d = stopOutputs(c)
      BY <1>2 DEF safeAllStop
    <2>2. /\ IsCtl(d) /\ d.on = {} /\ ~d.fault
          /\ d.state = c.state /\ d.reason = c.reason /\ d.alert = c.alert /\ d.stuck = c.stuck
          /\ d.lease = c.lease /\ d.selected = c.selected /\ d.weighed = c.weighed /\ d.raised = c.raised
      BY <1>2, <2>1, stopOutputsLemma
    <2> HIDE DEF d
    <2>3. Still(d) /\ Safe(d) /\ Leads(c, d)
      BY <1>2, <2>2 DEF Still, Safe, Leads, latchActive
    <2> QED
      BY <1>2, <2>2, <2>3 DEF d
  <1> QED
    BY <1>1, <1>2

\* A state that is neither the latch's nor refused by it.
LEMMA setStateLemma ==
    ASSUME NEW c, IsCtl(c), NEW s, s # "SAFE_STATE"
    PROVE  LET d == setState(c, s) IN
           /\ IsCtl(d) /\ d.on = c.on /\ d.fault = c.fault /\ d.stuck = c.stuck
           /\ d.reason = c.reason /\ d.alert = c.alert /\ d.lease = c.lease /\ d.selected = c.selected
           /\ d.weighed = c.weighed /\ d.raised = c.raised /\ d.state \in {c.state, s}
           /\ c.state # "SAFE_STATE" \/ ~c.reason \/ s = "MAINTENANCE" => d.state = s
           /\ Still(c) => Still(d) /\ Safe(d)
           /\ c.state # "SAFE_STATE" \/ c.reason => (latchActive(d) <=> latchActive(c))
  BY DEF IsCtl, CtlFields, setState, Still, Safe, latchActive

\* A warning below CRITICAL changes the state shown and moves nothing.
LEMMA setWarningLemma ==
    ASSUME NEW c, IsCtl(c), NEW category, category # "CRITICAL"
    PROVE  LET d == setWarning(c, category) IN
           /\ IsCtl(d) /\ d.on = c.on /\ d.fault = c.fault /\ d.stuck = c.stuck /\ d.state = c.state
           /\ d.reason = c.reason /\ d.lease = c.lease /\ d.selected = c.selected
           /\ d.weighed = c.weighed /\ d.raised = c.raised
           /\ latchActive(d) <=> latchActive(c)
           /\ Still(c) => Still(d) /\ Safe(d)
           /\ Safe(c) => Safe(d)
  BY DEF IsCtl, CtlFields, setWarning, Still, Safe, latchActive

\* A fraud report stops the outputs; it latches only through a stuck one.
LEMMA reportFraudLemma ==
    ASSUME NEW c, IsCtl(c)
    PROVE  LET d == reportFraud(c) IN
           /\ IsCtl(d) /\ Still(d) /\ Safe(d) /\ Leads(c, d) /\ d.on \subseteq d.stuck
           /\ d.stuck = c.stuck /\ d.lease = c.lease /\ d.selected = c.selected
           /\ d.weighed = c.weighed /\ d.raised = c.raised
           /\ c.stuck = {} => d.state = c.state /\ d.reason = c.reason
           /\ c.stuck # {} => d.state = "SAFE_STATE" /\ d.reason
  <1> DEFINE b == safeAllStop(c)
             d == setWarning(b, "FRAUD")
  <1>1. /\ IsCtl(b) /\ Still(b) /\ Leads(c, b) /\ b.on \subseteq b.stuck
        /\ b.stuck = c.stuck /\ b.lease = c.lease /\ b.selected = c.selected
        /\ b.weighed = c.weighed /\ b.raised = c.raised
        /\ c.stuck = {} => b.state = c.state /\ b.reason = c.reason
        /\ c.stuck # {} => b.state = "SAFE_STATE" /\ b.reason
    BY safeAllStopLemma
  <1> HIDE DEF b
  <1>2. /\ IsCtl(d) /\ d.on = b.on /\ d.stuck = b.stuck /\ d.state = b.state
        /\ d.reason = b.reason /\ d.lease = b.lease /\ d.selected = b.selected
        /\ d.weighed = b.weighed /\ d.raised = b.raised
        /\ latchActive(d) <=> latchActive(b)
        /\ Still(d) /\ Safe(d)
    BY <1>1, setWarningLemma
  <1> HIDE DEF d
  <1>3. Leads(c, d)
    BY <1>1, <1>2 DEF Leads
  <1>4. reportFraud(c) = d
    BY DEF reportFraud, b, d
  <1> QED
    BY <1>1, <1>2, <1>3, <1>4

\* Closing and opening one output.  An output that sticks latches when it is
\* closed and refuses when it is opened.
LEMMA closeOutputLemma ==
    ASSUME NEW c, IsCtl(c), NEW o
    PROVE  LET d == closeOutput(c, o) IN
           /\ IsCtl(d) /\ d.stuck = c.stuck /\ d.lease = c.lease /\ d.selected = c.selected
           /\ d.weighed = c.weighed /\ Leads(c, d)
           /\ Safe(c) => Safe(d)
           /\ Still(c) => Still(d)
           /\ o \in c.stuck => Still(d) /\ d.on \subseteq d.stuck /\ d.state = "SAFE_STATE"
           /\ o \notin c.stuck => /\ d.on = c.on \ {o} /\ d.fault = c.fault /\ d.raised = c.raised
                                  /\ d.state = c.state /\ d.reason = c.reason /\ d.alert = c.alert
  <1> DEFINE b == enterSafeState(c)
             d == closeOutput(c, o)
  <1>1. CASE o \in c.stuck
    <2>1. /\ IsCtl(b) /\ Still(b) /\ Leads(c, b) /\ latchActive(b)
          /\ b.on = c.on \cap c.stuck /\ b.state = "SAFE_STATE"
          /\ b.stuck = c.stuck /\ b.lease = c.lease /\ b.selected = c.selected /\ b.weighed = c.weighed
      BY enterSafeStateLemma
    <2>2. d = [b EXCEPT !.raised = TRUE]
      BY <1>1 DEF closeOutput
    <2> HIDE DEF b, d
    <2>3. /\ IsCtl(d) /\ d.on = b.on /\ d.fault = b.fault /\ d.reason = b.reason /\ d.state = b.state
          /\ d.stuck = b.stuck /\ d.lease = b.lease /\ d.selected = b.selected /\ d.weighed = b.weighed
          /\ d.alert = b.alert
      BY <2>1, <2>2 DEF IsCtl, CtlFields
    <2>4. Still(d) /\ Safe(d) /\ Leads(c, d)
      BY <2>1, <2>3 DEF Still, Safe, Leads, latchActive
    <2> QED
      BY <1>1, <2>1, <2>3, <2>4 DEF d
  <1>2. CASE o \notin c.stuck
    <2>1. d = [c EXCEPT !.on = @ \ {o}]
      BY <1>2 DEF closeOutput
    <2> HIDE DEF d
    <2>2. /\ IsCtl(d) /\ d.on = c.on \ {o} /\ d.fault = c.fault /\ d.reason = c.reason /\ d.state = c.state
          /\ d.stuck = c.stuck /\ d.lease = c.lease /\ d.selected = c.selected /\ d.weighed = c.weighed
          /\ d.alert = c.alert /\ d.raised = c.raised
      BY <2>1 DEF IsCtl, CtlFields
    <2>3. Leads(c, d)
      BY <2>2 DEF Leads, latchActive
    <2>4. Still(c) => Still(d)
      BY <2>2 DEF Still
    <2>5. Safe(c) => Safe(d)
      <3>1. latchActive(d) <=> latchActive(c)
        BY <2>2 DEF latchActive
      <3>2. c.on \subseteq {"gate"} => c.on \ {o} \in {{}, {"gate"}}
        OBVIOUS
      <3> QED
        BY <2>2, <3>1, <3>2 DEF Safe
    <2> QED
      BY <1>2, <2>2, <2>3, <2>4, <2>5 DEF d
  <1> QED
    BY <1>1, <1>2

\* Opening an output moves that output alone.
LEMMA openOutputLemma ==
    ASSUME NEW c, IsCtl(c), NEW o
    PROVE  LET d == openOutput(c, o) IN
           /\ IsCtl(d) /\ d.stuck = c.stuck /\ d.lease = c.lease /\ d.selected = c.selected
           /\ d.weighed = c.weighed /\ d.fault = c.fault /\ d.reason = c.reason /\ d.state = c.state
           /\ d.alert = c.alert
           /\ d.on = IF o \in c.stuck THEN c.on ELSE c.on \cup {o}
           /\ latchActive(d) <=> latchActive(c)
           /\ ~latchActive(c) => Leads(c, d)
  BY DEF IsCtl, CtlFields, openOutput, latchActive, Leads

\* What an open interlock says.
LEMMA InterlockOpen ==
    ASSUME NEW c, NEW reading, ~actuationBlocked(c, reading)
    PROVE  ~latchActive(c) /\ ~c.fault /\ c.state \notin LOCKED /\ reading \cap Hazards = {}
  BY DEF actuationBlocked, unsafeConditions, physicalHazards, Hazards

\* The gate opens in a session behind an open interlock, or nothing does.
LEMMA tryOpenInputGateLemma ==
    ASSUME NEW c, IsCtl(c), Still(c), NEW reading, c.state \in LOCKED \cup {"SESSION_ACTIVE"}
    PROVE  LET d == tryOpenInputGate(c, reading) IN
           /\ IsCtl(d) /\ Safe(d) /\ Leads(c, d) /\ d.stuck = c.stuck /\ d.lease = c.lease
           /\ d.state # "PROCESSING"
           /\ reading \cap Hazards # {} => Still(d)
           /\ c.stuck = {} /\ ~c.fault => ~d.fault
           /\ boundExhausted(c) => d = c
  <1> DEFINE d == tryOpenInputGate(c, reading)
  <1>0. Safe(c) /\ Leads(c, c) /\ c.state # "PROCESSING"
    BY LeadsNowhere DEF Still, Safe, LOCKED
  <1>1. CASE boundExhausted(c)
    <2>1. d = c
      BY <1>1 DEF tryOpenInputGate
    <2> QED
      BY <1>0, <1>1, <2>1
  <1>2. CASE ~boundExhausted(c) /\ actuationBlocked(c, reading)
    <2>1. d = safeAllStop(c)
      BY <1>2 DEF tryOpenInputGate
    <2>2. /\ IsCtl(d) /\ Still(d) /\ Safe(d) /\ Leads(c, d) /\ d.stuck = c.stuck /\ d.lease = c.lease
          /\ c.stuck = {} => d.state = c.state /\ ~d.fault
          /\ c.stuck # {} => d.state = "SAFE_STATE"
      BY <2>1, safeAllStopLemma
    <2> HIDE DEF d
    <2>3. d.state # "PROCESSING"
      BY <1>0, <2>2
    <2> QED
      BY <1>2, <2>2, <2>3 DEF d
  <1>3. CASE ~boundExhausted(c) /\ ~actuationBlocked(c, reading)
    <2>1. d = openOutput(c, "gate")
      BY <1>3 DEF tryOpenInputGate
    <2>2. ~latchActive(c) /\ ~c.fault /\ c.on = {} /\ c.state = "SESSION_ACTIVE" /\ reading \cap Hazards = {}
      BY <1>3, InterlockOpen DEF Still
    <2>3. /\ IsCtl(d) /\ d.fault = c.fault /\ d.state = c.state /\ Leads(c, d)
          /\ d.on = (IF "gate" \in c.stuck THEN c.on ELSE c.on \cup {"gate"})
          /\ ~latchActive(d) /\ d.stuck = c.stuck /\ d.lease = c.lease
      <3> DEFINE e == openOutput(c, "gate")
      <3>1. /\ IsCtl(e) /\ e.fault = c.fault /\ e.state = c.state /\ (~latchActive(c) => Leads(c, e))
            /\ e.on = (IF "gate" \in c.stuck THEN c.on ELSE c.on \cup {"gate"})
            /\ e.stuck = c.stuck /\ e.lease = c.lease
        BY openOutputLemma
      <3>2. latchActive(e) <=> latchActive(c)
        BY openOutputLemma
      <3> HIDE DEF e, d
      <3> QED
        BY <2>1, <2>2, <3>1, <3>2, Zenon DEF e
    <2>5. d.on \in {{}, {"gate"}}
      BY <2>2, <2>3
    <2> HIDE DEF d
    <2>4. Safe(d)
      BY <2>2, <2>3, <2>5 DEF Safe
    <2> QED
      BY <1>3, <2>2, <2>3, <2>4 DEF d
  <1> QED
    BY <1>1, <1>2, <1>3

\* Before the item is handled: each part stops, latches, warns or does nothing.
LEMMA EarlyPartsLemma ==
    ASSUME NEW c, IsCtl(c), Safe(c), NEW r, NEW x
    PROVE  /\ Good(c, Chamber(c, r)) /\ Good(c, Offline(c, r)) /\ Good(c, Blurry(c, r))
           /\ Good(c, Reverse(c, r)) /\ Good(c, latchHazard(c, x, r))
           /\ x \in r => latchActive(latchHazard(c, x, r))
  <1>1. Good(c, c)
    BY LeadsNowhere DEF Good
  <1>2. Good(c, reportFraud(c))
    BY reportFraudLemma DEF Good
  <1>3. Good(c, enterSafeState(c)) /\ latchActive(enterSafeState(c))
    BY enterSafeStateLemma DEF Good
  <1>4. Good(c, setWarning(c, "SENSOR"))
    <2> DEFINE d == setWarning(c, "SENSOR")
    <2>1. /\ IsCtl(d) /\ d.on = c.on /\ d.stuck = c.stuck /\ d.lease = c.lease /\ d.selected = c.selected
          /\ latchActive(d) <=> latchActive(c)
          /\ Safe(d)
      BY setWarningLemma
    <2> HIDE DEF d
    <2>2. Leads(c, d)
      BY <2>1 DEF Leads
    <2> QED
      BY <2>1, <2>2 DEF Good, d
  <1> QED
    BY <1>1, <1>2, <1>3, <1>4 DEF Chamber, Offline, Blurry, Reverse, latchHazard

\* The capacity check never leads away from a safe control state.
LEMMA CapacityLemma ==
    ASSUME NEW c, IsCtl(c), Safe(c), NEW r
    PROVE  Good(c, Capacity(c, r))
  <1>1. CASE "full" \in r /\ c.state \notin {"FULL", "SAFE_STATE"}
    <2> DEFINE b == setState(c, "FULL")
               d == safeAllStop(b)
    <2>1. /\ IsCtl(b) /\ b.on = c.on /\ b.stuck = c.stuck /\ b.lease = c.lease /\ b.selected = c.selected
          /\ latchActive(b) <=> latchActive(c)
      BY <1>1, setStateLemma
    <2>2. Leads(c, b)
      <3> HIDE DEF b
      <3> QED
        BY <2>1 DEF Leads
    <2>3. IsCtl(d) /\ Safe(d) /\ Leads(b, d)
      BY <2>1, safeAllStopLemma
    <2>4. Capacity(c, r) = d
      BY <1>1 DEF Capacity
    <2> HIDE DEF b, d
    <2> QED
      BY <2>2, <2>3, <2>4, LeadsOn DEF Good
  <1>2. CASE ~("full" \in r /\ c.state \notin {"FULL", "SAFE_STATE"})
    BY <1>2, LeadsNowhere DEF Capacity, Good
  <1> QED
    BY <1>1, <1>2

\* An item in a session shuts the gate.
LEMMA ItemPresentLemma ==
    ASSUME NEW c, IsCtl(c), Safe(c), NEW r
    PROVE  Good(c, ItemPresent(c, r))
  <1>1. CASE ~Rises("item", r)
    BY <1>1, LeadsNowhere DEF ItemPresent, Good
  <1>2. CASE Rises("item", r) /\ c.state # "SESSION_ACTIVE"
    BY <1>2, reportFraudLemma DEF ItemPresent, Good
  <1>3. CASE Rises("item", r) /\ c.state = "SESSION_ACTIVE"
    <2> DEFINE a == setState(c, "PROCESSING")
               b == [a EXCEPT !.weighed = FALSE]
               d == closeOutput(b, "gate")
    <2>1. /\ IsCtl(a) /\ a.on = c.on /\ a.stuck = c.stuck /\ a.lease = c.lease /\ a.selected = c.selected
          /\ a.fault = c.fault /\ a.reason = c.reason /\ a.alert = c.alert /\ a.state = "PROCESSING"
      BY <1>3, setStateLemma
    <2>2. /\ IsCtl(b) /\ b.on = c.on /\ b.stuck = c.stuck /\ b.lease = c.lease /\ b.selected = c.selected
          /\ b.fault = c.fault /\ b.reason = c.reason /\ b.alert = c.alert /\ b.state = "PROCESSING"
      <3> HIDE DEF a
      <3> QED
        BY <2>1 DEF IsCtl, CtlFields
    <2>3. ItemPresent(c, r) = d
      BY <1>3 DEF ItemPresent
    <2> HIDE DEF a, b
    <2>4. Leads(c, b)
      BY <1>3, <2>2 DEF Leads, latchActive
    <2>5. /\ IsCtl(d) /\ Leads(b, d) /\ ("gate" \in b.stuck => Still(d))
          /\ "gate" \notin b.stuck => /\ d.on = b.on \ {"gate"} /\ d.fault = b.fault /\ d.reason = b.reason
      BY <2>2, closeOutputLemma
    <2> HIDE DEF d
    <2>6. Still(d)
      <3>1. CASE "gate" \notin b.stuck
        BY <1>3, <2>2, <2>5, <3>1 DEF Still, Safe
      <3> QED
        BY <2>5, <3>1
    <2>7. Safe(d)
      BY <2>6 DEF Still, Safe
    <2> QED
      BY <2>3, <2>4, <2>5, <2>7, LeadsOn DEF Good
  <1> QED
    BY <1>1, <1>2, <1>3

\* Safe calls compose.
LEMMA GoodOn == ASSUME NEW a, NEW b, NEW d, Good(a, b), Good(b, d) PROVE Good(a, d)
  BY LeadsOn DEF Good

\* All that a tick does before it looks at an item is safe, and an open panel latches.
LEMMA BeforeItemLemma ==
    ASSUME IsCtl(ctl), Safe(ctl), NEW r
    PROVE  Good(ctl, BeforeItem(r)) /\ ("panel" \in r => latchActive(BeforeItem(r)))
  <1> DEFINE a1 == Chamber(ctl, r)
             a2 == latchHazard(a1, "panel", r)
             a3 == latchHazard(a2, "occluded", r)
             a4 == Offline(a3, r)
             a5 == Blurry(a4, r)
             a6 == Reverse(a5, r)
             a7 == Capacity(a6, r)
             a8 == ItemPresent(a7, r)
  <1>1. Good(ctl, a1)
    BY EarlyPartsLemma
  <1>2. Good(a1, a2) /\ ("panel" \in r => latchActive(a2))
    BY <1>1, EarlyPartsLemma DEF Good
  <1>3. Good(a2, a3)
    BY <1>2, EarlyPartsLemma DEF Good
  <1>4. Good(a3, a4)
    BY <1>3, EarlyPartsLemma DEF Good
  <1>5. Good(a4, a5)
    BY <1>4, EarlyPartsLemma DEF Good
  <1>6. Good(a5, a6)
    BY <1>5, EarlyPartsLemma DEF Good
  <1>7. Good(a6, a7)
    BY <1>6, CapacityLemma DEF Good
  <1>8. Good(a7, a8)
    BY <1>7, ItemPresentLemma DEF Good
  <1>9. BeforeItem(r) = a8
    BY DEF BeforeItem
  <1> HIDE DEF a1, a2, a3, a4, a5, a6, a7, a8
  <1>10. Good(a2, a8)
    BY <1>3, <1>4, <1>5, <1>6, <1>7, <1>8, GoodOn
  <1>11. Good(ctl, a2)
    BY <1>1, <1>2, GoodOn
  <1> QED
    BY <1>2, <1>9, <1>10, <1>11, GoodOn DEF Good, Leads

\* The item is out of the chamber; what latched meanwhile stays latched.
LEMMA ItemDoneLemma ==
    ASSUME NEW c, IsCtl(c), Still(c), c.state = "PROCESSING" \/ (c.state = "SAFE_STATE" /\ c.reason)
    PROVE  LET d == ItemDone(c) IN
           /\ Good(c, d) /\ Still(d) /\ d.stuck = c.stuck /\ d.state \in {"SESSION_ACTIVE", "SAFE_STATE"}
  <1> DEFINE b == [c EXCEPT !.selected = NoType]
             d == setState(b, "SESSION_ACTIVE")
  <1>1. /\ IsCtl(b) /\ b.on = c.on /\ b.fault = c.fault /\ b.stuck = c.stuck /\ b.state = c.state
        /\ b.reason = c.reason /\ b.alert = c.alert /\ b.lease = c.lease /\ b.selected = NoType
    BY DEF IsCtl, CtlFields
  <1> HIDE DEF b
  <1>2. Still(b) /\ (b.state # "SAFE_STATE" \/ b.reason)
    BY <1>1 DEF Still
  <1>3. /\ IsCtl(d) /\ d.on = b.on /\ d.stuck = b.stuck /\ d.lease = b.lease /\ d.selected = b.selected
        /\ d.state \in {b.state, "SESSION_ACTIVE"} /\ Still(d) /\ Safe(d)
        /\ b.state # "SAFE_STATE" => d.state = "SESSION_ACTIVE"
    BY <1>1, <1>2, setStateLemma
  <1>4. latchActive(d) <=> latchActive(b)
    BY <1>1, <1>2, setStateLemma
  <1>5. latchActive(b) <=> latchActive(c)
    BY <1>1 DEF latchActive
  <1>6. ItemDone(c) = d
    BY DEF ItemDone, b
  <1> HIDE DEF d
  <1>7. Leads(c, d)
    BY <1>1, <1>3, <1>4, <1>5 DEF Leads
  <1>8. d.state \in {"SESSION_ACTIVE", "SAFE_STATE"}
    BY <1>1, <1>3
  <1> QED
    BY <1>1, <1>3, <1>6, <1>7, <1>8 DEF Good

\* Noting the weighing concerns neither outputs nor latch.
LEMMA MarkWeighed ==
    ASSUME NEW c, IsCtl(c), NEW w
    PROVE  LET d == [c EXCEPT !.weighed = w] IN
           /\ IsCtl(d) /\ Leads(c, d) /\ (Safe(c) => Safe(d)) /\ (Still(c) => Still(d))
           /\ d.state = c.state /\ d.stuck = c.stuck
  BY DEF IsCtl, CtlFields, Leads, Safe, Still, latchActive

\* An item of an odd weight is given back: the gate opens for that behind the
\* interlock's own reading.
LEMMA WeightLemma ==
    ASSUME NEW c, IsCtl(c), Safe(c), NEW r, NEW fresh
    PROVE  LET d == Weight(c, r, fresh) IN
           /\ Good(c, d)
           /\ Rejects(c, r) /\ fresh \cap Hazards # {} => Still(d) /\ d.state # "PROCESSING"
  <1> DEFINE idle == c.raised \/ c.state # "PROCESSING" \/ c.weighed \/ r \cap {"weight", "oddWeight"} = {}
             d == Weight(c, r, fresh)
  <1>1. CASE idle
    <2>1. d = c /\ ~Rejects(c, r)
      BY <1>1 DEF Weight, Rejects
    <2> QED
      BY <2>1, LeadsNowhere DEF Good
  <1>2. CASE ~idle /\ Rejects(c, r)
    <2> DEFINE f == reportFraud(c)
               e == ItemDone(f)
               w == [e EXCEPT !.weighed = TRUE]
               g == tryOpenInputGate(w, fresh)
    <2>1. /\ Good(c, f) /\ Still(f)
          /\ f.state = "PROCESSING" \/ (f.state = "SAFE_STATE" /\ f.reason)
      BY <1>2, reportFraudLemma DEF Good, Rejects
    <2> HIDE DEF f
    <2>2. Good(f, e) /\ Still(e) /\ e.state \in {"SESSION_ACTIVE", "SAFE_STATE"}
      BY <2>1, ItemDoneLemma DEF Good
    <2> HIDE DEF e
    <2>3. Good(e, w) /\ Still(w) /\ w.state = e.state
      BY <2>2, MarkWeighed DEF Good
    <2> HIDE DEF w
    <2>4. w.state \in LOCKED \cup {"SESSION_ACTIVE"}
      BY <2>2, <2>3 DEF LOCKED
    <2>5. Good(w, g) /\ (fresh \cap Hazards # {} => Still(g)) /\ g.state # "PROCESSING"
      BY <2>3, <2>4, tryOpenInputGateLemma DEF Good
    <2>6. d = g
      BY <1>2 DEF Weight, f, e, w
    <2> HIDE DEF g, d
    <2> QED
      BY <2>1, <2>2, <2>3, <2>5, <2>6, GoodOn DEF d
  <1>3. CASE ~idle /\ ~Rejects(c, r)
    <2>1. d = [c EXCEPT !.weighed = TRUE]
      BY <1>3 DEF Weight
    <2> QED
      BY <1>3, <2>1, MarkWeighed DEF Good
  <1> QED
    BY <1>1, <1>2, <1>3

\* A hazard in the readings forbids actuation.
LEMMA HazardBlocks ==
    ASSUME NEW c, NEW reading, reading \cap Hazards # {}
    PROVE  actuationBlocked(c, reading)
  BY DEF actuationBlocked, unsafeConditions, physicalHazards, Hazards

\* In the chamber nothing is on: opening what sticks only raises.
LEMMA OpenStuckLemma ==
    ASSUME NEW c, IsCtl(c), Still(c), NEW o, o \in c.stuck
    PROVE  LET d == openOutput(c, o) IN Good(c, d) /\ Still(d)
  BY DEF IsCtl, CtlFields, openOutput, latchActive, Leads, Good, Still, Safe

\* A conveyor that jams latches in the same step.
LEMMA JamLemma ==
    ASSUME NEW c, IsCtl(c), ~latchActive(c), NEW o
    PROVE  LET d == closeOutput([c EXCEPT !.on = @ \cup {o}, !.stuck = @ \cup {o}], o)
           IN  Good(c, d) /\ Still(d)
  <1> DEFINE b == [c EXCEPT !.on = @ \cup {o}, !.stuck = @ \cup {o}]
             d == closeOutput(b, o)
  <1>1. /\ IsCtl(b) /\ b.stuck = c.stuck \cup {o} /\ b.lease = c.lease /\ b.selected = c.selected
        /\ ~latchActive(b)
    BY DEF IsCtl, CtlFields, latchActive
  <1> HIDE DEF b
  <1>2. IsCtl(d) /\ Still(d) /\ Leads(b, d) /\ d.on \subseteq d.stuck
    BY <1>1, closeOutputLemma
  <1> HIDE DEF d
  <1>3. Leads(c, d)
    BY <1>1, <1>2 DEF Leads
  <1>4. Safe(d)
    BY <1>2 DEF Still, Safe
  <1> QED
    BY <1>2, <1>3, <1>4 DEF Good, d, b

\* The accepted item: bound, interlock, conveyor, stop, compactor.
LEMMA AcceptanceLemma ==
    ASSUME NEW c, IsCtl(c), Safe(c), NEW r, NEW fresh, NEW again, NEW jams \in BOOLEAN
    PROVE  LET d == Acceptance(c, r, fresh, again, jams) IN
           /\ Good(c, d)
           /\ Still(c) /\ c.state # "PROCESSING" => Still(d)
           /\ Accepts(c, r) /\ fresh \cap Hazards # {} => Still(d)
           /\ Accepts(c, r) /\ Moves(c, fresh) /\ ~jams /\ again \cap Hazards # {} => Still(d)
  <1> DEFINE d == Acceptance(c, r, fresh, again, jams)
             f == safeAllStop(c)
             blocked == itemBlocked(c) \/ actuationBlocked(c, fresh)
  <1>1. CASE c.raised \/ ~Rises("accept", r)
    <2>1. d = c /\ ~Accepts(c, r)
      BY <1>1 DEF Acceptance, Accepts
    <2> QED
      BY <2>1, LeadsNowhere DEF Good
  <1>2. CASE ~c.raised /\ Rises("accept", r) /\ c.state # "PROCESSING"
    <2>1. d = reportFraud(c) /\ ~Accepts(c, r)
      BY <1>2 DEF Acceptance, Accepts
    <2> QED
      BY <2>1, reportFraudLemma DEF Good
  <1>3. CASE Accepts(c, r)
    <2>1. /\ ~c.raised /\ Rises("accept", r) /\ c.state = "PROCESSING" /\ Still(c)
      BY <1>3 DEF Accepts, Safe, Still
    <2>2. /\ Good(c, f) /\ Still(f)
          /\ f.state = "PROCESSING" \/ (f.state = "SAFE_STATE" /\ f.reason)
      BY <2>1, safeAllStopLemma DEF Good
    <2>3. Good(c, ItemDone(f)) /\ Still(ItemDone(f))
      <3> HIDE DEF f
      <3> QED
        BY <2>2, ItemDoneLemma, GoodOn DEF Good
    <2>4. CASE blocked
      <3>1. d = ItemDone(f)
        BY <2>1, <2>4, <1>3 DEF Acceptance, Moves
      <3> QED
        BY <2>1, <2>3, <3>1
    <2>5. CASE ~blocked /\ "conveyor" \in c.stuck
      <3>1. d = openOutput(c, "conveyor")
        BY <2>1, <2>5, <1>3 DEF Acceptance, Moves
      <3> QED
        BY <2>1, <2>5, <3>1, OpenStuckLemma, HazardBlocks
    <2>6. CASE Moves(c, fresh)
      <3>1. /\ ~itemBlocked(c) /\ ~actuationBlocked(c, fresh) /\ "conveyor" \notin c.stuck
            /\ ~latchActive(c)
        BY <2>6, InterlockOpen DEF Moves
      <3>2. CASE jams
        <4>1. d = closeOutput([c EXCEPT !.on = @ \cup {"conveyor"}, !.stuck = @ \cup {"conveyor"}], "conveyor")
          BY <1>3, <2>1, <2>6, <3>1, <3>2 DEF Acceptance
        <4> QED
          BY <3>1, <3>2, <4>1, JamLemma
      <3>3. CASE ~jams
        <4>1. d = IF actuationBlocked(c, again) THEN ItemDone(f)
                  ELSE IF "compactor" \in c.stuck THEN openOutput(c, "compactor") ELSE ItemDone(c)
          BY <1>3, <2>1, <2>6, <3>1, <3>3 DEF Acceptance
        <4>2. Good(c, ItemDone(c)) /\ Still(ItemDone(c))
          BY <2>1, ItemDoneLemma
        <4>3. "compactor" \in c.stuck => Good(c, openOutput(c, "compactor")) /\ Still(openOutput(c, "compactor"))
          BY <2>1, OpenStuckLemma
        <4> HIDE DEF d, f
        <4>4. Good(c, d) /\ Still(d)
          BY <2>3, <4>1, <4>2, <4>3
        <4> QED
          BY <4>4 DEF d
      <3> QED
        BY <3>2, <3>3
    <2> QED
      BY <2>4, <2>5, <2>6 DEF Moves
  <1> QED
    BY <1>1, <1>2, <1>3 DEF Accepts

\* The end of a tick keeps a still controller still.
LEMMA LatePartsLemma ==
    ASSUME NEW c, IsCtl(c), Safe(c), NEW r, NEW late
    PROVE  /\ Good(c, Level(c, r)) /\ Good(c, ExpireLease(c)) /\ Good(c, ChamberTimeout(c, late))
           /\ Still(c) => Still(Level(c, r)) /\ Still(ExpireLease(c)) /\ Still(ChamberTimeout(c, late))
  <1>1. Good(c, c)
    BY LeadsNowhere DEF Good
  <1>2. Good(c, safeAllStop(c)) /\ Still(safeAllStop(c))
    BY safeAllStopLemma DEF Good
  <1>3. ASSUME c.state \in {"SESSION_ACTIVE", "PROCESSING"}
        PROVE  LET d == safeAllStop(setState(c, "SYNC_PENDING")) IN Good(c, d) /\ Still(d)
    <2> DEFINE b == setState(c, "SYNC_PENDING")
               d == safeAllStop(b)
    <2>1. /\ IsCtl(b) /\ b.on = c.on /\ b.stuck = c.stuck /\ b.lease = c.lease /\ b.selected = c.selected
          /\ latchActive(b) <=> latchActive(c)
      BY <1>3, setStateLemma
    <2> HIDE DEF b
    <2>2. Leads(c, b)
      BY <2>1 DEF Leads
    <2>3. IsCtl(d) /\ Safe(d) /\ Leads(b, d) /\ Still(d)
      BY <2>1, safeAllStopLemma
    <2> HIDE DEF d
    <2> QED
      BY <2>2, <2>3, LeadsOn DEF Good, d, b
  <1>4. ASSUME c.state = "PROCESSING"
        PROVE  LET d == closeOutput(ItemDone(reportFraud(c)), "conveyor") IN Good(c, d) /\ Still(d)
    <2> DEFINE f == reportFraud(c)
               e == ItemDone(f)
               d == closeOutput(e, "conveyor")
    <2>1. /\ Good(c, f) /\ Still(f)
          /\ f.state = "PROCESSING" \/ (f.state = "SAFE_STATE" /\ f.reason)
      BY <1>4, reportFraudLemma DEF Good
    <2> HIDE DEF f
    <2>2. Good(f, e) /\ Still(e)
      BY <2>1, ItemDoneLemma DEF Good
    <2> HIDE DEF e
    <2>3. Good(e, d) /\ Still(d)
      BY <2>2, closeOutputLemma DEF Good
    <2> HIDE DEF d
    <2> QED
      BY <2>1, <2>2, <2>3, GoodOn DEF d, e, f
  <1> QED
    BY <1>1, <1>2, <1>3, <1>4 DEF Level, ExpireLease, ChamberTimeout

\* A finite set of numbers has a greatest one: what a price list of finitely
\* many types bounds an unselected item by.
LEMMA GreatestOf ==
    ASSUME NEW T \in SUBSET Nat, T # {}, IsFiniteSet(T)
    PROVE  \E x \in T : \A y \in T : x >= y
  <1> DEFINE above(x) == {y \in T : y > x}
             R == StrictSubsetOrdering(T)
             U == {above(x) : x \in T}
  <1>1. IsWellFoundedOn(R, SUBSET T)
    BY FS_StrictSubsetOrderingWellFounded, FS_FiniteSubsetsOfFinite
  <1>2. U \subseteq SUBSET T /\ U # {}
    OBVIOUS
  <1>3. PICK u \in U : \A v \in U : <<v, u>> \notin R
    <2> HIDE DEF R, U
    <2> QED
      BY <1>1, <1>2, WFMin
  <1>4. PICK x \in T : u = above(x)
    OBVIOUS
  <1>5. ASSUME NEW y \in T, y > x PROVE FALSE
    <2>0. above(y) \in U
      OBVIOUS
    <2>a. \A z \in T : z > y => z > x
      BY <1>5
    <2>b. y \in above(x) /\ y \notin above(y)
      BY <1>5
    <2>1. above(y) \in U /\ above(y) \subseteq u /\ above(y) # u
      BY <1>4, <2>0, <2>a, <2>b
    <2>2. <<above(y), u>> \in R
      BY <2>1, <1>2, <1>3 DEF StrictSubsetOrdering
    <2> QED
      BY <1>3, <2>1, <2>2
  <1> QED
    BY <1>5

\* The cap of an item is a number.
LEMMA itemCapLemma == ASSUME NEW type PROVE itemCap(type) \in Nat
  <1>1. Types \in SUBSET Nat /\ Types # {} /\ IsFiniteSet(Types)
    BY RvmAssumption
  <1>2. \E x \in Types : \A y \in Types : x >= y
    BY <1>1, GreatestOf
  <1>3. Greatest(Types) \in Types
    BY <1>2 DEF Greatest
  <1> QED
    BY <1>1, <1>3 DEF itemCap

\* What a latch and a step between two states of the controller owe each other.
Latches(c, d) == /\ latchActive(c) => latchActive(d) /\ d.on \subseteq c.on \cup d.stuck
                 /\ latchActive(d) /\ ~latchActive(c) => d.on \subseteq d.stuck
LatchStep ==
    /\ latchActive(ctl) /\ ~latchActive(ctl') =>
         ctl'.stuck = {} /\ ~ctl'.fault /\ (seen' = {} \/ ctl'.on = {})
    /\ latchActive(ctl') => ctl'.on \subseteq ctl.on \cup ctl'.stuck

\* What a call may do to the latch.
LEMMA LeadsLatches == ASSUME NEW c, NEW d, Leads(c, d) PROVE Latches(c, d)
  BY DEF Leads, Latches

\* A call that respects the latch is a permitted step of it.
LEMMA LatchesStep == ASSUME Latches(ctl, ctl') PROVE LatchStep
  BY DEF Latches, LatchStep

\* Clearing the note of a raised alarm concerns neither outputs nor latch.
LEMMA ClearRaised ==
    ASSUME NEW c, IsCtl(c)
    PROVE  LET d == [c EXCEPT !.raised = FALSE] IN
           /\ IsCtl(d) /\ (Safe(c) => Safe(d)) /\ (Still(c) <=> Still(d)) /\ d.lease = c.lease
           /\ d.stuck = c.stuck /\ d.on = c.on /\ d.fault = c.fault
           /\ \A b : Latches(b, c) => Latches(b, d)
  BY DEF IsCtl, CtlFields, Latches, Safe, Still, latchActive

\* A safe control state with the latch set moves nothing.
LEMMA LatchedIsStill == ASSUME NEW c, Safe(c), latchActive(c) PROVE Still(c)
  BY DEF Safe, Still

\* What every step owes: safe again, still when it read a panel open, latched as it was.
CtlKeeps ==
    /\ IsCtl(ctl') /\ Safe(ctl') /\ ("panel" \in seen' => Still(ctl')) /\ LatchStep

\* One tick of the loop, in any of its branches, keeps the control state safe.
LEMMA TickLemma ==
    ASSUME IsCtl(ctl), Safe(ctl), NEW r, NEW fresh, NEW again, NEW jams \in BOOLEAN, NEW late,
           Tick(r, fresh, again, jams, late)
    PROVE  CtlKeeps
  <1> DEFINE before   == BeforeItem(r)
             weighed  == Weight(before, r, fresh)
             moved    == Accepts(weighed, r) /\ Moves(weighed, fresh)
             accepted == Acceptance(weighed, r, fresh, again, jams)
             levelled == Level(accepted, r)
             expired  == ExpireLease(levelled)
             done     == ChamberTimeout(expired, late)
  <1>1. Good(ctl, before) /\ ("panel" \in r => latchActive(before))
    BY BeforeItemLemma
  <1>2. /\ Good(before, weighed)
        /\ Rejects(before, r) /\ fresh \cap Hazards # {} => Still(weighed) /\ weighed.state # "PROCESSING"
    BY <1>1, WeightLemma DEF Good
  <1>3. /\ Good(weighed, accepted)
        /\ Still(weighed) /\ weighed.state # "PROCESSING" => Still(accepted)
        /\ Accepts(weighed, r) /\ fresh \cap Hazards # {} => Still(accepted)
        /\ moved /\ ~jams /\ again \cap Hazards # {} => Still(accepted)
    BY <1>2, AcceptanceLemma DEF Good
  <1>4. Good(accepted, levelled) /\ (Still(accepted) => Still(levelled))
    BY <1>3, LatePartsLemma DEF Good
  <1>5. Good(levelled, expired) /\ (Still(levelled) => Still(expired))
    BY <1>4, LatePartsLemma DEF Good
  <1>6. Good(expired, done) /\ (Still(expired) => Still(done))
    BY <1>5, LatePartsLemma DEF Good
  <1>7. /\ fresh # {} => Rejects(before, r) \/ Accepts(weighed, r)
        /\ again # {} => moved /\ ~jams
        /\ ctl' = [done EXCEPT !.raised = FALSE]
        /\ seen' = (r \cup fresh \cup again) \cap Hazards
    BY DEF Tick
  <1> HIDE DEF before, weighed, moved, accepted, levelled, expired, done
  <1>8. Good(before, done)
    BY <1>2, <1>3, <1>4, <1>5, <1>6, GoodOn
  <1>9. Good(ctl, done)
    BY <1>1, <1>8, GoodOn
  <1>10. "panel" \in r => Still(done)
    BY <1>1, <1>8, LatchedIsStill DEF Good, Leads
  <1>11. "panel" \in fresh => Still(done)
    <2> SUFFICES ASSUME "panel" \in fresh PROVE Still(done)
      OBVIOUS
    <2>1. fresh \cap Hazards # {}
      BY DEF Hazards
    <2>2. Still(accepted)
      BY <1>2, <1>3, <1>7, <2>1
    <2> QED
      BY <1>4, <1>5, <1>6, <2>2
  <1>12. "panel" \in again => Still(done)
    <2> SUFFICES ASSUME "panel" \in again PROVE Still(done)
      OBVIOUS
    <2>1. again \cap Hazards # {}
      BY DEF Hazards
    <2> QED
      BY <1>3, <1>4, <1>5, <1>6, <1>7, <2>1
  <1>13. "panel" \in seen' => Still(done)
    BY <1>7, <1>10, <1>11, <1>12
  <1>14. IsCtl(ctl') /\ Safe(ctl') /\ (Still(done) => Still(ctl')) /\ Latches(ctl, ctl')
    BY <1>7, <1>9, ClearRaised, LeadsLatches DEF Good
  <1> QED
    BY <1>13, <1>14, LatchesStep DEF CtlKeeps

\* An item is counted only when what the session has left covers its cap.
ConsumedShape == consumed \in [RvmSessions -> [items : Nat, rupiah : Nat]]

\* Counting an item that is not blocked keeps the signed bound.
LEMMA BoundLemma ==
    ASSUME ConsumedShape, BoundHolds, NEW c, ~itemBlocked(c),
           c.lease \in RvmSessions \cup {NoLease},
           consumed' = IF c.lease # NoLease
             THEN [consumed EXCEPT ![c.lease].items = @ + 1, ![c.lease].rupiah = @ + itemCap(c.selected)]
             ELSE consumed
    PROVE  ConsumedShape' /\ BoundHolds'
  <1>1. CASE c.lease = NoLease
    BY <1>1 DEF ConsumedShape, BoundHolds
  <1>2. CASE c.lease # NoLease
    <2> DEFINE s == c.lease
               x == itemCap(c.selected)
               row == [consumed[s] EXCEPT !.items = @ + 1, !.rupiah = @ + x]
    <2>1. s \in RvmSessions /\ x \in Nat /\ MaxItems \in Nat /\ CeilingRupiah \in Nat
      BY <1>2, itemCapLemma, RvmAssumption
    <2>2. consumed[s] \in [items : Nat, rupiah : Nat]
      BY <2>1 DEF ConsumedShape
    <2>3. ~(consumed[s].items >= MaxItems) /\ ~(consumed[s].rupiah + x > CeilingRupiah)
      BY <1>2 DEF itemBlocked
    <2> HIDE DEF x
    <2>4. row \in [items : Nat, rupiah : Nat] /\ row.items <= MaxItems /\ row.rupiah <= CeilingRupiah
      <3> DEFINE i == consumed[s].items + 1
                 u == consumed[s].rupiah + x
      <3>1. row = [consumed[s] EXCEPT !.items = i, !.rupiah = u]
        OBVIOUS
      <3>2. i \in Nat /\ u \in Nat /\ i <= MaxItems /\ u <= CeilingRupiah
        BY <2>1, <2>2, <2>3
      <3> HIDE DEF row, i, u
      <3> QED
        BY <2>2, <3>1, <3>2
    <2>5. consumed' = [consumed EXCEPT ![s] = row]
      BY <1>2, <2>1 DEF ConsumedShape, x
    <2> HIDE DEF row, s
    <2>6. ConsumedShape'
      BY <2>1, <2>4, <2>5 DEF ConsumedShape
    <2>7. BoundHolds'
      BY <2>1, <2>4, <2>5 DEF ConsumedShape, BoundHolds
    <2> QED
      BY <2>6, <2>7
  <1> QED
    BY <1>1, <1>2

\* A tick counts an item only after the bound was checked against it.
LEMMA TickBound ==
    ASSUME IsCtl(ctl), Safe(ctl), ConsumedShape, BoundHolds,
           NEW r, NEW fresh, NEW again, NEW jams, NEW late, Tick(r, fresh, again, jams, late)
    PROVE  ConsumedShape' /\ BoundHolds'
  <1> DEFINE before  == BeforeItem(r)
             weighed == Weight(before, r, fresh)
             moved   == Accepts(weighed, r) /\ Moves(weighed, fresh)
  <1>1. Good(ctl, before)
    BY BeforeItemLemma
  <1>2. Good(before, weighed)
    BY <1>1, WeightLemma DEF Good
  <1>3. consumed' = IF moved /\ weighed.lease # NoLease
             THEN [consumed EXCEPT ![weighed.lease].items = @ + 1,
                                   ![weighed.lease].rupiah = @ + itemCap(weighed.selected)]
             ELSE consumed
    BY DEF Tick
  <1>4. moved => ~itemBlocked(weighed)
    BY DEF Moves
  <1> HIDE DEF before, weighed, moved
  <1>5. CASE ~moved
    BY <1>3, <1>5 DEF ConsumedShape, BoundHolds
  <1>6. CASE moved
    BY <1>2, <1>3, <1>4, <1>6, BoundLemma DEF Good, IsCtl
  <1> QED
    BY <1>5, <1>6

\* A command that leads on from the controller as it was.
LEMMA CommandGood ==
    ASSUME NEW c, NEW reading, Good(ctl, c), "panel" \in reading => Still(c), Command(c, reading)
    PROVE  CtlKeeps
  <1>1. ctl' = [c EXCEPT !.raised = FALSE] /\ seen' = reading
    BY DEF Command
  <1>2. IsCtl(ctl') /\ Safe(ctl') /\ (Still(c) <=> Still(ctl')) /\ Latches(ctl, ctl')
    BY <1>1, ClearRaised, LeadsLatches DEF Good
  <1> QED
    BY <1>1, <1>2, LatchesStep DEF CtlKeeps

\* Everything obeys and stopped: the only place a latch is left from.
Stopped(c) == IsCtl(c) /\ Still(c) /\ c.stuck = {} /\ ~c.fault

\* From stopped outputs any call that keeps them off in front of a hazard is safe.
LEMMA FromStopped ==
    ASSUME NEW c, NEW reading, IsCtl(c), Safe(c), c.stuck = {}, ~c.fault,
           reading = {} \/ c.on = {}, ctl' = c, seen' = reading
    PROVE  CtlKeeps
  <1>2. "panel" \in seen' => Still(ctl')
    BY DEF Still
  <1>3. latchActive(ctl') => ctl'.on = {}
    BY DEF Safe
  <1>4. LatchStep
    BY <1>3 DEF LatchStep
  <1> QED
    BY <1>2, <1>4 DEF CtlKeeps

\* The same for a call made by a remote command.
LEMMA CommandStopped ==
    ASSUME NEW c, NEW reading, IsCtl(c), Safe(c), c.stuck = {}, ~c.fault,
           reading = {} \/ c.on = {}, Command(c, reading)
    PROVE  CtlKeeps
  <1> DEFINE d == [c EXCEPT !.raised = FALSE]
  <1>1. ctl' = d /\ seen' = reading
    BY DEF Command
  <1>2. IsCtl(d) /\ Safe(d) /\ d.stuck = {} /\ d.on = c.on /\ d.fault = c.fault
    BY ClearRaised
  <1> HIDE DEF d
  <1> QED
    BY <1>1, <1>2, FromStopped

\* safe_all_stop with nothing stuck reaches the stopped state.
LEMMA StopStopped ==
    ASSUME NEW c, IsCtl(c), c.stuck = {}
    PROVE  LET d == safeAllStop(c) IN
           /\ Stopped(d) /\ d.lease = c.lease /\ d.state = c.state /\ d.reason = c.reason /\ d.alert = c.alert
           /\ d.on = {}
  BY safeAllStopLemma DEF Stopped

\* From a stop to a state of its own, and the gate behind the interlock.
LEMMA SetStopped ==
    ASSUME NEW c, Stopped(c), NEW s, s # "SAFE_STATE"
    PROVE  LET d == setState(c, s) IN
           /\ Stopped(d) /\ Safe(d) /\ d.on = {} /\ d.lease = c.lease
           /\ ~c.reason \/ c.state # "SAFE_STATE" => d.state = s
  <1> DEFINE d == setState(c, s)
  <1>1. /\ IsCtl(d) /\ d.on = c.on /\ d.fault = c.fault /\ d.stuck = c.stuck /\ d.lease = c.lease
        /\ c.state # "SAFE_STATE" \/ ~c.reason \/ s = "MAINTENANCE" => d.state = s
        /\ Still(c) => Still(d) /\ Safe(d)
    BY setStateLemma DEF Stopped
  <1> HIDE DEF d
  <1> QED
    BY <1>1 DEF Stopped, Still, d

\* From the stopped state the input gate opens only clear of hazards and within the bound.
LEMMA GateFromStopped ==
    ASSUME NEW c, Stopped(c), c.state = "SESSION_ACTIVE", NEW reading
    PROVE  LET d == tryOpenInputGate(c, reading) IN
           /\ IsCtl(d) /\ Safe(d) /\ d.stuck = {} /\ ~d.fault
           /\ reading \cap Hazards = {} \/ d.on = {}
           /\ boundExhausted(c) => d.on = {}
  <1> DEFINE d == tryOpenInputGate(c, reading)
  <1>1. /\ IsCtl(d) /\ Safe(d) /\ d.stuck = c.stuck
        /\ reading \cap Hazards # {} => Still(d)
        /\ c.stuck = {} /\ ~c.fault => ~d.fault
        /\ boundExhausted(c) => d = c
    BY tryOpenInputGateLemma DEF Stopped
  <1> HIDE DEF d
  <1> QED
    BY <1>1 DEF Stopped, Still, d

\* OPEN_GATE in a session: the gate may be open already.
LEMMA OpenGateGood ==
    ASSUME NEW c, IsCtl(c), Safe(c), c.state = "SESSION_ACTIVE", ~boundExhausted(c), NEW reading
    PROVE  LET d == tryOpenInputGate(c, reading) IN Good(c, d) /\ (reading \cap Hazards # {} => Still(d))
  <1> DEFINE d == tryOpenInputGate(c, reading)
  <1>1. CASE actuationBlocked(c, reading)
    <2>1. d = safeAllStop(c)
      BY <1>1 DEF tryOpenInputGate
    <2> QED
      BY <2>1, safeAllStopLemma DEF Good
  <1>2. CASE ~actuationBlocked(c, reading)
    <2> DEFINE e == openOutput(c, "gate")
    <2>1. d = e
      BY <1>2 DEF tryOpenInputGate
    <2>2. ~latchActive(c) /\ ~c.fault /\ reading \cap Hazards = {}
      BY <1>2, InterlockOpen
    <2>3. c.on \in {{}, {"gate"}}
      BY <2>2 DEF Safe
    <2>4. /\ IsCtl(e) /\ e.fault = c.fault /\ e.state = c.state /\ (~latchActive(c) => Leads(c, e))
          /\ e.on = (IF "gate" \in c.stuck THEN c.on ELSE c.on \cup {"gate"})
      BY openOutputLemma
    <2>5. latchActive(e) <=> latchActive(c)
      BY openOutputLemma
    <2> HIDE DEF e, d
    <2>6. e.on \in {{}, {"gate"}}
      BY <2>3, <2>4
    <2>7. Safe(e)
      BY <2>2, <2>4, <2>5, <2>6 DEF Safe
    <2> QED
      BY <2>1, <2>2, <2>4, <2>7 DEF Good, d
  <1> QED
    BY <1>1, <1>2

\* The commands, one lemma each.
LEMMA OpenGateKeeps ==
    ASSUME IsCtl(ctl), Safe(ctl), NEW reading, OPEN_GATE(reading)
    PROVE  CtlKeeps
  <1> DEFINE d == tryOpenInputGate(ctl, reading)
  <1>1. Good(ctl, d) /\ (reading \cap Hazards # {} => Still(d))
    BY OpenGateGood DEF OPEN_GATE
  <1>2. Command(d, reading \cap Hazards)
    BY DEF OPEN_GATE
  <1> HIDE DEF d
  <1>3. "panel" \in reading \cap Hazards => Still(d)
    BY <1>1
  <1> QED
    BY <1>1, <1>2, <1>3, CommandGood

\* Closing the session keeps the control state safe.
LEMMA CloseKeeps ==
    ASSUME IsCtl(ctl), Safe(ctl), "panel" \in seen => Still(ctl), NEW o, CloseCommand(o)
    PROVE  CtlKeeps
  <1> DEFINE d == closeOutput(ctl, o)
  <1>1. Good(ctl, d) /\ (Still(ctl) => Still(d))
    BY closeOutputLemma DEF Good
  <1>2. Command(d, seen)
    BY DEF CloseCommand
  <1> HIDE DEF d
  <1> QED
    BY <1>1, <1>2, CommandGood

\* The commands that only stop keep the control state safe.
LEMMA StopsKeep ==
    ASSUME IsCtl(ctl), NEW reading,
           Command(safeAllStop(ctl), reading) \/ Command(enterSafeState(ctl), reading)
    PROVE  CtlKeeps
  <1>1. /\ Good(ctl, safeAllStop(ctl)) /\ Still(safeAllStop(ctl))
        /\ Good(ctl, enterSafeState(ctl)) /\ Still(enterSafeState(ctl))
    BY safeAllStopLemma, enterSafeStateLemma DEF Good
  <1> QED
    BY <1>1, CommandGood

\* Entering maintenance keeps the control state safe.
LEMMA MaintenanceKeeps ==
    ASSUME IsCtl(ctl), ENTER_MAINTENANCE
    PROVE  CtlKeeps
  <1>1. CASE ctl.stuck # {}
    BY <1>1, StopsKeep DEF ENTER_MAINTENANCE
  <1>2. CASE ctl.stuck = {}
    <2> DEFINE b == stopOutputs(ctl)
               d == setState(b, "MAINTENANCE")
    <2>1. IsCtl(b) /\ b.on = {} /\ ~b.fault /\ b.stuck = {}
      BY <1>2, stopOutputsLemma
    <2>2. Command(d, seen)
      BY <1>2 DEF ENTER_MAINTENANCE
    <2> HIDE DEF b
    <2>3. Stopped(b)
      BY <2>1 DEF Stopped, Still
    <2>4. Stopped(d) /\ Safe(d) /\ d.on = {}
      BY <2>3, SetStopped
    <2> HIDE DEF d
    <2> QED
      BY <2>2, <2>4, CommandStopped DEF Stopped
  <1> QED
    BY <1>1, <1>2

\* Resuming an interrupted session keeps the control state safe.
LEMMA ResumeKeeps ==
    ASSUME IsCtl(ctl), NEW reading, RESUME_OPERATION(reading)
    PROVE  CtlKeeps
  <1> DEFINE b == safeAllStop(ctl)
             started == setState(b, "SESSION_ACTIVE")
             idle == setState(b, "IDLE")
             d == tryOpenInputGate(started, reading)
  <1>1. CASE ctl.stuck # {}
    BY <1>1, StopsKeep DEF RESUME_OPERATION
  <1>2. CASE ctl.stuck = {}
    <2>1. Stopped(b) /\ b.lease = ctl.lease /\ b.reason = ctl.reason
      BY <1>2, StopStopped
    <2>2. ~b.reason
      BY <2>1 DEF RESUME_OPERATION
    <2>3. CASE ctl.lease # NoLease
      <3>1. Command(d, IF boundExhausted(ctl) THEN seen ELSE reading \cap Hazards)
        BY <1>2, <2>3 DEF RESUME_OPERATION
      <3> HIDE DEF b
      <3>2. Stopped(started) /\ started.lease = ctl.lease /\ started.state = "SESSION_ACTIVE"
        BY <2>1, <2>2, SetStopped
      <3> HIDE DEF started
      <3>3. boundExhausted(started) <=> boundExhausted(ctl)
        BY <3>2 DEF boundExhausted
      <3>4. /\ IsCtl(d) /\ Safe(d) /\ d.stuck = {} /\ ~d.fault
            /\ reading \cap Hazards = {} \/ d.on = {}
            /\ boundExhausted(started) => d.on = {}
        BY <3>2, GateFromStopped
      <3> HIDE DEF d
      <3> QED
        BY <3>1, <3>3, <3>4, CommandStopped
    <2>4. CASE ctl.lease = NoLease
      <3>1. Command(idle, seen)
        BY <1>2, <2>4 DEF RESUME_OPERATION
      <3> HIDE DEF b
      <3>2. Stopped(idle) /\ Safe(idle) /\ idle.on = {}
        BY <2>1, SetStopped
      <3> HIDE DEF idle
      <3> QED
        BY <3>1, <3>2, CommandStopped DEF Stopped
    <2> QED
      BY <2>3, <2>4
  <1> QED
    BY <1>1, <1>2

\* The operator's reset: refused while an output sticks or a hazard shows.
LEMMA ResetKeeps ==
    ASSUME IsCtl(ctl), NEW keepLease, NEW reading, NEW again, ResetSafeState(keepLease, reading, again)
    PROVE  CtlKeeps
  <1> DEFINE b == safeAllStop(ctl)
             l == IF keepLease THEN b.lease ELSE NoLease
             cleared == [b EXCEPT !.reason = FALSE, !.alert = "none", !.selected = NoType, !.lease = l]
             started == setState(cleared, "SESSION_ACTIVE")
             idle == setState(cleared, "IDLE")
             d == tryOpenInputGate(started, again)
  <1>0. IF unsafeConditions(b, reading) THEN Command(b, reading \cap Hazards)
        ELSE IF cleared.lease # NoLease
        THEN Command(d, IF boundExhausted(cleared) THEN {} ELSE again \cap Hazards)
        ELSE Command(idle, {})
    BY DEF ResetSafeState
  <1>1. CASE unsafeConditions(b, reading)
    BY <1>0, <1>1, StopsKeep
  <1>2. CASE ~unsafeConditions(b, reading)
    <2>1. ~b.fault
      BY <1>2 DEF unsafeConditions, physicalHazards
    <2>2. ctl.stuck = {}
      BY <2>1, safeAllStopLemma
    <2>3. Stopped(b) /\ b.on = {}
      BY <2>2, StopStopped
    <2> HIDE DEF b
    <2>4. l \in RvmSessions \cup {NoLease}
      BY <2>3 DEF Stopped, IsCtl
    <2> HIDE DEF l
    <2>5. Stopped(cleared) /\ ~cleared.reason /\ cleared.lease = l
      BY <2>3, <2>4 DEF Stopped, Still, IsCtl, CtlFields
    <2> HIDE DEF cleared
    <2>6. CASE cleared.lease # NoLease
      <3>1. Command(d, IF boundExhausted(cleared) THEN {} ELSE again \cap Hazards)
        BY <1>0, <1>2, <2>6
      <3>2. Stopped(started) /\ started.lease = cleared.lease /\ started.state = "SESSION_ACTIVE"
        BY <2>5, SetStopped
      <3> HIDE DEF started
      <3>3. /\ IsCtl(d) /\ Safe(d) /\ d.stuck = {} /\ ~d.fault
            /\ again \cap Hazards = {} \/ d.on = {}
        BY <3>2, GateFromStopped
      <3> HIDE DEF d
      <3> QED
        BY <3>1, <3>3, CommandStopped
    <2>7. CASE cleared.lease = NoLease
      <3>1. Command(idle, {})
        BY <1>0, <1>2, <2>7
      <3>2. Stopped(idle) /\ Safe(idle)
        BY <2>5, SetStopped
      <3> HIDE DEF idle
      <3> QED
        BY <3>1, <3>2, CommandStopped DEF Stopped
    <2> QED
      BY <2>6, <2>7
  <1> QED
    BY <1>1, <1>2

\* A jog opens one output in maintenance behind the maintenance interlock.
LEMMA JogKeeps ==
    ASSUME IsCtl(ctl), Safe(ctl), NEW o, NEW reading, Jog(o, reading)
    PROVE  CtlKeeps
  <1>1. CASE maintenanceBlocked(ctl, reading)
    BY <1>1, StopsKeep DEF Jog
  <1>2. CASE ~maintenanceBlocked(ctl, reading)
    <2> DEFINE d == openOutput(ctl, o)
    <2>1. ~latchActive(ctl) /\ ~ctl.fault /\ "panel" \notin reading /\ ctl.state = "MAINTENANCE"
      BY <1>2 DEF maintenanceBlocked, physicalHazards, Jog
    <2>2. IsCtl(d) /\ d.fault = ctl.fault /\ d.state = ctl.state /\ (~latchActive(ctl) => Leads(ctl, d))
      BY openOutputLemma
    <2>3. latchActive(d) <=> latchActive(ctl)
      BY openOutputLemma
    <2>4. Command(d, reading \cap Hazards)
      BY <1>2 DEF Jog
    <2> HIDE DEF d
    <2>5. Safe(d)
      BY <2>1, <2>2, <2>3 DEF Safe
    <2>6. Good(ctl, d) /\ ("panel" \in reading \cap Hazards => Still(d))
      BY <2>1, <2>2, <2>5 DEF Good
    <2> QED
      BY <2>4, <2>6, CommandGood
  <1> QED
    BY <1>1, <1>2

\* A tick that throws keeps the control state safe.
LEMMA TickFailsKeeps ==
    ASSUME IsCtl(ctl), TickFails
    PROVE  CtlKeeps
  <1>1. /\ Good(ctl, safeAllStop(ctl)) /\ Still(safeAllStop(ctl))
        /\ Good(ctl, enterSafeState(ctl)) /\ Still(enterSafeState(ctl))
    BY safeAllStopLemma, enterSafeStateLemma DEF Good
  <1>2. Good(ctl, ctl') /\ Still(ctl')
    BY <1>1 DEF TickFails
  <1> QED
    BY <1>2, LeadsLatches, LatchesStep DEF Good, CtlKeeps

\* The lease changes hands; the machine does not move by that.
LEMMA OtherLease ==
    ASSUME NEW c, IsCtl(c), NEW l \in RvmSessions \cup {NoLease}
    PROVE  LET d == [c EXCEPT !.lease = l] IN
           /\ IsCtl(d) /\ (Safe(c) => Safe(d)) /\ (Still(c) <=> Still(d)) /\ d.lease = l
           /\ d.stuck = c.stuck /\ d.on = c.on /\ d.fault = c.fault
           /\ d.state = c.state /\ d.reason = c.reason /\ d.alert = c.alert
           /\ latchActive(d) <=> latchActive(c)
  BY DEF IsCtl, CtlFields, Safe, Still, latchActive

\* A session starts from a stop: with an output that sticks, or behind a
\* closed interlock, it does not start.
LEMMA ActivateLemma ==
    ASSUME NEW c, IsCtl(c), Safe(c), NEW s \in RvmSessions, NEW valid, NEW reading
    PROVE  LET d == activateLease(c, s, valid, reading) IN
           /\ IsCtl(d) /\ Safe(d)
           /\ Still(c) => Still(d) \/ (valid /\ c.stuck = {})
           /\ Latches(c, d) \/ (valid /\ c.stuck = {} /\ d.stuck = {} /\ ~d.fault /\ reading \cap Hazards = {})
           /\ valid /\ c.stuck = {} /\ reading \cap Hazards # {} => Still(d)
  <1> DEFINE d == activateLease(c, s, valid, reading)
             b == safeAllStop(c)
             e == [b EXCEPT !.lease = s]
             f == setState(e, "SESSION_ACTIVE")
  <1>1. CASE ~valid
    <2>1. d = c
      BY <1>1 DEF activateLease
    <2> QED
      BY <1>1, <2>1 DEF Latches
  <1>2. CASE valid /\ c.stuck # {}
    <2>1. d = b
      BY <1>2 DEF activateLease
    <2>2. IsCtl(b) /\ Safe(b) /\ Still(b) /\ Latches(c, b)
      BY safeAllStopLemma, LeadsLatches
    <2> HIDE DEF b, d
    <2> QED
      BY <1>2, <2>1, <2>2 DEF d
  <1>3. CASE valid /\ c.stuck = {} /\ actuationBlocked(b, reading)
    <2>1. d = safeAllStop(b)
      BY <1>3 DEF activateLease
    <2>2. Good(c, b)
      BY safeAllStopLemma DEF Good
    <2> HIDE DEF b
    <2>3. Good(b, d) /\ Still(d)
      BY <2>1, <2>2, safeAllStopLemma DEF Good
    <2> HIDE DEF d
    <2>4. Good(c, d)
      BY <2>2, <2>3, GoodOn
    <2> QED
      BY <2>3, <2>4, LeadsLatches DEF Good, d
  <1>4. CASE valid /\ c.stuck = {} /\ ~actuationBlocked(b, reading)
    <2>1. d = IF boundExhausted(f) THEN f ELSE openOutput(f, "gate")
      BY <1>4 DEF activateLease
    <2>2. ~latchActive(b) /\ reading \cap Hazards = {}
      BY <1>4, InterlockOpen
    <2>3. Stopped(b)
      BY <1>4, StopStopped
    <2> HIDE DEF b
    <2>4. Stopped(e) /\ ~latchActive(e) /\ e.on = {}
      BY <2>2, <2>3, OtherLease DEF Stopped, Still
    <2> HIDE DEF e
    <2>5. /\ IsCtl(f) /\ Stopped(f) /\ Safe(f) /\ f.on = {} /\ f.state = "SESSION_ACTIVE" /\ f.stuck = {} /\ ~f.fault
      BY <2>4, SetStopped DEF Stopped, latchActive
    <2>6. latchActive(f) <=> latchActive(e)
      <3>1. e.state # "SAFE_STATE" \/ e.reason => (latchActive(f) <=> latchActive(e))
        BY <2>4, setStateLemma DEF Stopped
      <3> QED
        BY <2>4, <3>1 DEF latchActive
    <2> HIDE DEF f
    <2> DEFINE g == openOutput(f, "gate")
    <2>a. /\ IsCtl(g) /\ g.fault = f.fault /\ g.state = f.state /\ g.stuck = f.stuck
          /\ g.on = IF "gate" \in f.stuck THEN f.on ELSE f.on \cup {"gate"}
      BY <2>5, openOutputLemma
    <2>8. latchActive(g) <=> latchActive(f)
      BY <2>5, openOutputLemma
    <2> HIDE DEF g
    <2>7. IsCtl(g) /\ g.fault = f.fault /\ g.state = f.state /\ g.stuck = f.stuck /\ g.on = {"gate"}
      BY <2>5, <2>a
    <2>9. Safe(g)
      BY <2>4, <2>5, <2>6, <2>7, <2>8 DEF Safe
    <2> HIDE DEF d
    <2>10. IsCtl(d) /\ Safe(d) /\ d.stuck = {} /\ ~d.fault
      BY <2>1, <2>5, <2>7, <2>9 DEF g
    <2> QED
      BY <1>4, <2>2, <2>10 DEF d
  <1> QED
    BY <1>1, <1>2, <1>3, <1>4

\* Activating a session keeps the control state safe.
LEMMA ActivateKeeps ==
    ASSUME NEW c, IsCtl(c), Safe(c), NEW s \in RvmSessions, NEW valid, NEW reading,
           c.on = ctl.on, c.stuck = ctl.stuck, latchActive(c) <=> latchActive(ctl),
           "panel" \in seen => Still(c),
           ctl' = activateLease(c, s, valid, reading),
           seen' = IF valid /\ ctl.stuck = {} THEN reading \cap Hazards ELSE seen
    PROVE  CtlKeeps
  <1> DEFINE d == activateLease(c, s, valid, reading)
  <1>1. /\ IsCtl(d) /\ Safe(d)
        /\ Still(c) => Still(d) \/ (valid /\ c.stuck = {})
        /\ Latches(c, d) \/ (valid /\ c.stuck = {} /\ d.stuck = {} /\ ~d.fault /\ reading \cap Hazards = {})
        /\ valid /\ c.stuck = {} /\ reading \cap Hazards # {} => Still(d)
    BY ActivateLemma
  <1> HIDE DEF d
  <1>2. "panel" \in seen' => Still(d)
    BY <1>1
  <1>3. LatchStep
    <2>1. CASE Latches(c, d)
      <3>1. Latches(ctl, d)
        BY <2>1 DEF Latches
      <3> QED
        BY <3>1, LatchesStep DEF d
    <2>2. CASE valid /\ c.stuck = {} /\ d.stuck = {} /\ ~d.fault /\ reading \cap Hazards = {}
      <3>1. latchActive(d) => d.on = {}
        BY <1>1, <2>2 DEF Safe
      <3> QED
        BY <2>2, <3>1 DEF LatchStep, d
    <2> QED
      BY <1>1, <2>1, <2>2
  <1> QED
    BY <1>1, <1>2, <1>3 DEF CtlKeeps, d

\* A lease posted to the machine's own interface keeps the control state safe.
LEMMA PostKeeps ==
    ASSUME IsCtl(ctl), Safe(ctl), "panel" \in seen => Still(ctl),
           NEW s \in RvmSessions, NEW newest \in RvmSessions, NEW valid, NEW reading,
           postLease(s, newest, valid, reading)
    PROVE  CtlKeeps
  BY ActivateKeeps DEF postLease

\* A session poll, whatever the server answers, keeps the control state safe.
LEMMA SessionPollKeeps ==
    ASSUME IsCtl(ctl), Safe(ctl), "panel" \in seen => Still(ctl),
           NEW s \in RvmSessions \cup {NoLease}, NEW valid, NEW reading,
           pollServerSession(s, valid, reading)
    PROVE  CtlKeeps
  <1>1. CASE s # NoLease /\ ctl.lease = s
    <2>1. ctl' = ctl /\ seen' = seen
      BY <1>1 DEF pollServerSession
    <2> QED
      BY <2>1 DEF CtlKeeps, LatchStep
  <1>2. CASE s # NoLease /\ ctl.lease # s
    <2> DEFINE c == [ctl EXCEPT !.lease = NoLease]
    <2>1. /\ ctl' = activateLease(c, s, valid, reading)
          /\ seen' = IF valid /\ ctl.stuck = {} THEN reading \cap Hazards ELSE seen
      BY <1>2 DEF pollServerSession
    <2>2. /\ IsCtl(c) /\ Safe(c) /\ (Still(ctl) <=> Still(c))
          /\ c.stuck = ctl.stuck /\ c.on = ctl.on
          /\ latchActive(c) <=> latchActive(ctl)
      BY OtherLease
    <2> HIDE DEF c
    <2> QED
      BY <1>2, <2>1, <2>2, ActivateKeeps
  <1>3. CASE s = NoLease
    <2>0. seen' = seen
      BY <1>3 DEF pollServerSession
    <2>1. CASE ctl.lease = NoLease
      <3>1. ctl' = ctl
        BY <1>3, <2>1 DEF pollServerSession
      <3> QED
        BY <2>0, <3>1 DEF CtlKeeps, LatchStep
    <2>2. CASE ctl.lease # NoLease
      <3> DEFINE a == IF ctl.alert = "FRAUD" THEN "none" ELSE ctl.alert
                 e == [ctl EXCEPT !.lease = NoLease, !.selected = NoType, !.alert = a]
                 f == IF ctl.state \in LOCKED THEN e ELSE setState(e, "IDLE")
                 d == safeAllStop(f)
      <3>1. ctl' = d
        BY <1>3, <2>2 DEF pollServerSession
      <3>2. /\ IsCtl(e) /\ e.on = ctl.on /\ e.stuck = ctl.stuck /\ e.state = ctl.state
            /\ latchActive(e) <=> latchActive(ctl)
        BY DEF IsCtl, CtlFields, latchActive
      <3> HIDE DEF e
      <3>3. IsCtl(f) /\ f.on = ctl.on /\ f.stuck = ctl.stuck
        BY <3>2, setStateLemma
      <3>4. latchActive(f) <=> latchActive(ctl)
        <4>1. CASE ctl.state \in LOCKED
          BY <3>2, <4>1
        <4>2. CASE ctl.state \notin LOCKED
          <5>1. e.state # "SAFE_STATE"
            BY <3>2, <4>2 DEF LOCKED
          <5>2. latchActive(setState(e, "IDLE")) <=> latchActive(e)
            BY <3>2, <5>1, setStateLemma
          <5> QED
            BY <3>2, <4>2, <5>2
        <4> QED
          BY <4>1, <4>2
      <3> HIDE DEF f
      <3>5. IsCtl(d) /\ Still(d) /\ Safe(d) /\ Leads(f, d)
        BY <3>3, safeAllStopLemma
      <3> HIDE DEF d
      <3>6. Latches(ctl, d)
        BY <3>3, <3>4, <3>5 DEF Leads, Latches
      <3> QED
        BY <3>1, <3>5, <3>6, LatchesStep DEF CtlKeeps
    <2> QED
      BY <2>1, <2>2
  <1> QED
    BY <1>1, <1>2, <1>3

\* What moves nothing: a lease that runs out, a type chosen, an output that
\* begins to stick or to obey.
LEMMA QuietKeeps ==
    ASSUME IsCtl(ctl), Safe(ctl), "panel" \in seen => Still(ctl), choosing \in Types \cup {NoType},
           LeaseExpires \/ SelectWrites \/ \E o \in Outputs : Sticks(o)
    PROVE  CtlKeeps
  <1> SUFFICES /\ IsCtl(ctl') /\ Safe(ctl') /\ (Still(ctl) => Still(ctl')) /\ seen' = seen
               /\ ctl'.on = ctl.on /\ (latchActive(ctl') <=> latchActive(ctl))
    BY DEF CtlKeeps, LatchStep
  <1>1. CASE LeaseExpires
    <2>1. ctl' = [ctl EXCEPT !.lease = NoLease] /\ seen' = seen
      BY <1>1 DEF LeaseExpires
    <2> QED
      BY <2>1, OtherLease
  <1>2. CASE SelectWrites
    BY <1>2 DEF SelectWrites, IsCtl, CtlFields, Safe, Still, latchActive
  <1>3. ASSUME NEW o \in Outputs, Sticks(o)
        PROVE  /\ IsCtl(ctl') /\ Safe(ctl') /\ (Still(ctl) => Still(ctl')) /\ seen' = seen
               /\ ctl'.on = ctl.on /\ (latchActive(ctl') <=> latchActive(ctl))
    <2> DEFINE u == IF o \in ctl.stuck THEN ctl.stuck \ {o} ELSE ctl.stuck \cup {o}
    <2>1. ctl' = [ctl EXCEPT !.stuck = u] /\ seen' = seen
      BY <1>3 DEF Sticks
    <2> HIDE DEF u
    <2> QED
      BY <2>1 DEF IsCtl, CtlFields, Safe, Still, latchActive
  <1> QED
    BY <1>1, <1>2, <1>3

\* After a power loss the outputs are off, and one that sticks has latched.
LEMMA PowerLossKeeps ==
    ASSUME IsCtl(ctl), PowerLoss
    PROVE  CtlKeeps
  <1>1. PICK c \in Persisted(ctl) :
          ctl' = recoverState(safeAllStop([c EXCEPT !.on = {}, !.fault = FALSE, !.selected = NoType,
                                                    !.weighed = FALSE]))
    BY DEF PowerLoss
  <1>2. IsCtl(c)
    BY DEF Persisted, IsCtl, CtlFields
  <1> DEFINE b == [c EXCEPT !.on = {}, !.fault = FALSE, !.selected = NoType, !.weighed = FALSE]
             d == safeAllStop(b)
             e == recoverState(d)
  <1>3. IsCtl(b) /\ b.on = {}
    BY <1>2 DEF IsCtl, CtlFields
  <1> HIDE DEF b
  <1>4. /\ IsCtl(d) /\ Still(d) /\ Safe(d) /\ Leads(b, d) /\ d.stuck = b.stuck
        /\ b.stuck = {} => ~d.fault /\ d.on = {}
        /\ b.stuck # {} => d.state = "SAFE_STATE" /\ d.reason /\ d.fault
        /\ d.on \subseteq d.stuck
    BY <1>3, safeAllStopLemma
  <1>5. d.on = {}
    <2>1. CASE b.stuck # {}
      <3>1. d = enterSafeState(b)
        BY <2>1 DEF safeAllStop
      <3>2. d.on = b.on \cap b.stuck
        BY <1>3, <3>1, enterSafeStateLemma
      <3> QED
        BY <1>3, <3>2
    <2> QED
      BY <1>4, <2>1
  <1> HIDE DEF d
  <1>6. IsCtl(e) /\ e.on = {} /\ Safe(e) /\ (latchActive(e) \/ (e.stuck = {} /\ ~e.fault))
    <2>1. CASE d.state = "PROCESSING"
      <3>1. e = enterSafeState(d)
        BY <2>1 DEF recoverState, RESUMABLE
      <3>2. /\ IsCtl(e) /\ Safe(e) /\ latchActive(e) /\ e.on = d.on \cap d.stuck
        BY <1>4, <3>1, enterSafeStateLemma
      <3> QED
        BY <1>5, <3>2
    <2>2. CASE d.state \in RESUMABLE
      <3>1. e = d
        BY <2>2 DEF recoverState, RESUMABLE
      <3> QED
        BY <1>4, <1>5, <3>1 DEF latchActive
    <2>3. CASE d.state # "PROCESSING" /\ d.state \notin RESUMABLE
      <3>1. e = setState(d, "IDLE")
        BY <2>3 DEF recoverState
      <3>2. d.stuck = {} /\ ~d.fault
        BY <1>4, <2>3 DEF RESUMABLE
      <3>3. Stopped(d)
        BY <1>4, <3>2 DEF Stopped
      <3>4. Stopped(e) /\ Safe(e) /\ e.on = {}
        BY <3>1, <3>3, SetStopped
      <3> QED
        BY <3>4 DEF Stopped
    <2> QED
      BY <2>1, <2>2, <2>3
  <1>7. ctl' = e /\ seen' = {}
    BY <1>1 DEF PowerLoss, d, b
  <1> HIDE DEF e
  <1> QED
    BY <1>6, <1>7 DEF CtlKeeps, LatchStep

\* The invariant of the controller.
RvmInv == /\ IsCtl(ctl) /\ Safe(ctl) /\ ("panel" \in seen => Still(ctl))
          /\ ConsumedShape /\ BoundHolds /\ choosing \in Types \cup {NoType}

\* The machine starts safe, with nothing counted.
LEMMA RvmInitially == RvmInit => RvmInv
  <1> SUFFICES ASSUME RvmInit PROVE RvmInv
    OBVIOUS
  <1>1. IsCtl(ctl) /\ Safe(ctl) /\ ("panel" \in seen => Still(ctl)) /\ choosing \in Types \cup {NoType}
    BY DEF RvmInit, IsCtl, CtlFields, Safe, Still
  <1>2. ConsumedShape /\ BoundHolds
    BY RvmAssumption DEF RvmInit, ConsumedShape, BoundHolds
  <1> QED
    BY <1>1, <1>2 DEF RvmInv

\* The disjuncts of RvmNext, the bounds of their inputs aside.
RvmOther ==
    \/ SelectWrites \/ TickFails \/ LeaseExpires \/ STOP_ALL \/ ENTER_MAINTENANCE \/ CameraAlert \/ PowerLoss
    \/ \E type \in Types : SelectChecks(type)
    \/ \E o \in Outputs : CloseCommand(o) \/ Sticks(o)
    \/ \E s \in RvmSessions \cup {NoLease} : \E valid, reading :
         \/ pollServerSession(s, valid, reading)
         \/ \E newest \in RvmSessions : s # NoLease /\ postLease(s, newest, valid, reading)
    \/ \E reading :
         \/ OPEN_GATE(reading) \/ RESUME_OPERATION(reading)
         \/ \E o \in Outputs : Jog(o, reading)
         \/ \E keepLease, again : ResetSafeState(keepLease, reading, again)

\* A step of the machine is a tick or one of the other calls.
LEMMA RvmCases ==
    ASSUME RvmNext
    PROVE  (\E r, fresh, again, late : \E jams \in BOOLEAN : Tick(r, fresh, again, jams, late)) \/ RvmOther
  <1>1. CASE \E r \in Snapshots, late \in {FALSE, ctl.state = "PROCESSING"} :
               \E fresh \in IF MayActuate(r) THEN Readings ELSE {{}} :
               \E again \in IF MayActuate(r) /\ fresh = {} THEN Readings ELSE {{}} :
               \E jams \in {FALSE, MayActuate(r) /\ fresh \cup again = {}} :
                   Tick(r, fresh, again, jams, late)
    <2>1. PICK r \in Snapshots, late \in {FALSE, ctl.state = "PROCESSING"} :
            \E fresh \in IF MayActuate(r) THEN Readings ELSE {{}} :
            \E again \in IF MayActuate(r) /\ fresh = {} THEN Readings ELSE {{}} :
            \E jams \in {FALSE, MayActuate(r) /\ fresh \cup again = {}} :
                Tick(r, fresh, again, jams, late)
      BY <1>1
    <2>2. PICK fresh, again : \E jams \in {FALSE, MayActuate(r) /\ fresh \cup again = {}} :
            Tick(r, fresh, again, jams, late)
      BY <2>1, Zenon
    <2>3. PICK jams \in {FALSE, MayActuate(r) /\ fresh \cup again = {}} : Tick(r, fresh, again, jams, late)
      BY <2>2
    <2>4. jams \in BOOLEAN
      BY DEF MayActuate
    <2> QED
      BY <2>3, <2>4
  <1>2. CASE \E s \in RvmSessions \cup {NoLease}, valid \in LeaseVerdicts :
               \E reading \in IF valid /\ s # NoLease THEN Readings ELSE {{}} :
               \/ pollServerSession(s, valid, reading)
               \/ s # NoLease /\ \E newest \in RvmSessions : postLease(s, newest, valid, reading)
    BY <1>2, Zenon DEF RvmOther
  <1>3. CASE \E reading \in Readings :
               \/ OPEN_GATE(reading) \/ RESUME_OPERATION(reading)
               \/ \E o \in Outputs : Jog(o, reading)
               \/ \E keepLease \in BOOLEAN :
                    \E again \in IF keepLease /\ ctl.lease # NoLease THEN Readings ELSE {{}} :
                    ResetSafeState(keepLease, reading, again)
    BY <1>3, Zenon DEF RvmOther
  <1>4. CASE \/ SelectWrites \/ TickFails \/ LeaseExpires
             \/ STOP_ALL \/ ENTER_MAINTENANCE \/ CameraAlert \/ PowerLoss
             \/ \E type \in Types : SelectChecks(type)
             \/ \E o \in Outputs : CloseCommand(o) \/ Sticks(o)
    BY <1>4, Zenon DEF RvmOther
  <1> QED
    BY <1>1, <1>2, <1>3, <1>4, Zenon DEF RvmNext

\* The other calls keep the control state safe.
LEMMA RvmCtlKeeps ==
    ASSUME RvmInv, RvmNext
    PROVE  CtlKeeps
  <1>1. IsCtl(ctl) /\ Safe(ctl) /\ ("panel" \in seen => Still(ctl)) /\ choosing \in Types \cup {NoType}
    BY DEF RvmInv
  <1>2. CASE \E r, fresh, again, late : \E jams \in BOOLEAN : Tick(r, fresh, again, jams, late)
    BY <1>1, <1>2, TickLemma
  <1>3. ASSUME NEW s \in RvmSessions \cup {NoLease}, NEW valid, NEW reading,
               \/ pollServerSession(s, valid, reading)
               \/ \E newest \in RvmSessions : s # NoLease /\ postLease(s, newest, valid, reading)
        PROVE  CtlKeeps
    BY <1>1, <1>3, SessionPollKeeps, PostKeeps
  <1>4. ASSUME NEW type \in Types, SelectChecks(type) PROVE CtlKeeps
    <2>1. ctl' = ctl /\ seen' = seen
      BY <1>4 DEF SelectChecks
    <2> QED
      BY <1>1, <2>1 DEF CtlKeeps, LatchStep
  <1>5. ASSUME NEW reading,
               \/ OPEN_GATE(reading) \/ RESUME_OPERATION(reading)
               \/ \E o \in Outputs : Jog(o, reading)
               \/ \E keepLease, again : ResetSafeState(keepLease, reading, again)
        PROVE  CtlKeeps
    BY <1>1, <1>5, OpenGateKeeps, ResumeKeeps, JogKeeps, ResetKeeps
  <1>6. CASE SelectWrites \/ TickFails \/ LeaseExpires
    BY <1>1, <1>6, TickFailsKeeps, QuietKeeps
  <1>7. CASE ENTER_MAINTENANCE \/ PowerLoss
    BY <1>1, <1>7, MaintenanceKeeps, PowerLossKeeps
  <1>8. CASE STOP_ALL \/ CameraAlert
    BY <1>1, <1>8, StopsKeep DEF STOP_ALL, CameraAlert
  <1>9. ASSUME NEW o \in Outputs, CloseCommand(o) \/ Sticks(o) PROVE CtlKeeps
    BY <1>1, <1>9, CloseKeeps, QuietKeeps
  <1> QED
    BY RvmCases, <1>2, <1>3, <1>4, <1>5, <1>6, <1>7, <1>8, <1>9, Zenon DEF RvmOther

\* Only a tick accepts an item.
LEMMA RvmBoundKeeps ==
    ASSUME RvmInv, RvmNext
    PROVE  ConsumedShape' /\ BoundHolds' /\ choosing' \in Types \cup {NoType}
  <1>1. CASE \E r, fresh, again, late : \E jams \in BOOLEAN : Tick(r, fresh, again, jams, late)
    <2>1. PICK r, fresh, again, late, jams : Tick(r, fresh, again, jams, late)
      BY <1>1
    <2>2. choosing' = choosing
      BY <2>1 DEF Tick
    <2>3. ConsumedShape' /\ BoundHolds'
      BY <2>1, TickBound DEF RvmInv
    <2> QED
      BY <2>2, <2>3 DEF RvmInv
  <1>2. CASE RvmOther
    <2>1. consumed' = consumed /\ choosing' \in Types \cup {NoType, choosing}
      BY <1>2 DEF RvmOther, SelectWrites, TickFails, LeaseExpires, STOP_ALL, ENTER_MAINTENANCE, CameraAlert,
                  PowerLoss, SelectChecks, CloseCommand, Sticks, pollServerSession, postLease,
                  OPEN_GATE, RESUME_OPERATION, Jog, ResetSafeState, Command
    <2> QED
      BY <2>1 DEF RvmInv, ConsumedShape, BoundHolds
  <1> QED
    BY RvmCases, <1>1, <1>2

\* Every step of the machine keeps the invariant and respects the latch.
LEMMA RvmKeeps == RvmInv /\ [RvmNext]_rvmVars => RvmInv' /\ (LatchStep \/ UNCHANGED rvmVars)
  <1> SUFFICES ASSUME RvmInv, [RvmNext]_rvmVars PROVE RvmInv' /\ (LatchStep \/ UNCHANGED rvmVars)
    OBVIOUS
  <1>1. CASE RvmNext
    BY <1>1, RvmCtlKeeps, RvmBoundKeeps DEF CtlKeeps, RvmInv
  <1>2. CASE UNCHANGED rvmVars
    BY <1>2 DEF rvmVars, RvmInv, IsCtl, CtlFields, Safe, Still, ConsumedShape, BoundHolds, latchActive
  <1> QED
    BY <1>1, <1>2

\* The invariant says that the outputs move only when it is safe.
LEMMA SafeMoves == RvmInv => OnlySafeMotion
  BY DEF RvmInv, Safe, Still, latchActive, OnlySafeMotion

-----------------------------------------------------------------------------
(* MachineGate.  The nonce is remembered until SKEW + MARGIN after the       *)
(* request's own timestamp; an instance that still holds a verified request  *)
(* has read its clock at most SKEW after that timestamp and less than MARGIN *)
(* ago, so it always finds the nonce of a copy that was let through.         *)

\* The types the argument needs.
GateShape ==
    /\ now \in Nat /\ stamp \in [Requests -> Int]
    /\ nonceUntil \in [Requests -> Nat] /\ passed \in [Requests -> Nat]
    /\ verifying \in [Instances -> [request : Requests \cup {"none"}, since : Nat]]
    /\ hits \in Nat /\ hitsUntil \in Int /\ hitting \in [Instances -> {0, 1}]
    /\ faulted \in BOOLEAN

\* A request in the hands of an instance was in the window when it read its
\* clock, which it did at most MaxStall ticks ago.
Recent(i) ==
    LET r == verifying[i].request IN
    /\ r \in Requests
    /\ verifying[i].since <= now /\ now <= verifying[i].since + MaxStall
    /\ stamp[r] - SKEW <= verifying[i].since /\ verifying[i].since <= stamp[r] + SKEW

\* When nobody can hold a verified copy of r any more.
Over(r) == stamp[r] + SKEW + MARGIN

\* A request that was let through is remembered until then.
Remembered(r) ==
    /\ passed[r] <= 1
    /\ passed[r] = 1 => IF nonceUntil[r] = 0 THEN now >= Over(r) ELSE nonceUntil[r] >= Over(r)

GateInv ==
    /\ GateShape
    /\ \A i \in Instances : verifying[i] # NotVerifying => Recent(i)
    /\ \A r \in Requests : Remembered(r)
    /\ LockoutNeedsFault

\* At the start nothing is in hand and no nonce is known.
LEMMA GateInitially == GateInit => GateInv
  <1> SUFFICES ASSUME GateInit PROVE GateInv
    OBVIOUS
  <1>1. stamp \in [Requests -> Int]
    BY GateAssumption DEF GateInit
  <1>2. NotVerifying \in [request : Requests \cup {"none"}, since : Nat]
    BY DEF NotVerifying
  <1>3. GateShape
    <2>1. faulted \in BOOLEAN
      BY Zenon DEF GateInit
    <2>2. hits \in Nat /\ hitsUntil \in Int /\ now \in Nat
      BY DEF GateInit, NoExpiry
    <2>3. verifying \in [Instances -> [request : Requests \cup {"none"}, since : Nat]]
      BY <1>2, Zenon DEF GateInit
    <2>4. /\ nonceUntil \in [Requests -> Nat] /\ passed \in [Requests -> Nat]
          /\ hitting \in [Instances -> {0, 1}]
      BY DEF GateInit
    <2> QED
      BY <1>1, <2>1, <2>2, <2>3, <2>4, Zenon DEF GateShape
  <1>4. (\A r \in Requests : Remembered(r)) /\ LockoutNeedsFault
    BY DEF GateInit, Remembered, LockoutNeedsFault
  <1> QED
    BY <1>3, <1>4 DEF GateInit, GateInv

\* An instance that finds no nonce holds a request that never passed.
LEMMA FirstCopy ==
    ASSUME GateInv, NEW i \in Instances, verifying[i] # NotVerifying,
           nonceUntil[verifying[i].request] = 0
    PROVE  passed[verifying[i].request] = 0
  BY GateAssumption DEF GateInv, GateShape, Recent, Remembered, Over

\* Checking the signature of a request keeps the invariant.
LEMMA VerifyKeeps ==
    ASSUME GateInv, NEW i \in Instances, NEW r \in Requests, verifySignature(i, r)
    PROVE  GateInv'
  <1> USE GateAssumption DEF verifySignature, limitVars
  <1>1. GateShape'
    BY DEF GateInv, GateShape
  <1>2. \A j \in Instances : verifying'[j] # NotVerifying => Recent(j)'
    BY DEF GateInv, GateShape, Recent, InWindow
  <1>3. \A q \in Requests : Remembered(q)'
    BY DEF GateInv, Remembered, Over
  <1>4. LockoutNeedsFault'
    BY DEF GateInv, LockoutNeedsFault
  <1> QED
    BY <1>1, <1>2, <1>3, <1>4 DEF GateInv

\* The nonce a SET leaves behind lasts long enough.
LEMMA SetLasts ==
    ASSUME GateInv, NEW i \in Instances, verifying[i] # NotVerifying
    PROVE  /\ now + MACHINE_NONCE_TTL \in Nat /\ now + MACHINE_NONCE_TTL # 0
           /\ now + MACHINE_NONCE_TTL >= Over(verifying[i].request)
  BY GateAssumption DEF GateInv, GateShape, Recent, Over, MACHINE_NONCE_TTL

\* Consuming the nonce keeps the invariant.
LEMMA ConsumeKeeps ==
    ASSUME GateInv, NEW i \in Instances, consumeMachineNonce(i)
    PROVE  GateInv'
  <1> DEFINE r == verifying[i].request
  <1> USE DEF consumeMachineNonce, limitVars
  <1>1. Recent(i) /\ r \in Requests
    BY DEF GateInv, Recent
  <1>2. GateShape'
    BY <1>1, SetLasts DEF GateInv, GateShape, NotVerifying
  <1>3. \A j \in Instances : verifying'[j] # NotVerifying => Recent(j)'
    BY DEF GateInv, GateShape, Recent
  <1>4. \A q \in Requests : Remembered(q)'
    <2>1. CASE redisUp /\ nonceUntil[r] = 0
      <3>1. passed[r] = 0
        BY <2>1, FirstCopy
      <3>2. passed' = [passed EXCEPT ![r] = 1] /\ nonceUntil' = [nonceUntil EXCEPT ![r] = now + MACHINE_NONCE_TTL]
        BY <1>1, <2>1, <3>1 DEF GateInv, GateShape
      <3> QED
        BY <1>1, <3>2, SetLasts DEF GateInv, GateShape, Remembered, Over
    <2>2. CASE ~(redisUp /\ nonceUntil[r] = 0)
      BY <2>2 DEF GateInv, Remembered, Over
    <2> QED
      BY <2>1, <2>2
  <1>5. LockoutNeedsFault'
    BY DEF GateInv, LockoutNeedsFault
  <1> QED
    BY <1>2, <1>3, <1>4, <1>5 DEF GateInv

\* A lost answer keeps the invariant.
LEMMA LostAnswerKeeps ==
    ASSUME GateInv, NEW i \in Instances, nonceAnswerLost(i)
    PROVE  GateInv'
  <1> DEFINE r == verifying[i].request
  <1> USE DEF nonceAnswerLost, limitVars
  <1>1. Recent(i) /\ r \in Requests /\ passed[r] = 0
    BY FirstCopy DEF GateInv, Recent
  <1>2. GateShape'
    BY <1>1, SetLasts DEF GateInv, GateShape, NotVerifying
  <1>3. \A j \in Instances : verifying'[j] # NotVerifying => Recent(j)'
    BY DEF GateInv, GateShape, Recent
  <1>4. \A q \in Requests : Remembered(q)'
    BY <1>1 DEF GateInv, GateShape, Remembered, Over
  <1>5. LockoutNeedsFault'
    BY DEF GateInv, LockoutNeedsFault
  <1> QED
    BY <1>2, <1>3, <1>4, <1>5 DEF GateInv

\* The rate limiter touches nothing of the nonces.
LEMMA LimiterKeeps ==
    ASSUME GateInv, NEW i \in Instances, incr(i) \/ pexpire(i) \/ pexpireFails(i)
    PROVE  GateInv'
  <1>1. UNCHANGED <<now, nonceVars>>
    BY DEF incr, pexpire, pexpireFails
  <1>2. GateShape'
    <2>1. hits' \in Nat /\ hitsUntil' \in Int
      <3>1. hits \in Nat /\ hitsUntil \in Int /\ now \in Nat
        BY DEF GateInv, GateShape
      <3>2. CASE incr(i)
        BY <3>1, <3>2 DEF incr, NoExpiry
      <3>3. CASE pexpire(i)
        BY <3>1, <3>3, GateAssumption DEF pexpire
      <3>4. CASE pexpireFails(i)
        BY <3>1, <3>4 DEF pexpireFails
      <3> QED
        BY <3>2, <3>3, <3>4
    <2>3. faulted' \in BOOLEAN
      BY Zenon DEF GateInv, GateShape, incr, pexpire, pexpireFails
    <2>2. hitting' \in [Instances -> {0, 1}]
      BY DEF GateInv, GateShape, incr, pexpire, pexpireFails
    <2> QED
      BY <1>1, <2>1, <2>2, <2>3 DEF GateInv, GateShape, nonceVars
  <1>3. \A j \in Instances : verifying'[j] # NotVerifying => Recent(j)'
    BY <1>1 DEF GateInv, Recent, nonceVars
  <1>4. \A q \in Requests : Remembered(q)'
    BY <1>1 DEF GateInv, Remembered, Over, nonceVars
  <1>5. LockoutNeedsFault'
    <2>1. CASE incr(i)
      BY <2>1 DEF GateInv, GateShape, LockoutNeedsFault, incr
    <2>2. CASE pexpire(i)
      BY <2>2, GateAssumption DEF GateInv, GateShape, LockoutNeedsFault, pexpire, NoExpiry
    <2>3. CASE pexpireFails(i)
      BY <2>3 DEF LockoutNeedsFault, pexpireFails
    <2> QED
      BY <2>1, <2>2, <2>3
  <1> QED
    BY <1>2, <1>3, <1>4, <1>5 DEF GateInv

\* Redis goes and comes back with what it holds.
LEMMA OutageKeeps ==
    ASSUME GateInv, redisFails \/ redisReady
    PROVE  GateInv'
  BY DEF GateInv, GateShape, Recent, Remembered, Over, LockoutNeedsFault, redisFails, redisReady,
         nonceVars, limitVars

\* The passing of time keeps the invariant.
LEMMA TickKeeps ==
    ASSUME GateInv, gateTick
    PROVE  GateInv'
  <1>1. now' = now + 1 /\ now' \in Nat
    BY DEF gateTick, GateInv, GateShape
  <1>2. GateShape'
    BY <1>1 DEF GateInv, GateShape, gateTick, NoExpiry
  <1>3. \A j \in Instances : verifying'[j] # NotVerifying => Recent(j)'
    BY <1>1, GateAssumption DEF GateInv, GateShape, Recent, gateTick
  <1>4. \A q \in Requests : Remembered(q)'
    BY <1>1, GateAssumption DEF GateInv, GateShape, Remembered, Over, gateTick
  <1>5. LockoutNeedsFault'
    BY DEF GateInv, GateShape, LockoutNeedsFault, gateTick
  <1> QED
    BY <1>2, <1>3, <1>4, <1>5 DEF GateInv

\* Every step of the machine gate keeps its invariant.
LEMMA GateKept == GateInv /\ [GateNext]_gateVars => GateInv'
  <1> SUFFICES ASSUME GateInv, [GateNext]_gateVars PROVE GateInv'
    OBVIOUS
  <1>1. ASSUME NEW i \in Instances, NEW r \in Requests, verifySignature(i, r) PROVE GateInv'
    BY <1>1, VerifyKeeps
  <1>2. ASSUME NEW i \in Instances, consumeMachineNonce(i) \/ nonceAnswerLost(i) PROVE GateInv'
    BY <1>2, ConsumeKeeps, LostAnswerKeeps
  <1>3. ASSUME NEW i \in Instances, incr(i) \/ pexpire(i) \/ pexpireFails(i) PROVE GateInv'
    BY <1>3, LimiterKeeps
  <1>4. CASE redisFails \/ redisReady \/ gateTick
    BY <1>4, OutageKeeps, TickKeeps
  <1>5. CASE UNCHANGED gateVars
    BY <1>5 DEF GateInv, GateShape, Recent, Remembered, Over, LockoutNeedsFault, gateVars,
                nonceVars, limitVars
  <1> QED
    BY <1>1, <1>2, <1>3, <1>4, <1>5 DEF GateNext

-----------------------------------------------------------------------------
(* The machines' side as MCField puts it together.                           *)

FieldInv == RvmInv /\ CommandInv /\ MediaInv /\ CaptureInv /\ GateInv

\* A step of the run is a step of one part and a stutter of the others.
LEMMA FieldParts == [Next]_fieldVars => /\ [RvmNext]_rvmVars /\ [CommandNext]_commandVars
                                        /\ [MediaNext]_mediaVars /\ [CaptureNext]_captureVars
                                        /\ [GateNext]_gateVars
  <1>1. Next => /\ [RvmNext]_rvmVars /\ [CommandNext]_commandVars
                /\ [MediaNext]_mediaVars /\ [CaptureNext]_captureVars
                /\ [GateNext]_gateVars
    BY DEF Next
  <1>2. UNCHANGED fieldVars => /\ UNCHANGED rvmVars /\ UNCHANGED commandVars
                               /\ UNCHANGED mediaVars /\ UNCHANGED captureVars
                               /\ UNCHANGED gateVars
    BY DEF fieldVars
  <1> QED
    BY <1>1, <1>2

\* Every part starts in its invariant.
LEMMA FieldInitially == Init => FieldInv
  BY RvmInitially, CommandInitially, MediaInitially, CaptureInitially, GateInitially DEF Init, FieldInv

\* Every step of the run keeps the invariants of all parts.
LEMMA FieldKeeps == FieldInv /\ [Next]_fieldVars => FieldInv'
  BY FieldParts, RvmKeeps, CommandKeeps, MediaKeeps, CaptureKeeps, GateKept DEF FieldInv

\* The invariants of all parts hold throughout.
LEMMA FieldAlways == Spec => []FieldInv
  BY FieldInitially, FieldKeeps, PTL DEF Spec

\* An output of the machine is on only in a session (the gate alone) or in
\* maintenance, never under the latch and never after a reading that showed a
\* panel open; an output that did not stop is a known fault and has latched.
\* For every interleaving of the control tick, polls, commands, the
\* technician, jams and power losses of rvm/controller.py.
THEOREM MotionAlwaysSafe == Spec => []OnlySafeMotion
  <1>1. FieldInv => OnlySafeMotion
    BY SafeMoves DEF FieldInv
  <1> QED
    BY FieldAlways, <1>1, PTL

\* The latch of rvm/controller.py is left only by a step after which every
\* output obeys and is off, or the last reading was clear; a step that ends
\* under the latch switches nothing on but what failed to stop in it.
THEOREM LatchAlwaysLeftSafely == Spec => LatchLeftSafely
  <1>1. FieldInv /\ [Next]_fieldVars => LatchStep \/ UNCHANGED rvmVars
    BY FieldParts, RvmKeeps DEF FieldInv
  <1>2. LatchStep \/ UNCHANGED rvmVars =>
          [/\ latchActive(ctl) /\ ~latchActive(ctl') =>
                ctl'.stuck = {} /\ ~ctl'.fault /\ (seen' = {} \/ ctl'.on = {})
           /\ latchActive(ctl') => ctl'.on \subseteq ctl.on \cup ctl'.stuck]_rvmVars
    BY DEF LatchStep
  <1> QED
    BY FieldAlways, <1>1, <1>2, PTL DEF Spec, LatchLeftSafely

\* The items accepted for a session and their price never exceed the bound its
\* lease signed (rvm/lease.py), across renewals, restarts, resets and sessions
\* handed back, for every price list and bound.
THEOREM BoundAlwaysHolds == Spec => []BoundHolds
  <1>1. FieldInv => BoundHolds
    BY DEF FieldInv, RvmInv
  <1> QED
    BY FieldAlways, <1>1, PTL

\* A remote command is carried out once, and once more only for each power
\* loss between its work and its record; what the server records of it is what
\* the machine did (machine-command.service.ts, rvm/remote.py).
THEOREM CommandsAlwaysRunOnce == Spec => []RunOnce
  <1>1. FieldInv => RunOnce
    BY CommandsAreTrue DEF FieldInv
  <1> QED
    BY FieldAlways, <1>1, PTL

\* The playlist in use is in the machine's cache unless power failed while it
\* was replaced, and a capture no longer offered is on the server (rvm/sync.py,
\* rvm/camera.py), whichever uploads, polls and retries came in between.
THEOREM FilesAlwaysBacked == Spec => []FilesBacked
  <1>1. FieldInv => FilesBacked
    BY DEF FieldInv, MediaInv, CaptureInv, FilesBacked
  <1> QED
    BY FieldAlways, <1>1, PTL

\* A signed machine request is let through at most once (verifyMachineRequest,
\* consumeMachineNonce) and a rate-limit key without an expiry is left only by
\* an instance between INCR and PEXPIRE or one that failed there
\* (checkRateLimit), for any skew, margin, instances and outages.
THEOREM GateAlwaysHolds == Spec => []GateHolds
  <1>1. FieldInv => GateHolds
    BY DEF FieldInv, GateInv, GateHolds, SignedOnce, Remembered
  <1> QED
    BY FieldAlways, <1>1, PTL

=============================================================================
