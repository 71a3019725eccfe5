--------------------------- MODULE RemoteCommands ---------------------------
(***************************************************************************)
(* Remote commands for a machine: the superadmin's queue (app/api/machines *)
(* /[id]/remote-commands), the machine's poll and result requests          *)
(* (app/api/machine-commands) and the machine's thread (rvm/remote.py).    *)
(*                                                                         *)
(* No request takes a row lock: a handler is as many steps as it makes     *)
(* database calls.  The machine gives up on a request after its timeout    *)
(* while the server goes on with it, and its process may stop anywhere.    *)
(* What a command does to the machine is in module RvmController; here it  *)
(* is a run that succeeds or fails.                                        *)
(***************************************************************************)
EXTENDS Naturals, FiniteSets

CONSTANTS
    Handlers,       \* requests of the machine the server works on at a time
    MaxCommands,    \* bound: commands ever queued
    MaxStops        \* bound: restarts of the machine's process

ASSUME CommandAssumption == /\ MaxCommands \in Nat \ {0} /\ MaxStops \in Nat
                            /\ "none" \notin Handlers

VARIABLES
    commands,       \* MachineRemoteCommand rows, oldest first
    queued,         \* how many exist
    asking,         \* kinds whose POST found nothing pending and will insert
    work,           \* what each handler is doing
    machine,        \* the machine's thread: phase, command, awaited handler
    resultCache,          \* remote_result:<id> in the machine's database
    runs,           \* executions of each command on the machine
    cut,            \* executions whose result was not cached before a stop
    stops           \* restarts so far

commandVars == <<commands, queued, asking, work, machine, resultCache, runs, cut, stops>>

CommandIds == 1..MaxCommands
Kinds      == {"STOP_ALL", "other"}
PENDING    == {"QUEUED", "DISPATCHED"}
FINAL      == {"SUCCEEDED", "FAILED", "EXPIRED"}
Results    == {"SUCCEEDED", "FAILED"}
Nothing    == 0
Idle       == [job |-> "none", command |-> 0, result |-> "SUCCEEDED"]
Resting    == [phase |-> "rest", command |-> 0, result |-> "SUCCEEDED", awaits |-> "none"]

CommandInit ==
    /\ commands = [c \in CommandIds |-> [kind |-> "other", status |-> "QUEUED", late |-> FALSE]]
    /\ queued = 0 /\ asking = {}
    /\ work = [h \in Handlers |-> Idle] /\ machine = Resting
    /\ resultCache = [c \in CommandIds |-> "none"]
    /\ runs = [c \in CommandIds |-> 0] /\ cut = [c \in CommandIds |-> 0]
    /\ stops = 0

Pending(c) == c \in 1..queued /\ commands[c].status \in PENDING
Live(c)    == Pending(c) /\ ~commands[c].late

\* Mutant: only a command that was never dispatched expires.
expireUndispatched ==
    commands' = [c \in CommandIds |->
        IF Pending(c) /\ commands[c].late /\ commands[c].status = "QUEUED"
        THEN [commands[c] EXCEPT !.status = "EXPIRED"] ELSE commands[c]]

\* updateMany of the poll and of the superadmin's list: overdue rows expire.
expireLate ==
    commands' = [c \in CommandIds |->
        IF Pending(c) /\ commands[c].late THEN [commands[c] EXCEPT !.status = "EXPIRED"] ELSE commands[c]]

----------------------------------------------------------------------------
(* The superadmin, and time.                                               *)

ListCommands ==
    /\ expireLate /\ commands' # commands
    /\ UNCHANGED <<queued, asking, work, machine, resultCache, runs, cut, stops>>

\* POST: a pending command of the same kind answers the request ...
AskCommand(kind) ==
    /\ kind \notin asking
    /\ \A c \in 1..queued : commands[c].kind = kind => ~Live(c)
    /\ asking' = asking \cup {kind}
    /\ UNCHANGED <<commands, queued, work, machine, resultCache, runs, cut, stops>>

\* ... otherwise a row is inserted, later.
QueueCommand(kind) ==
    /\ kind \in asking /\ queued < MaxCommands
    /\ queued' = queued + 1 /\ asking' = asking \ {kind}
    /\ commands' = [commands EXCEPT ![queued + 1].kind = kind]
    /\ UNCHANGED <<work, machine, resultCache, runs, cut, stops>>

\* REMOTE_COMMAND_EXPIRY_SECONDS pass; the oldest command is late first.
Expires(c) ==
    /\ c \in 1..queued /\ ~commands[c].late /\ \A b \in 1..(c - 1) : commands[b].late
    /\ commands' = [commands EXCEPT ![c].late = TRUE]
    /\ UNCHANGED <<queued, asking, work, machine, resultCache, runs, cut, stops>>

----------------------------------------------------------------------------
(* Requests of the machine.                                                *)

\* The answer reaches the machine only while it still waits for it.
Answer(h, phase, c) ==
    /\ work' = [work EXCEPT ![h] = Idle]
    /\ machine' = IF machine.awaits = h
                  THEN [Resting EXCEPT !.phase = phase, !.command = c] ELSE machine

PollExpires(h) ==
    /\ work[h].job = "expire"
    /\ expireLate
    /\ work' = [work EXCEPT ![h].job = "find"]
    /\ UNCHANGED <<queued, asking, machine, resultCache, runs, cut, stops>>

\* STOP_ALL before any other command, otherwise the oldest.
oldestPending(kinds) ==
    LET found == {c \in 1..queued : Live(c) /\ commands[c].kind \in kinds}
    IN  IF found = {} THEN Nothing ELSE CHOOSE c \in found : \A d \in found : c <= d

nextPending ==
    LET stop == oldestPending({"STOP_ALL"}) IN
    IF stop # Nothing THEN stop ELSE oldestPending(Kinds)

PollFinds(h) ==
    /\ work[h].job = "find"
    /\ LET c == nextPending IN
       IF c # Nothing /\ commands[c].status = "QUEUED"
       THEN /\ work' = [work EXCEPT ![h].job = "mark", ![h].command = c]
            /\ UNCHANGED machine
       ELSE Answer(h, IF c = Nothing THEN "rest" ELSE "got", c)
    /\ UNCHANGED <<commands, queued, asking, resultCache, runs, cut, stops>>

\* The update names the id alone: whatever happened since is overwritten.
PollMarks(h) ==
    /\ work[h].job = "mark"
    /\ commands' = [commands EXCEPT ![work[h].command].status = "DISPATCHED"]
    /\ Answer(h, "got", work[h].command)
    /\ UNCHANGED <<queued, asking, resultCache, runs, cut, stops>>

ResultReads(h) ==
    /\ work[h].job = "read"
    /\ IF commands[work[h].command].status \in FINAL
       THEN Answer(h, "rest", 0)
       ELSE work' = [work EXCEPT ![h].job = "write"] /\ UNCHANGED machine
    /\ UNCHANGED <<commands, queued, asking, resultCache, runs, cut, stops>>

\* Both updates are unconditional; the Machine row's is StatusWritten of
\* module PickupDispatch.
ResultWrites(h) ==
    /\ work[h].job = "write"
    /\ commands' = [commands EXCEPT ![work[h].command].status = work[h].result]
    /\ Answer(h, "rest", 0)
    /\ UNCHANGED <<queued, asking, resultCache, runs, cut, stops>>

----------------------------------------------------------------------------
(* The machine's thread: rvm/remote.py.                                    *)

Send(h, phase, request) ==
    /\ work[h] = Idle
    /\ work' = [work EXCEPT ![h] = request]
    /\ machine' = [machine EXCEPT !.phase = phase, !.awaits = h]

MachinePolls(h) ==
    /\ machine.phase = "rest"
    /\ Send(h, "polling", [Idle EXCEPT !.job = "expire"])
    /\ UNCHANGED <<commands, queued, asking, resultCache, runs, cut, stops>>

\* Timeout or connection error: the next pass polls again.
MachineGivesUp ==
    /\ machine.phase \in {"polling", "reporting"}
    /\ machine' = Resting
    /\ UNCHANGED <<commands, queued, asking, work, resultCache, runs, cut, stops>>

\* A cached result is reported again, not run again.
MachineFindsCached ==
    /\ machine.phase = "got" /\ resultCache[machine.command] # "none"
    /\ machine' = [machine EXCEPT !.phase = "cached", !.result = resultCache[machine.command]]
    /\ UNCHANGED <<commands, queued, asking, work, resultCache, runs, cut, stops>>

\* Mutant: the cache is not asked before the command is run.
RunsAgain(result) ==
    /\ machine.phase = "got"
    /\ runs' = [runs EXCEPT ![machine.command] = @ + 1]
    /\ machine' = [machine EXCEPT !.phase = "ran", !.result = result]
    /\ UNCHANGED <<commands, queued, asking, work, resultCache, cut, stops>>

MachineRuns(result) ==
    /\ machine.phase = "got" /\ resultCache[machine.command] = "none"
    /\ runs' = [runs EXCEPT ![machine.command] = @ + 1]
    /\ machine' = [machine EXCEPT !.phase = "ran", !.result = result]
    /\ UNCHANGED <<commands, queued, asking, work, resultCache, cut, stops>>

MachineCaches ==
    /\ machine.phase = "ran"
    /\ resultCache' = [resultCache EXCEPT ![machine.command] = machine.result]
    /\ machine' = [machine EXCEPT !.phase = "cached"]
    /\ UNCHANGED <<commands, queued, asking, work, runs, cut, stops>>

MachineReportsResult(h) ==
    /\ machine.phase = "cached"
    /\ Send(h, "reporting", [job |-> "read", command |-> machine.command, result |-> machine.result])
    /\ UNCHANGED <<commands, queued, asking, resultCache, runs, cut, stops>>

MachineStops ==
    /\ stops < MaxStops /\ stops' = stops + 1
    /\ cut' = IF machine.phase = "ran" THEN [cut EXCEPT ![machine.command] = @ + 1] ELSE cut
    /\ machine' = Resting
    /\ UNCHANGED <<commands, queued, asking, work, resultCache, runs>>

----------------------------------------------------------------------------
Serve(h) ==
    PollExpires(h) \/ PollFinds(h) \/ PollMarks(h) \/ ResultReads(h) \/ ResultWrites(h)

MachineWorks ==
    \/ MachineFindsCached \/ MachineCaches
    \/ \E result \in Results : MachineRuns(result)
    \/ \E h \in Handlers : MachinePolls(h) \/ MachineReportsResult(h)

CommandNext ==
    \/ ListCommands
    \/ \E kind \in Kinds : AskCommand(kind) \/ QueueCommand(kind)
    \/ \E c \in CommandIds : Expires(c)
    \/ \E h \in Handlers : Serve(h)
    \/ MachineWorks \/ MachineGivesUp \/ MachineStops

\* The server finishes what it works on, the machine's thread keeps polling
\* and handling, and the clock runs.  Nobody has to queue or list commands.
CommandFairness ==
    /\ \A h \in Handlers : WF_commandVars(Serve(h))
    /\ WF_commandVars(MachineWorks)
    /\ \A c \in CommandIds : WF_commandVars(Expires(c))

CommandSpec == CommandInit /\ [][CommandNext]_commandVars /\ CommandFairness

----------------------------------------------------------------------------
(* Properties.                                                             *)

\* What the superadmin reads as the outcome is the outcome on the machine.
OutcomeIsTrue ==
    \A c \in 1..queued : commands[c].status \in Results => commands[c].status = resultCache[c]

\* "results are cached per id and reported again without running again"
\* (rvm/README.md): polls and reports that are lost, repeated or overtaken
\* never run a command twice (only a stop between the run and its caching
\* can), and what is reported is what happened.
RunOnce == (\A c \in CommandIds : runs[c] <= 1 + cut[c]) /\ OutcomeIsTrue

\* Every command ends, for good: neither a late report nor a poll that the
\* machine no longer waits for can bring one back for ever.
CommandsSettle == <>[](\A c \in 1..queued : commands[c].status \in FINAL)
=============================================================================
