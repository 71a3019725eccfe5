---------------------------- MODULE RvmController ----------------------------
(***************************************************************************)
(* The machine's controller: rvm/controller.py with its safety latch,      *)
(* rvm/lease.py's session bound, rvm/fraud.py, the state commands of       *)
(* rvm/remote.py, the operator's reset and the GPIO outputs.               *)
(*                                                                         *)
(* What runs under the controller's RLock is one step: a control tick, a   *)
(* poll's decision, a command.  The sensors change at any time, so each    *)
(* read inside a step is an input of its own.  Panel, collection door,     *)
(* vibration and temperature are treated alike and are the signal "panel". *)
(* An output may stick: writes to it fail.  The power may go between the   *)
(* separate database writes of a step.                                     *)
(***************************************************************************)
EXTENDS Naturals, FiniteSets

CONSTANTS
    RvmSessions,    \* sessions the server hands out
    Signals,        \* sensor signals that occur, see AllSignals
    Types,          \* waste types, each by the most the server pays for an item
    CeilingRupiah,  \* signed bounds of every lease
    MaxItems,
    MaxSticks,      \* bound: times an output begins or ceases to stick
    MaxCuts         \* bound: power losses

AllSignals == {"chamber", "item", "accept", "weight", "oddWeight", "reverse", "blurry",
               "panel", "occluded", "offline", "full"}

ASSUME RvmAssumption ==
    /\ Signals \subseteq AllSignals
    /\ Types \subseteq Nat \ {0} /\ Types # {} /\ IsFiniteSet(Types)
    /\ {CeilingRupiah, MaxItems, MaxSticks, MaxCuts} \subseteq Nat

VARIABLES
    ctl,        \* the controller: fields below
    last,       \* signals of the previous tick's snapshot that act by their edge
    seen,       \* hazards in the most recent reading of the sensors
    failed,     \* a tick raised and _run has not handled it yet
    choosing,   \* kiosk request that passed the check of select_waste_type
    consumed,   \* session_consumption: items and rupiah per session
    sticks, cuts

rvmVars == <<ctl, last, seen, failed, choosing, consumed, sticks, cuts>>

Outputs  == {"gate", "conveyor", "compactor"}
Edges    == {"chamber", "item", "accept", "reverse", "blurry", "offline"}
Hazards  == {"panel", "occluded", "offline"}
NoType   == 0
NoLease  == "none"
LOCKED   == {"SAFE_STATE", "MAINTENANCE", "FULL"}
RESUMABLE == {"SAFE_STATE", "MAINTENANCE", "SESSION_ACTIVE", "FULL"}
States   == RESUMABLE \cup {"IDLE", "PROCESSING", "SYNC_PENDING"}

\* A fresh reading by the interlock: one hazard blocks like several.
Readings == {{}} \cup {{x} : x \in (Signals \cap (Hazards \cup {"full"})) \cup {"unreadable"}}

RvmInit ==
    /\ ctl = [state |-> "IDLE", reason |-> FALSE, alert |-> "none", on |-> {}, stuck |-> {},
              fault |-> FALSE, lease |-> NoLease, selected |-> NoType,
              weighed |-> FALSE, raised |-> FALSE]
    /\ last = {} /\ seen = {} /\ failed = FALSE /\ choosing = NoType
    /\ consumed = [s \in RvmSessions |-> [items |-> 0, rupiah |-> 0]]
    /\ sticks = 0 /\ cuts = 0

----------------------------------------------------------------------------
(* Stops, latch and interlock.                                             *)

\* all_stop: the outputs that obey go off; any that does not is a fault.
stopOutputs(c) == [c EXCEPT !.on = @ \cap c.stuck, !.fault = c.stuck # {}]

\* A latched SAFE_STATE is left through MAINTENANCE or a reset only.
setState(c, s) ==
    IF c.state = "SAFE_STATE" /\ s \notin {"SAFE_STATE", "MAINTENANCE"} /\ c.reason
    THEN c ELSE [c EXCEPT !.state = s]

enterSafeState(c) ==
    [stopOutputs(c) EXCEPT !.alert = "CRITICAL", !.reason = TRUE, !.state = "SAFE_STATE"]

safeAllStop(c) == IF c.stuck = {} THEN stopOutputs(c) ELSE enterSafeState(c)

closeOutput(c, o) ==
    IF o \in c.stuck THEN [enterSafeState(c) EXCEPT !.raised = TRUE] ELSE [c EXCEPT !.on = @ \ {o}]

\* The plain write of an opening; it raises when the output does not obey.
openOutput(c, o) ==
    IF o \in c.stuck THEN [c EXCEPT !.raised = TRUE] ELSE [c EXCEPT !.on = @ \cup {o}]

\* A warning never replaces a safety alert.
setWarning(c, category) == IF c.alert = "CRITICAL" THEN c ELSE [c EXCEPT !.alert = category]

reportFraud(c) == setWarning(safeAllStop(c), "FRAUD")

physicalHazards(c, reading)  == c.fault \/ "panel" \in reading
\* Mutant: a fault of the outputs is not among the unsafe conditions.
unsafeBySensors(c, reading) == reading \cap Hazards # {}

unsafeConditions(c, reading) == physicalHazards(c, reading) \/ reading \cap {"offline", "occluded"} # {}
latchActive(c) == c.state = "SAFE_STATE" \/ c.reason \/ c.alert = "CRITICAL"

\* Mutant: the interlock trusts the latch and reads no sensor.
interlockByLatch(c, reading) ==
    "unreadable" \in reading \/ latchActive(c) \/ c.state \in LOCKED

actuationBlocked(c, reading) ==
    \/ "unreadable" \in reading \/ unsafeConditions(c, reading)
    \/ latchActive(c) \/ c.state \in LOCKED \/ "full" \in reading

maintenanceBlocked(c, reading) ==
    "unreadable" \in reading \/ physicalHazards(c, reading) \/ latchActive(c)

----------------------------------------------------------------------------
(* The signed bound of the session: rvm/lease.py.                          *)

Least(S)    == CHOOSE x \in S : \A y \in S : x <= y
Greatest(S) == CHOOSE x \in S : \A y \in S : x >= y

\* Nothing selected: the dearest type.
itemCap(type) == IF type \in Types THEN type ELSE Greatest(Types)

boundExhausted(c) ==
    /\ c.lease # NoLease
    /\ \/ consumed[c.lease].items >= MaxItems
       \/ consumed[c.lease].rupiah + Least(Types) > CeilingRupiah

\* Mutant: what the session has left is not compared with the item's cap.
blockedWhenSpent(c) ==
    /\ c.lease # NoLease
    /\ \/ consumed[c.lease].items >= MaxItems
       \/ consumed[c.lease].rupiah >= CeilingRupiah

itemBlocked(c) ==
    /\ c.lease # NoLease
    /\ \/ consumed[c.lease].items >= MaxItems
       \/ consumed[c.lease].rupiah + itemCap(c.selected) > CeilingRupiah

\* At an exhausted bound the gate stays shut and nothing else changes.
tryOpenInputGate(c, reading) ==
    CASE boundExhausted(c) -> c
      [] ~boundExhausted(c) /\ actuationBlocked(c, reading) -> safeAllStop(c)
      [] OTHER -> openOutput(c, "gate")

----------------------------------------------------------------------------
(* A control tick: the parts of _process_sensors in their order.           *)

Rises(x, r) == x \in r /\ x \notin last

\* While latched only a rising edge latches again, but a latched controller
\* is as enterSafeState leaves it, and after a restart every signal rises.
latchHazard(c, x, r) == IF x \in r THEN enterSafeState(c) ELSE c

Chamber(c, r) == IF Rises("chamber", r) /\ c.state # "SESSION_ACTIVE" THEN reportFraud(c) ELSE c
Offline(c, r) == IF Rises("offline", r) THEN enterSafeState(c) ELSE c
Blurry(c, r)  == IF Rises("blurry", r) THEN setWarning(c, "SENSOR") ELSE c
Reverse(c, r) == IF Rises("reverse", r) THEN reportFraud(c) ELSE c

Capacity(c, r) ==
    IF "full" \in r /\ c.state \notin {"FULL", "SAFE_STATE"} THEN safeAllStop(setState(c, "FULL")) ELSE c

ItemPresent(c, r) ==
    CASE ~Rises("item", r) -> c
      [] Rises("item", r) /\ c.state # "SESSION_ACTIVE" -> reportFraud(c)
      [] OTHER -> closeOutput([setState(c, "PROCESSING") EXCEPT !.weighed = FALSE], "gate")

ItemDone(c) == setState([c EXCEPT !.selected = NoType], "SESSION_ACTIVE")

Rejects(c, r) == ~c.raised /\ c.state = "PROCESSING" /\ ~c.weighed /\ "oddWeight" \in r

\* An item of an abnormal weight is rejected and the gate opens again.
Weight(c, r, fresh) ==
    CASE c.raised \/ c.state # "PROCESSING" \/ c.weighed \/ r \cap {"weight", "oddWeight"} = {} -> c
      [] Rejects(c, r) ->
           tryOpenInputGate([ItemDone(reportFraud(c)) EXCEPT !.weighed = TRUE], fresh)
      [] OTHER -> [c EXCEPT !.weighed = TRUE]

Accepts(c, r) == ~c.raised /\ c.state = "PROCESSING" /\ Rises("accept", r)
Moves(c, fresh) == ~itemBlocked(c) /\ ~actuationBlocked(c, fresh) /\ "conveyor" \notin c.stuck

\* Bound, interlock, conveyor, ITEM_ACCEPTED_POINT, stop, compactor.
\* fresh and again are what the interlock reads before each of the two, jams
\* that the conveyor does not stop again.
Acceptance(c, r, fresh, again, jams) ==
    CASE c.raised \/ ~Rises("accept", r) -> c
      [] ~c.raised /\ Rises("accept", r) /\ c.state # "PROCESSING" -> reportFraud(c)
      [] Accepts(c, r) /\ (itemBlocked(c) \/ actuationBlocked(c, fresh)) -> ItemDone(safeAllStop(c))
      [] Accepts(c, r) /\ ~itemBlocked(c) /\ ~actuationBlocked(c, fresh) /\ "conveyor" \in c.stuck ->
           openOutput(c, "conveyor")
      [] Accepts(c, r) /\ Moves(c, fresh) /\ jams ->
           closeOutput([c EXCEPT !.on = @ \cup {"conveyor"}, !.stuck = @ \cup {"conveyor"}], "conveyor")
      [] OTHER ->
           IF actuationBlocked(c, again) THEN ItemDone(safeAllStop(c))
           ELSE IF "compactor" \in c.stuck THEN openOutput(c, "compactor") ELSE ItemDone(c)

Level(c, r) ==
    IF ~c.raised /\ (c.state = "SAFE_STATE" \/ physicalHazards(c, r)) THEN safeAllStop(c) ELSE c

\* The rest of _tick: the lease, and an item too long in the chamber.
ExpireLease(c) ==
    IF ~c.raised /\ c.state \in {"SESSION_ACTIVE", "PROCESSING"} /\ c.lease = NoLease
    THEN safeAllStop(setState(c, "SYNC_PENDING")) ELSE c

ChamberTimeout(c, late) ==
    IF ~c.raised /\ late /\ c.state = "PROCESSING"
    THEN closeOutput(ItemDone(reportFraud(c)), "conveyor") ELSE c

BeforeItem(r) ==
    LET c1 == latchHazard(Chamber(ctl, r), "panel", r)
        c2 == Blurry(Offline(latchHazard(c1, "occluded", r), r), r)
    IN  ItemPresent(Capacity(Reverse(c2, r), r), r)

Tick(r, fresh, again, jams, late) ==
    LET before   == BeforeItem(r)
        weighed  == Weight(before, r, fresh)
        moved    == Accepts(weighed, r) /\ Moves(weighed, fresh)
        accepted == Acceptance(weighed, r, fresh, again, jams)
        done     == ChamberTimeout(ExpireLease(Level(accepted, r)), late)
    IN  /\ ~failed
        /\ fresh # {} => Rejects(before, r) \/ Accepts(weighed, r)
        /\ again # {} => moved /\ ~jams
        /\ jams => moved /\ sticks < MaxSticks
        /\ sticks' = IF jams THEN sticks + 1 ELSE sticks
        /\ ctl' = [done EXCEPT !.raised = FALSE] /\ failed' = done.raised
        /\ consumed' = IF moved /\ weighed.lease # NoLease
             THEN [consumed EXCEPT ![weighed.lease].items = @ + 1,
                                   ![weighed.lease].rupiah = @ + itemCap(weighed.selected)]
             ELSE consumed
        /\ last' = r \cap Edges /\ seen' = (r \cup fresh \cup again) \cap Hazards
        /\ UNCHANGED <<choosing, cuts>>

\* _run after an exception: the cause of an existing latch is kept.
TickFails ==
    /\ failed /\ failed' = FALSE
    /\ ctl' = IF latchActive(ctl) THEN safeAllStop(ctl) ELSE enterSafeState(ctl)
    /\ UNCHANGED <<last, seen, choosing, consumed, sticks, cuts>>

----------------------------------------------------------------------------
(* The session bridge.                                                     *)

\* A lease on the wire.  What is signed names its machine and the hash of the
\* price list sent along; equal hashes are equal price lists.
LeaseFields == [machine : {"this", "other"}, policyVersion : {"admitted", "altered"}]
policy_version(policy) == policy
signLeaseV2(secret, fields) == <<secret, fields>>
Leases == [version : {1, 2}, fields : LeaseFields, policy : {"admitted", "altered"},
           signature : {signLeaseV2(k, f) : k \in {"this", "other"}, f \in LeaseFields}]

\* A v1 lease, whose bound is not signed, is refused like a forged one.
verify_lease_v2(l) ==
    /\ l.version = 2
    /\ l.fields.machine = "this"
    /\ l.signature = signLeaseV2("this", l.fields)
    /\ policy_version(l.policy) = l.fields.policyVersion

\* Whether a lease starts a session: verified and not yet expired.
LeaseVerdicts == {verify_lease_v2(l) /\ ~expired : l \in Leases, expired \in BOOLEAN}

\* A session starts from a stopped machine, behind the interlock.
activateLease(c, s, valid, reading) ==
    LET stopped == safeAllStop(c)
        started == setState([stopped EXCEPT !.lease = s], "SESSION_ACTIVE")
    IN  CASE ~valid -> c
          [] valid /\ c.stuck # {} -> stopped
          [] valid /\ c.stuck = {} /\ actuationBlocked(stopped, reading) -> safeAllStop(stopped)
          [] OTHER -> IF boundExhausted(started) THEN started ELSE openOutput(started, "gate")

\* renew_lease of the same session moves the expiry only.
pollServerSession(s, valid, reading) ==
    /\ ctl' = CASE s # NoLease /\ ctl.lease = s -> ctl
                [] s # NoLease /\ ctl.lease # s ->
                     activateLease([ctl EXCEPT !.lease = NoLease], s, valid, reading)
                [] OTHER ->
                     IF ctl.lease = NoLease THEN ctl
                     ELSE LET ended == [ctl EXCEPT !.lease = NoLease, !.selected = NoType,
                                           !.alert = IF @ = "FRAUD" THEN "none" ELSE @]
                          IN  safeAllStop(IF ctl.state \in LOCKED THEN ended ELSE setState(ended, "IDLE"))
    /\ seen' = IF s # NoLease /\ ctl.lease # s /\ valid /\ ctl.stuck = {}
               THEN reading \cap Hazards ELSE seen
    /\ UNCHANGED <<last, failed, choosing, consumed, sticks, cuts>>

\* The machine's own interface takes a lease too, also while one is running;
\* the one issued last counts.
postLease(s, newest, valid, reading) ==
    /\ newest \in {s, ctl.lease} \ {NoLease}
    /\ ctl' = activateLease(ctl, newest, valid, reading)
    /\ seen' = IF valid /\ ctl.stuck = {} THEN reading \cap Hazards ELSE seen
    /\ UNCHANGED <<last, failed, choosing, consumed, sticks, cuts>>

LeaseExpires ==
    /\ ctl.lease # NoLease /\ ctl' = [ctl EXCEPT !.lease = NoLease]
    /\ UNCHANGED <<last, seen, failed, choosing, consumed, sticks, cuts>>

\* select_waste_type checks the state before it waits for the lock ...
SelectChecks(type) ==
    /\ choosing = NoType /\ ctl.state = "SESSION_ACTIVE"
    /\ choosing' = type
    /\ UNCHANGED <<ctl, last, seen, failed, consumed, sticks, cuts>>

\* ... and writes once it has it.
SelectWrites ==
    /\ choosing # NoType /\ choosing' = NoType
    /\ ctl' = [ctl EXCEPT !.selected = choosing]
    /\ UNCHANGED <<last, seen, failed, consumed, sticks, cuts>>

----------------------------------------------------------------------------
(* Commands.  One that raises is reported as failed and changes no more.   *)

Command(c, reading) ==
    /\ ctl' = [c EXCEPT !.raised = FALSE] /\ seen' = reading
    /\ UNCHANGED <<last, failed, choosing, consumed, sticks, cuts>>

OPEN_GATE(reading) ==
    /\ ctl.state = "SESSION_ACTIVE" /\ ctl.lease # NoLease /\ ctl.alert = "none"
    /\ ~boundExhausted(ctl)
    /\ Command(tryOpenInputGate(ctl, reading), reading \cap Hazards)

\* CLOSE_GATE and the technician's closing of one output.
CloseCommand(o) == Command(closeOutput(ctl, o), seen)

STOP_ALL == Command(safeAllStop(ctl), seen)

ENTER_MAINTENANCE ==
    Command(IF ctl.stuck # {} THEN safeAllStop(ctl) ELSE setState(stopOutputs(ctl), "MAINTENANCE"), seen)

RESUME_OPERATION(reading) ==
    /\ ~ctl.reason /\ ctl.alert = "none"
    /\ LET stopped == safeAllStop(ctl) IN
       IF ctl.stuck # {} THEN Command(stopped, seen)
       ELSE IF ctl.lease # NoLease
       THEN Command(tryOpenInputGate(setState(stopped, "SESSION_ACTIVE"), reading),
                    IF boundExhausted(ctl) THEN seen ELSE reading \cap Hazards)
       ELSE Command(setState(stopped, "IDLE"), seen)

\* _reset_mock_state: RESET_ALERT keeps the lease, reset-safe-state does not.
\* A refused reset has stopped the outputs.
ResetSafeState(keepLease, reading, again) ==
    LET stopped == safeAllStop(ctl)
        cleared == [stopped EXCEPT !.reason = FALSE, !.alert = "none", !.selected = NoType,
                                   !.lease = IF keepLease THEN @ ELSE NoLease]
    IN  /\ "unreadable" \notin reading
        /\ IF unsafeConditions(stopped, reading) THEN Command(stopped, reading \cap Hazards)
           ELSE IF cleared.lease # NoLease
           THEN Command(tryOpenInputGate(setState(cleared, "SESSION_ACTIVE"), again),
                        IF boundExhausted(cleared) THEN {} ELSE again \cap Hazards)
           ELSE Command(setState(cleared, "IDLE"), {})

\* A technician's jog, in MAINTENANCE only.
Jog(o, reading) ==
    /\ ctl.state = "MAINTENANCE"
    /\ Command(IF maintenanceBlocked(ctl, reading) THEN safeAllStop(ctl) ELSE openOutput(ctl, o),
               reading \cap Hazards)

\* The camera thread reports an occluded or lost camera.
CameraAlert == Command(enterSafeState(ctl), seen)

----------------------------------------------------------------------------
(* Faults.                                                                 *)

\* An output begins to stick, or obeys again.
Sticks(o) ==
    /\ sticks < MaxSticks /\ sticks' = sticks + 1
    /\ ctl' = [ctl EXCEPT !.stuck = IF o \in @ THEN @ \ {o} ELSE @ \cup {o}]
    /\ UNCHANGED <<last, seen, failed, choosing, consumed, cuts>>

\* What the database holds when the power goes: between steps, or between the
\* writes of a latch (alert, reason, state), of a reset (reason, alert, lease,
\* state) or of a lease's activation (lease, state).
Persisted(c) ==
    {c, [c EXCEPT !.alert = "CRITICAL"], [c EXCEPT !.alert = "CRITICAL", !.reason = TRUE]}
    \cup (IF c.stuck = {}
          THEN {[c EXCEPT !.reason = FALSE], [c EXCEPT !.reason = FALSE, !.alert = "none"],
                [c EXCEPT !.reason = FALSE, !.alert = "none", !.lease = NoLease]} ELSE {})
    \cup (IF ~actuationBlocked(c, {}) THEN {[c EXCEPT !.lease = s] : s \in RvmSessions} ELSE {})

\* start: outputs off, then the state that was stored.
recoverState(c) ==
    CASE c.state = "PROCESSING" -> enterSafeState(c)
      [] c.state \in RESUMABLE  -> c
      [] OTHER                  -> setState(c, "IDLE")

PowerLoss ==
    /\ cuts < MaxCuts /\ cuts' = cuts + 1
    /\ \E c \in Persisted(ctl) :
         ctl' = recoverState(safeAllStop([c EXCEPT !.on = {}, !.fault = FALSE, !.selected = NoType,
                                                   !.weighed = FALSE]))
    /\ last' = {} /\ seen' = {} /\ failed' = FALSE /\ choosing' = NoType
    /\ UNCHANGED <<consumed, sticks>>

----------------------------------------------------------------------------
\* A tick that moves no output reads the sensors once.
MayActuate(r) == ctl.state \in {"SESSION_ACTIVE", "PROCESSING"} /\ r \cap {"accept", "oddWeight"} # {}

\* A tick's snapshot of the sensors; once "panel" latches, "full" changes nothing.
Snapshots == {r \in SUBSET Signals : ~({"panel", "full"} \subseteq r)}

RvmNext ==
    \/ \E r \in Snapshots, late \in {FALSE, ctl.state = "PROCESSING"} :
         \E fresh \in IF MayActuate(r) THEN Readings ELSE {{}} :
         \E again \in IF MayActuate(r) /\ fresh = {} THEN Readings ELSE {{}} :
         \E jams \in {FALSE, MayActuate(r) /\ fresh \cup again = {}} :
             Tick(r, fresh, again, jams, late)
    \/ TickFails
    \/ \E s \in RvmSessions \cup {NoLease}, valid \in LeaseVerdicts :
         \E reading \in IF valid /\ s # NoLease THEN Readings ELSE {{}} :
         \/ pollServerSession(s, valid, reading)
         \/ s # NoLease /\ \E newest \in RvmSessions : postLease(s, newest, valid, reading)
    \/ LeaseExpires
    \/ \E type \in Types : SelectChecks(type)
    \/ SelectWrites
    \/ \E reading \in Readings :
         \/ OPEN_GATE(reading) \/ RESUME_OPERATION(reading)
         \/ \E o \in Outputs : Jog(o, reading)
         \/ \E keepLease \in BOOLEAN :
              \E again \in IF keepLease /\ ctl.lease # NoLease THEN Readings ELSE {{}} :
              ResetSafeState(keepLease, reading, again)
    \/ \E o \in Outputs : CloseCommand(o) \/ Sticks(o)
    \/ STOP_ALL \/ ENTER_MAINTENANCE \/ CameraAlert \/ PowerLoss

RvmSpec == RvmInit /\ [][RvmNext]_rvmVars

----------------------------------------------------------------------------
(* Properties.                                                             *)

\* An output is on only in a session (the gate alone) or in maintenance, never
\* while the latch holds and never when the last reading showed a physical
\* hazard: "a valid server lease can never open an output while a local safety
\* condition is active" (README), whichever threads, faults and power losses
\* came in between.  The exception is an output that did not stop: then the
\* fault is known and the latch holds.
OnlySafeMotion ==
    IF ctl.fault THEN latchActive(ctl)
    ELSE ctl.on # {} =>
        /\ ctl.state \in {"SESSION_ACTIVE", "MAINTENANCE"} /\ ~latchActive(ctl)
        /\ "panel" \notin seen
        /\ ctl.state = "SESSION_ACTIVE" => ctl.on = {"gate"}

\* "The latch is released by an operator only": it is never left, by a reset,
\* a session's end, a restart or a full bin, while the outputs fail to stop
\* or the last reading shows a hazard; what a crash leaves of it holds; and
\* no step that ends under it has switched on an output, unless the output
\* failed to stop in that very step.
LatchLeftSafely ==
    [][/\ latchActive(ctl) /\ ~latchActive(ctl') =>
            ctl'.stuck = {} /\ ~ctl'.fault /\ (seen' = {} \/ ctl'.on = {})
       /\ latchActive(ctl') => ctl'.on \subseteq ctl.on \cup ctl'.stuck]_rvmVars

\* The machine never accepts more for a session than the lease signed, across
\* renewals, restarts, resets and sessions handed back.
BoundHolds ==
    \A s \in RvmSessions : consumed[s].items <= MaxItems /\ consumed[s].rupiah <= CeilingRupiah
=============================================================================
