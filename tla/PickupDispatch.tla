--------------------------- MODULE PickupDispatch ---------------------------
(***************************************************************************)
(* Collecting a full machine: lib/pickup-dispatch.ts, lib/pickup.ts, the   *)
(* pickup routes, the automatic request of lib/machine-events/pickup.ts    *)
(* and the overdue escalation.                                             *)
(*                                                                         *)
(* One organization and one of its machines.  A transaction that locks its *)
(* PickupRequest row first and re-reads it is one step.  What is not under *)
(* that lock takes several steps: the check and the insert of POST         *)
(* /api/pickups, the candidate of an escalation pass, and the read and the *)
(* insert of the two transactions that hold the Machine row (automatic     *)
(* request, replacement).  A client's snapshot is the version it sends:    *)
(* any past version is an input.  Callers of the wrong role or of another  *)
(* organization are refused before any write and have no step.             *)
(***************************************************************************)
EXTENDS Naturals, FiniteSets

CONSTANTS
    Admins,         \* ADMINs of the organization
    Superadmins,
    Collectors,     \* PENGEPUL accounts
    Runners,        \* escalation passes: the script, or an admin's read
    MaxPickups,     \* bound: PickupRequest rows ever created
    MaxChecks,      \* bound: POST /api/pickups in progress at a time
    MaxVersion,     \* bound: assignments and transitions of all tasks together,
                    \* two fewer for every task after the first
    NoOne           \* "not set"

ASSUME PickupAssumption ==
    /\ MaxPickups \in Nat \ {0} /\ MaxVersion \in Nat /\ MaxChecks \in Nat
    /\ NoOne \notin Admins \cup Superadmins \cup Collectors

VARIABLES
    pickups,        \* PickupRequest rows by creation order
    made,           \* how many of them exist
    partner,        \* collectors with an ACTIVE partnership
    machineFull,    \* Machine.status = FULL
    machineLock,    \* transaction that holds the Machine row, with what it read
    checking,       \* requests between the check and the insert of POST /api/pickups
    candidate,      \* per escalation pass: the row it read and now claims
    escalations     \* PICKUP_ESCALATE audit rows since the version last changed

pickupVars == <<pickups, made, partner, machineFull, machineLock,
                checking, candidate, escalations>>

Ids         == 1..MaxPickups
Dispatchers == Admins \cup Superadmins
Clients     == Dispatchers \cup Collectors

PICKUP_OPEN         == {"REQUESTED", "ASSIGNED", "ON_THE_WAY", "ARRIVED", "COLLECTED"}
PICKUP_REASSIGNABLE == {"REQUESTED", "ASSIGNED"}
PICKUP_REPLACEABLE  == {"FAILED", "CANCELLED"}
PICKUP_TERMINAL     == {"COMPLETED", "CANCELLED", "FAILED"}
RECORDABLE          == {"ARRIVED", "COLLECTED", "COMPLETED"}

\* due is expectedStartAt seen from the clock: not set, in the future, passed.
Rows == [status : PICKUP_OPEN \cup PICKUP_TERMINAL, version : 0..MaxVersion,
         collector : Collectors \cup {NoOne}, due : {"unset", "ahead", "passed"},
         escalated : BOOLEAN, replaces : 0..MaxPickups, onMachine : BOOLEAN,
         items : 0..1]

FreshRow(machine, closed) ==
    [status |-> "REQUESTED", version |-> 0, collector |-> NoOne, due |-> "unset",
     escalated |-> FALSE, replaces |-> closed, onMachine |-> machine, items |-> 0]

WithinBound ==
    Cardinality({d \in Ids \X (1..MaxVersion) : d[2] <= pickups[d[1]].version})
        + 2 * (made - 1) < MaxVersion

\* What a dispatcher decides on: status, collector and whether there is a deadline.
Decision(row) == <<row.status, row.collector, row.due = "unset">>
Exists(p)     == p \in 1..made
OpenOnMachine == {p \in 1..made : pickups[p].onMachine /\ pickups[p].status \in PICKUP_OPEN}
Replaced(p)   == \E q \in 1..made : pickups[q].replaces = p
NoCandidate   == [pickup |-> 0, version |-> 0]
Free          == [by |-> NoOne, closed |-> 0]

PickupInit ==
    /\ pickups = [p \in Ids |-> FreshRow(TRUE, 0)] /\ made = 0
    /\ partner = Collectors
    /\ machineFull = FALSE /\ machineLock = Free
    /\ checking = 0
    /\ candidate = [r \in Runners |-> NoCandidate]
    /\ escalations = [p \in Ids |-> 0]

----------------------------------------------------------------------------
(* Rules of lib/pickup.ts.                                                 *)

FieldActions == {"start", "arrive", "collect", "complete", "fail"}

From(action) ==
    CASE action = "start"    -> {"ASSIGNED"}
      [] action = "arrive"   -> {"ON_THE_WAY"}
      [] action = "collect"  -> {"ARRIVED"}
      [] action = "complete" -> {"COLLECTED"}
      [] action = "fail"     -> {"ASSIGNED", "ON_THE_WAY", "ARRIVED", "COLLECTED"}
      [] action = "cancel"   -> {"REQUESTED", "ASSIGNED", "ON_THE_WAY", "ARRIVED"}

To(action) ==
    CASE action = "start"    -> "ON_THE_WAY"
      [] action = "arrive"   -> "ARRIVED"
      [] action = "collect"  -> "COLLECTED"
      [] action = "complete" -> "COMPLETED"
      [] action = "fail"     -> "FAILED"
      [] action = "cancel"   -> "CANCELLED"

\* Role and ownership, then status: a SUPERADMIN passes every ownership test.
resolvePickupTransition(action, actor, row) ==
    /\ \/ actor \in Superadmins
       \/ action \in FieldActions /\ actor \in Collectors /\ row.collector = actor
       \/ action = "cancel" /\ actor \in Admins
    /\ row.status \in From(action)

\* Old collector apps may leave the version out of a forward field action.
requiresExpectedVersion(action, actor) ==
    action \in {"cancel", "fail"} \/ actor \notin Collectors

----------------------------------------------------------------------------
(* Clients.                                                                *)

\* A request with expectedVersion commits only at that version.  Whether the
\* collector's account is active is read afresh: an input of the step.
assignPickup(p, expectedVersion, collector, active, due) ==
    /\ Exists(p) /\ pickups[p].status \in PICKUP_REASSIGNABLE
    /\ pickups[p].version = expectedVersion
    /\ WithinBound
    /\ active /\ collector \in partner
    /\ pickups' = [pickups EXCEPT ![p].collector = collector, ![p].status = "ASSIGNED",
                                  ![p].version = @ + 1, ![p].due = due,
                                  ![p].escalated = FALSE]
    /\ escalations' = [escalations EXCEPT ![p] = 0]
    /\ UNCHANGED <<made, partner, machineFull, machineLock, checking, candidate>>

\* complete also locks the Machine row (first) and resets the machine.
transitionPickup(actor, p, action, expectedVersion) ==
    /\ Exists(p)
    /\ \/ expectedVersion = pickups[p].version
       \/ expectedVersion = NoOne /\ ~requiresExpectedVersion(action, actor)
    /\ resolvePickupTransition(action, actor, pickups[p])
    /\ actor \in Collectors => actor \in partner
    /\ WithinBound
    /\ LET resets == action = "complete" /\ pickups[p].onMachine IN
       /\ resets => machineLock = Free
       /\ machineFull' = (machineFull /\ ~resets)
    /\ pickups' = [pickups EXCEPT ![p].status = To(action), ![p].version = @ + 1]
    /\ escalations' = [escalations EXCEPT ![p] = 0]
    /\ UNCHANGED <<made, partner, machineLock, checking, candidate>>

\* POST /api/pickups/[id]/items under lockPickupForFieldWork.
RecordItem(actor, p) ==
    /\ Exists(p) /\ pickups[p].items = 0
    /\ \/ actor \in Superadmins
       \/ actor \in Collectors \cap partner /\ pickups[p].collector = actor
    /\ pickups[p].status \in RECORDABLE
    /\ pickups' = [pickups EXCEPT ![p].items = 1]
    /\ UNCHANGED <<made, partner, machineFull, machineLock, checking, candidate, escalations>>

Insert(row) == pickups' = [pickups EXCEPT ![made + 1] = row] /\ made' = made + 1

\* POST /api/pickups: outside any transaction, the open task is looked up ...
CheckNoOpenPickup ==
    /\ checking < MaxChecks /\ OpenOnMachine = {}
    /\ checking' = checking + 1
    /\ UNCHANGED <<pickups, made, partner, machineFull, machineLock,
                   candidate, escalations>>

\* ... and the row inserted later; a task without a machine skips the lookup.
CreatePickup(machine) ==
    /\ made < MaxPickups
    /\ machine => checking > 0
    /\ Insert(FreshRow(machine, 0))
    /\ checking' = IF machine THEN checking - 1 ELSE checking
    /\ UNCHANGED <<partner, machineFull, machineLock, candidate, escalations>>

\* createReplacementPickup of a machine's task: Machine, then PickupRequest.
ReplacementReads(actor, p) ==
    /\ Exists(p) /\ pickups[p].onMachine
    /\ machineLock = Free
    /\ ~Replaced(p) /\ pickups[p].status \in PICKUP_REPLACEABLE
    /\ OpenOnMachine = {}
    /\ machineLock' = [by |-> actor, closed |-> p]
    /\ UNCHANGED <<pickups, made, partner, machineFull, checking,
                   candidate, escalations>>

ReplacementCreates(actor) ==
    /\ machineLock.by = actor /\ made < MaxPickups
    /\ Insert(FreshRow(TRUE, machineLock.closed))
    /\ machineLock' = Free
    /\ UNCHANGED <<partner, machineFull, checking, candidate, escalations>>

\* A task without a machine is replaced under its own row lock alone.
ReplaceManualPickup(p) ==
    /\ Exists(p) /\ ~pickups[p].onMachine /\ made < MaxPickups
    /\ ~Replaced(p) /\ pickups[p].status \in PICKUP_REPLACEABLE
    /\ Insert(FreshRow(FALSE, p))
    /\ UNCHANGED <<partner, machineFull, machineLock, checking,
                   candidate, escalations>>

----------------------------------------------------------------------------
(* Machine events, partnerships, accounts and time.                        *)

LatestOnMachine == CHOOSE p \in 0..made :
    /\ p # 0 => pickups[p].onMachine
    /\ \A q \in (p + 1)..made : ~pickups[q].onMachine

\* The task maybeCreateAutoPickup links: the latest one, if closed unfinished.
autoReplaces ==
    LET last == LatestOnMachine IN
    IF last # 0 /\ pickups[last].status \in PICKUP_REPLACEABLE /\ ~Replaced(last)
    THEN last ELSE 0

\* HEARTBEAT, STATUS_CHANGED, FILL_LEVEL_UPDATED of a machine that is not
\* full, or that is full and already has its open task.
MachineReports(full) ==
    /\ machineLock = Free
    /\ full => OpenOnMachine # {}
    /\ machineFull' = full
    /\ UNCHANGED <<pickups, made, partner, machineLock, checking,
                   candidate, escalations>>

\* The result of a remote command, and PATCH /api/machines/[id], write the
\* status alone: no task is created.
StatusWritten(full) ==
    /\ machineLock = Free /\ machineFull' = full
    /\ UNCHANGED <<pickups, made, partner, machineLock, checking,
                   candidate, escalations>>

\* An event of a full machine without one: maybeCreateAutoPickup reads ...
MachineFullReads ==
    /\ machineLock = Free /\ OpenOnMachine = {} /\ made < MaxPickups
    /\ machineLock' = [by |-> "event", closed |-> autoReplaces]
    /\ UNCHANGED <<pickups, made, partner, machineFull, checking,
                   candidate, escalations>>

\* ... and creates; the Machine update of the event commits with it.
MachineFullCreates ==
    /\ machineLock.by = "event" /\ made < MaxPickups
    /\ machineFull' = TRUE
    /\ Insert(FreshRow(TRUE, machineLock.closed))
    /\ machineLock' = Free
    /\ UNCHANGED <<partner, checking, candidate, escalations>>

\* The transaction that holds the Machine row fails and rolls back.
Rollback ==
    /\ machineLock # Free /\ machineLock' = Free
    /\ UNCHANGED <<pickups, made, partner, machineFull, checking,
                   candidate, escalations>>

\* A partnership is suspended, removed or (re)activated: module Partnership.
PartnershipChanges(c) ==
    /\ partner' = IF c \in partner THEN partner \ {c} ELSE partner \cup {c}
    /\ UNCHANGED <<pickups, made, machineFull, machineLock, checking,
                   candidate, escalations>>

DeadlinePasses(p) ==
    /\ pickups[p].due = "ahead" /\ pickups[p].status = "ASSIGNED"
    /\ pickups' = [pickups EXCEPT ![p].due = "passed"]
    /\ UNCHANGED <<made, partner, machineFull, machineLock, checking,
                   candidate, escalations>>

----------------------------------------------------------------------------
(* escalateOverduePickups.                                                 *)

Overdue(row) == row.status = "ASSIGNED" /\ row.due = "passed" /\ ~row.escalated

\* A pass reads the overdue rows, then claims them one by one in transactions
\* of their own; each Runner is one row's way through a pass.
EscalationReads(r, p) ==
    /\ candidate[r] = NoCandidate
    /\ Exists(p) /\ Overdue(pickups[p])
    /\ candidate' = [candidate EXCEPT ![r] = [pickup |-> p, version |-> pickups[p].version]]
    /\ UNCHANGED <<pickups, made, partner, machineFull, machineLock, checking, escalations>>

\* Mutant: the claim does not ask whether an alert went out already.
ClaimableByVersion(c) == pickups[c.pickup].version = c.version

\* The conditional update on the version read and lastEscalatedAt IS NULL.
Claimable(c) == pickups[c.pickup].version = c.version /\ Overdue(pickups[c.pickup])

EscalationClaims(r) ==
    /\ candidate[r] # NoCandidate
    /\ candidate' = [candidate EXCEPT ![r] = NoCandidate]
    /\ LET c == candidate[r] IN
       IF Claimable(c)
       THEN /\ pickups' = [pickups EXCEPT ![c.pickup].escalated = TRUE]
            /\ escalations' = [escalations EXCEPT ![c.pickup] = @ + 1]
       ELSE UNCHANGED <<pickups, escalations>>
    /\ UNCHANGED <<made, partner, machineFull, machineLock, checking>>

----------------------------------------------------------------------------
PickupNext ==
    \/ \E p \in Ids :
         \/ \E actor \in Clients :
              \/ \E action \in FieldActions \cup {"cancel"} :
                   \E v \in {pickups[p].version, NoOne} : transitionPickup(actor, p, action, v)
              \/ RecordItem(actor, p)
         \/ \E c \in Collectors, due \in {"unset", "ahead"}, v \in 0..MaxVersion, active \in BOOLEAN :
              assignPickup(p, v, c, active, due)
         \/ ReplaceManualPickup(p) \/ DeadlinePasses(p)
    \/ \E actor \in Dispatchers :
         \/ \E p \in Ids : ReplacementReads(actor, p)
         \/ ReplacementCreates(actor)
    \/ CheckNoOpenPickup
    \/ \E machine \in BOOLEAN : CreatePickup(machine)
    \/ \E full \in BOOLEAN : MachineReports(full) \/ StatusWritten(full)
    \/ MachineFullReads \/ MachineFullCreates \/ Rollback
    \/ \E c \in Collectors : PartnershipChanges(c)
    \/ \E r \in Runners :
         (\E p \in Ids : EscalationReads(r, p)) \/ EscalationClaims(r)

PickupSpec == PickupInit /\ [][PickupNext]_pickupVars

----------------------------------------------------------------------------
(* Properties.                                                             *)

\* "alerts the organization's active admins once per (pickup, version)":
\* passes that overlap, and a pass that overlaps a new dispatch, included.
EscalatedOncePerVersion == \A p \in Ids : escalations[p] <= 1

\* "one replacement per closed task": the automatic request and the admin's
\* replacement never link one task twice (which the unique index would turn
\* into a failed event), and only a task closed unfinished is replaced.
ReplacedOnce ==
    /\ \A p, q \in 1..made : p # q /\ pickups[p].replaces # 0 => pickups[p].replaces # pickups[q].replaces
    /\ \A p \in 1..made : pickups[p].replaces # 0 =>
         pickups[pickups[p].replaces].status \in PICKUP_REPLACEABLE
    /\ machineLock.closed # 0 => ~Replaced(machineLock.closed)

\* "A newer task is never replaced from an old snapshot": a version never
\* comes to stand for another decision, however the decision is changed, so a
\* request that passes the version test decides on what its sender saw; and
\* each version is escalated once, each closed task replaced once.
PickupDecidedOnce ==
    [][/\ \A p \in Ids : made >= p /\ Decision(pickups'[p]) # Decision(pickups[p])
             => pickups'[p].version > pickups[p].version
       /\ EscalatedOncePerVersion'
       /\ ReplacedOnce']_pickupVars
=============================================================================
