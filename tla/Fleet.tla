------------------------------- MODULE Fleet -------------------------------
(***************************************************************************)
(* Waste types and the machines that take them: POST /api/waste-types,     *)
(* PATCH and DELETE /api/waste-types/[id], POST /api/machines, PATCH and   *)
(* DELETE /api/machines/[id], and the forms of WasteTypeManager and        *)
(* MachineForm.  A machine's form starts from the links it was loaded with *)
(* and a save replaces them all, in one transaction.  Both DELETEs count   *)
(* what uses the row and then act on it in statements of their own; a      *)
(* machine loses its links in the one before its row.  The foreign keys    *)
(* keep a waste type that a link, an item or a rate names, and a machine   *)
(* that a session or an event names.                                       *)
(***************************************************************************)
CONSTANTS
    WasteTypes,
    FleetMachines,
    FleetDesks,     \* operators' pages, each with one form or one DELETE at a time
    NoRow

ASSUME FleetAssumption == NoRow \notin WasteTypes \cup FleetMachines

VARIABLES
    wasteType,      \* per waste type: "unborn", "active", "inactive" or "deleted"
    named,          \* waste types that an item names, and that a rate names
    machineRow,     \* per machine: "unborn", "there" or "deleted"
    links,          \* MachineWasteType rows of each machine
    requested,      \* the links its last save asked for
    recorded,       \* machines with a session or an event
    desk,           \* per page: the form, or what DELETE has counted
    interrupted     \* machines whose DELETE was cut short between its statements

fleetVars == <<wasteType, named, machineRow, links, requested, recorded, desk, interrupted>>

NoDesk == [at |-> "idle", row |-> NoRow, chosen |-> {}]
Kept == {w \in WasteTypes : wasteType[w] \in {"active", "inactive"}}
Linking(w) == {m \in FleetMachines : w \in links[m]}

FleetInit ==
    /\ wasteType = [w \in WasteTypes |-> "unborn"] /\ named = {}
    /\ machineRow = [m \in FleetMachines |-> "unborn"]
    /\ links = [m \in FleetMachines |-> {}] /\ requested = links
    /\ recorded = {} /\ interrupted = {}
    /\ desk = [d \in FleetDesks |-> NoDesk]

CreateWasteType(w) ==
    /\ wasteType[w] = "unborn" /\ wasteType' = [wasteType EXCEPT ![w] = "active"]
    /\ UNCHANGED <<named, machineRow, links, requested, recorded, desk, interrupted>>

\* PATCH /api/waste-types/[id] from the page's toggle.
ToggleActive(w) ==
    /\ w \in Kept
    /\ wasteType' = [wasteType EXCEPT ![w] = IF @ = "active" THEN "inactive" ELSE "active"]
    /\ UNCHANGED <<named, machineRow, links, requested, recorded, desk, interrupted>>

\* DELETE /api/waste-types/[id] counts items and links; a rate is not counted.
CountUses(d, w) ==
    /\ desk[d].at = "idle" /\ w \in Kept
    /\ desk' = [desk EXCEPT ![d] =
         [NoDesk EXCEPT !.at = IF <<"item", w>> \in named \/ Linking(w) # {} THEN "retire" ELSE "type",
                        !.row = w]]
    /\ UNCHANGED <<wasteType, named, machineRow, links, requested, recorded, interrupted>>

RetireWasteType(d) ==
    LET w == desk[d].row IN
    /\ desk[d].at = "retire"
    /\ wasteType' = IF w \in Kept THEN [wasteType EXCEPT ![w] = "inactive"] ELSE wasteType
    /\ desk' = [desk EXCEPT ![d] = NoDesk]
    /\ UNCHANGED <<named, machineRow, links, requested, recorded, interrupted>>

DeleteWasteType(d) ==
    LET w == desk[d].row IN
    /\ desk[d].at = "type"
    /\ wasteType' = IF w \in Kept /\ Linking(w) = {} /\ {<<"item", w>>, <<"rate", w>>} \cap named = {}
                    THEN [wasteType EXCEPT ![w] = "deleted"] ELSE wasteType
    /\ desk' = [desk EXCEPT ![d] = NoDesk]
    /\ UNCHANGED <<named, machineRow, links, requested, recorded, interrupted>>

\* An item of a session is stored, or a rate set, for the waste type.
NameType(by, w) ==
    /\ w \in Kept /\ (by = "item" => recorded # {}) /\ named' = named \cup {<<by, w>>}
    /\ UNCHANGED <<wasteType, machineRow, links, requested, recorded, desk, interrupted>>

\* The form of a new machine starts without links, of an existing one with
\* the links the page was loaded with.
OpenMachineForm(d, m) ==
    /\ desk[d].at = "idle" /\ machineRow[m] # "deleted"
    /\ desk' = [desk EXCEPT ![d] = [at |-> IF machineRow[m] = "unborn" THEN "new" ELSE "edit",
                                      row |-> m, chosen |-> links[m]]]
    /\ UNCHANGED <<wasteType, named, machineRow, links, requested, recorded, interrupted>>

toggleWaste(d, w) ==
    /\ desk[d].at \in {"new", "edit"} /\ wasteType[w] # "unborn"
    /\ desk' = [desk EXCEPT ![d].chosen = IF w \in @ THEN @ \ {w} ELSE @ \cup {w}]
    /\ UNCHANGED <<wasteType, named, machineRow, links, requested, recorded, interrupted>>

CloseMachineForm(d) ==
    /\ desk[d].at \in {"new", "edit"} /\ desk' = [desk EXCEPT ![d] = NoDesk]
    /\ UNCHANGED <<wasteType, named, machineRow, links, requested, recorded, interrupted>>

\* Mutant: the links asked for are added to those there.
LinksAdded(m, S) == [links EXCEPT ![m] = @ \cup S]

\* The links of the machine are removed and those asked for created, as one.
LinksReplaced(m, S) == [links EXCEPT ![m] = S]

\* POST creates the machine with its links; PATCH replaces the links of the
\* machine.  Either is refused whole when a chosen type is gone, or the machine.
SaveMachine(d) ==
    LET m == desk[d].row
        S == desk[d].chosen IN
    /\ \/ desk[d].at = "new" /\ machineRow[m] = "unborn"
       \/ desk[d].at = "edit" /\ machineRow[m] = "there"
    /\ S \subseteq Kept
    /\ machineRow' = [machineRow EXCEPT ![m] = "there"]
    /\ links' = LinksReplaced(m, S) /\ requested' = [requested EXCEPT ![m] = S]
    /\ interrupted' = interrupted \ {m}
    /\ desk' = [desk EXCEPT ![d] = NoDesk]
    /\ UNCHANGED <<wasteType, named, recorded>>

\* A session is admitted, or an event of the machine stored.
RecordAt(m) ==
    /\ machineRow[m] = "there" /\ recorded' = recorded \cup {m}
    /\ UNCHANGED <<wasteType, named, machineRow, links, requested, desk, interrupted>>

\* DELETE /api/machines/[id] of a machine without history.
CountHistory(d, m) ==
    /\ desk[d].at = "idle" /\ machineRow[m] = "there" /\ m \notin recorded
    /\ desk' = [desk EXCEPT ![d] = [NoDesk EXCEPT !.at = "links", !.row = m]]
    /\ UNCHANGED <<wasteType, named, machineRow, links, requested, recorded, interrupted>>

RemoveLinks(d) ==
    /\ desk[d].at = "links"
    /\ links' = [links EXCEPT ![desk[d].row] = {}]
    /\ desk' = [desk EXCEPT ![d].at = "machine"]
    /\ UNCHANGED <<wasteType, named, machineRow, requested, recorded, interrupted>>

DeleteMachine(d) ==
    LET m == desk[d].row IN
    /\ desk[d].at = "machine"
    /\ IF machineRow[m] = "there" /\ m \notin recorded
       THEN machineRow' = [machineRow EXCEPT ![m] = "deleted"] /\ links' = [links EXCEPT ![m] = {}]
       ELSE UNCHANGED <<machineRow, links>>
    /\ desk' = [desk EXCEPT ![d] = NoDesk]
    /\ UNCHANGED <<wasteType, named, requested, recorded, interrupted>>

\* The server stops, or the connection fails, between two statements.
DeskInterrupted(d) ==
    /\ desk[d].at \notin {"idle", "new", "edit"} /\ desk' = [desk EXCEPT ![d] = NoDesk]
    /\ interrupted' = IF desk[d].at = "machine" THEN interrupted \cup {desk[d].row} ELSE interrupted
    /\ UNCHANGED <<wasteType, named, machineRow, links, requested, recorded>>

FleetNext ==
    \/ \E w \in WasteTypes : \/ CreateWasteType(w) \/ ToggleActive(w)
                             \/ \E by \in {"item", "rate"} : NameType(by, w)
    \/ \E d \in FleetDesks, w \in WasteTypes : CountUses(d, w) \/ toggleWaste(d, w)
    \/ \E d \in FleetDesks, m \in FleetMachines : OpenMachineForm(d, m) \/ CountHistory(d, m)
    \/ \E d \in FleetDesks :
         \/ RetireWasteType(d) \/ DeleteWasteType(d)
         \/ CloseMachineForm(d) \/ SaveMachine(d)
         \/ RemoveLinks(d) \/ DeleteMachine(d) \/ DeskInterrupted(d)
    \/ \E m \in FleetMachines : RecordAt(m)

FleetSpec == FleetInit /\ [][FleetNext]_fleetVars

----------------------------------------------------------------------------
(* Properties.                                                             *)

\* A machine takes exactly the waste types one save asked for, never a mix of
\* two, unless a deletion removed its links: then the deletion is about to
\* remove the machine, was interrupted, or was overtaken by the machine's first
\* session or event.
LinksAsAsked ==
    \A m \in FleetMachines :
        machineRow[m] = "there" /\ links[m] # requested[m] =>
            \/ m \in interrupted \cup recorded
            \/ \E d \in FleetDesks : desk[d].at = "machine" /\ desk[d].row = m

\* What machines are linked to, items were stored as and rates were set for
\* remains; a machine with a session or an event remains too.
HistoryKept ==
    /\ \A m \in FleetMachines : links[m] \subseteq Kept /\ (m \in recorded => machineRow[m] = "there")
    /\ \A x \in named : x[2] \in Kept

FleetHolds == LinksAsAsked /\ HistoryKept
=============================================================================
