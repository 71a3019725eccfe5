----------------------------- MODULE Partnership -----------------------------
(***************************************************************************)
(* The partnership of an organization and a collector: lib/partnership.ts, *)
(* POST /api/partnerships and PATCH /api/partnerships/[id].  Both handlers *)
(* read the row, decide on what they read and update the row by its id, in *)
(* no transaction: each is two steps, and several are in progress.         *)
(***************************************************************************)
EXTENDS Naturals, FiniteSets

CONSTANTS
    PartnerRequests \* requests in progress at a time

ASSUME PartnershipAssumption == IsFiniteSet(PartnerRequests)

VARIABLES
    partnership,    \* the row: status and approvedBySuperadminId (set or not)
    deciding,       \* what each request will write
    everApproved    \* some request has written an approval

partnershipVars == <<partnership, deciding, everApproved>>

PartnerStatus == {"none", "INVITED", "REQUESTED", "PENDING_SUPERADMIN_APPROVAL",
                  "ACTIVE", "SUSPENDED", "REJECTED", "REMOVED"}
PartnerRoles  == {"ADMIN", "PENGEPUL", "SUPERADMIN"}
Undecided     == [writes |-> "none", opens |-> FALSE, creates |-> FALSE, approves |-> FALSE]

PartnershipInit ==
    /\ partnership = [status |-> "none", approved |-> FALSE]
    /\ deciding = [q \in PartnerRequests |-> Undecided] /\ everApproved = FALSE

Rule(action, from, to, roles) == [action |-> action, from |-> from, to |-> to, roles |-> roles]

RULES == {
    Rule("accept", {"INVITED"}, "PENDING_SUPERADMIN_APPROVAL", {"PENGEPUL"}),
    Rule("accept", {"REQUESTED"}, "PENDING_SUPERADMIN_APPROVAL", {"ADMIN"}),
    Rule("decline", {"INVITED"}, "REJECTED", {"PENGEPUL"}),
    Rule("decline", {"REQUESTED"}, "REJECTED", {"ADMIN"}),
    Rule("approve", {"PENDING_SUPERADMIN_APPROVAL"}, "ACTIVE", {"SUPERADMIN"}),
    Rule("reject", {"PENDING_SUPERADMIN_APPROVAL"}, "REJECTED", {"SUPERADMIN"}),
    Rule("suspend", {"ACTIVE"}, "SUSPENDED", {"ADMIN", "SUPERADMIN"}),
    Rule("reactivate", {"SUSPENDED"}, "ACTIVE", {"ADMIN", "SUPERADMIN"}),
    Rule("remove", PartnerStatus \ {"none", "REMOVED"}, "REMOVED", {"ADMIN", "SUPERADMIN"})}

\* POST: an admin invites, a collector requests; a closed row is opened again.
OpenReads(q, role) ==
    /\ deciding[q] = Undecided
    /\ partnership.status \in {"none", "REMOVED", "REJECTED"}
    /\ \E status \in {"INVITED", "REQUESTED"} :
         /\ role = (IF status = "INVITED" THEN "ADMIN" ELSE "PENGEPUL")
         /\ deciding' = [deciding EXCEPT ![q] = [Undecided EXCEPT !.writes = status, !.opens = TRUE,
                                                 !.creates = partnership.status = "none"]]
    /\ UNCHANGED <<partnership, everApproved>>

\* PATCH: resolvePartnershipTransition on the row that was read.
PatchDecides(q, role, rule) ==
    /\ deciding[q] = Undecided
    /\ partnership.status \in rule.from /\ role \in rule.roles
    /\ deciding' = [deciding EXCEPT ![q] =
         [Undecided EXCEPT !.writes = rule.to, !.approves = rule.action = "approve"]]
    /\ UNCHANGED <<partnership, everApproved>>

\* The update names the row alone; opening forgets who approved it before.  A
\* second row for the pair violates the unique index.
DecisionWrites(q) ==
    /\ deciding[q] # Undecided
    /\ deciding' = [deciding EXCEPT ![q] = Undecided]
    /\ LET d == deciding[q] IN
       IF d.creates /\ partnership.status # "none"
       THEN UNCHANGED <<partnership, everApproved>>
       ELSE /\ partnership' = [status   |-> d.writes,
                               approved |-> (partnership.approved /\ ~d.opens) \/ d.approves]
            /\ everApproved' = (everApproved \/ d.approves)

PartnershipNext ==
    \E q \in PartnerRequests :
        \/ \E role \in PartnerRoles : OpenReads(q, role)
        \/ \E role \in PartnerRoles, rule \in RULES : PatchDecides(q, role, rule)
        \/ DecisionWrites(q)

PartnershipSpec == PartnershipInit /\ [][PartnershipNext]_partnershipVars

----------------------------------------------------------------------------
(* Properties.                                                             *)

\* A collector works for an organization only after a superadmin has approved
\* the pair at least once, whichever requests overtake each other.
NeverActiveUnapproved == partnership.status \in {"ACTIVE", "SUSPENDED"} => everApproved

=============================================================================
