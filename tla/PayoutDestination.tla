------------------------- MODULE PayoutDestination -------------------------
(***************************************************************************)
(* Where a payout is sent: lib/payout-destination.ts, the destination part *)
(* of lib/wallet-service.ts and of the erasure, the payout-accounts routes *)
(* and the lists that show a destination to its owner or an operator.      *)
(*                                                                         *)
(* One user with one payout account.  What runs under the User lock is one *)
(* step.  The account routes authenticate and load the account before they *)
(* write it, and a list reads the requests before it reads their accounts. *)
(* Balances and reserves are module Wallet's subject.  Legacy requests,    *)
(* made before destinations were recorded, do occur here.                  *)
(*                                                                         *)
(* A destination is its number, set or not, and its name, 0 for null; the  *)
(* number of an account never changes, and encryption is left out.         *)
(***************************************************************************)
EXTENDS Naturals

CONSTANTS
    PayoutRequests,     \* Redemption rows
    LegacyPayouts,      \* those from before the migration
    MaxNames            \* account names, 1..MaxNames

ASSUME PayoutAssumption == LegacyPayouts \subseteq PayoutRequests /\ MaxNames \in Nat

VARIABLES
    payoutAccount,      \* PayoutAccount: status ("absent": no row), destination
    payout,             \* per request: status, source, destination, linked to the account
    payoutErased,       \* the owner's account is anonymized
    editingAccount,     \* a request of the owner between its read and its write
    listing             \* a list of requests: what it read and what it shows

payoutVars == <<payoutAccount, payout, payoutErased, editingAccount, listing>>

NoDestination == [set |-> FALSE, name |-> 0]
Unrecorded == "null"
OpenPayout == {"REQUESTED", "APPROVED", "PROCESSING"}

NotEditing == [writes |-> "nothing", status |-> "kept", name |-> 0]
NotListing == [of |-> "none", read |-> "none", afterErasure |-> FALSE,
               source |-> "none", shows |-> NoDestination]

\* A legacy request has no destination, and its account may be unknown.
PayoutInit ==
    /\ payoutAccount \in {[status |-> "absent", to |-> NoDestination],
                          [status |-> "UNVERIFIED", to |-> [set |-> TRUE, name |-> 0]]}
    /\ \E before \in [LegacyPayouts -> OpenPayout \cup {"FAILED"}], linked \in [LegacyPayouts -> BOOLEAN] :
         /\ \A p \in LegacyPayouts : linked[p] => payoutAccount.status # "absent"
         /\ payout = [p \in PayoutRequests |->
                        [status |-> IF p \in LegacyPayouts THEN before[p] ELSE "none",
                         source |-> Unrecorded, to |-> NoDestination,
                         linked |-> p \in LegacyPayouts /\ linked[p]]]
    /\ payoutErased = FALSE /\ editingAccount = NotEditing /\ listing = NotListing

-----------------------------------------------------------------------------
(* The owner's account.                                                     *)

\* POST /api/payout-accounts and PATCH or DELETE of one, authenticated, and
\* for the latter the account loaded; then the write.
AccountLoaded(status, name) ==
    /\ editingAccount = NotEditing /\ ~payoutErased
    /\ editingAccount' = [writes |-> IF payoutAccount.status = "absent" THEN "create" ELSE "update",
                          status |-> status, name |-> name]
    /\ UNCHANGED <<payoutAccount, payout, payoutErased, listing>>

AccountCreated ==
    /\ editingAccount.writes = "create"
    /\ payoutAccount' = [status |-> "UNVERIFIED", to |-> [set |-> TRUE, name |-> editingAccount.name]]
    /\ editingAccount' = NotEditing
    /\ UNCHANGED <<payout, payoutErased, listing>>

\* The update is by id alone and writes the given columns only.
AccountUpdated ==
    /\ editingAccount.writes = "update"
    /\ payoutAccount' =
         [status |-> IF editingAccount.status = "kept" THEN payoutAccount.status ELSE editingAccount.status,
          to |-> IF editingAccount.name = 0 THEN payoutAccount.to
                 ELSE [payoutAccount.to EXCEPT !.name = editingAccount.name]]
    /\ editingAccount' = NotEditing
    /\ UNCHANGED <<payout, payoutErased, listing>>

-----------------------------------------------------------------------------
(* Recording a destination.                                                 *)

destinationSnapshotData(row, source) == [row EXCEPT !.source = source, !.to = payoutAccount.to]
unavailableDestinationData(row) == [row EXCEPT !.source = "LEGACY_UNAVAILABLE", !.to = NoDestination]

\* The account of a legacy request has a number to record.
AccountKnown(row) == row.linked /\ payoutAccount.to.set

\* What a change under the locks writes beside the status.
destinationForChange(row) ==
    IF row.source # Unrecorded THEN row
    ELSE IF AccountKnown(row) THEN destinationSnapshotData(row, "LEGACY_ACCOUNT_FALLBACK")
    ELSE unavailableDestinationData(row)

\* An erased user has nothing left to request (module Wallet).
RequestPayout(p) ==
    /\ payout[p].status = "none" /\ ~payoutErased
    /\ payoutAccount.status \notin {"absent", "DISABLED"}
    /\ payout' = [payout EXCEPT ![p] =
                    destinationSnapshotData([@ EXCEPT !.status = "REQUESTED", !.linked = TRUE],
                                            "REQUEST_SNAPSHOT")]
    /\ UNCHANGED <<payoutAccount, payoutErased, editingAccount, listing>>

Rules == {[from |-> {"REQUESTED"}, to |-> "APPROVED", destination |-> "none"],
          [from |-> {"APPROVED"}, to |-> "PROCESSING", destination |-> "required"],
          [from |-> {"PROCESSING"}, to |-> "SUCCESS", destination |-> "record"],
          [from |-> OpenPayout, to |-> "FAILED", destination |-> "none"],
          [from |-> {"REQUESTED"}, to |-> "REVERSED", destination |-> "none"]}

\* "required" refuses a legacy request whose account is gone, unless that was
\* recorded before.
MovePayout(p, rule) ==
    LET row == payout[p] IN
    /\ row.status \in rule.from
    /\ rule.destination = "required" => row.source # Unrecorded \/ AccountKnown(row)
    /\ payout' = [payout EXCEPT ![p] =
                    [(IF rule.destination = "none" THEN row ELSE destinationForChange(row))
                     EXCEPT !.status = rule.to]]
    /\ UNCHANGED <<payoutAccount, payoutErased, editingAccount, listing>>

ProofAttached(p) ==
    /\ payout[p].status \in OpenPayout
    /\ payout' = [payout EXCEPT ![p] = destinationForChange(@)]
    /\ UNCHANGED <<payoutAccount, payoutErased, editingAccount, listing>>

-----------------------------------------------------------------------------
(* Erasure and lists.                                                       *)

\* The anonymizing transaction, once every request is settled.
ErasePayouts ==
    /\ ~payoutErased /\ \A p \in PayoutRequests : payout[p].status \notin OpenPayout
    /\ payoutErased' = TRUE
    /\ payoutAccount' = IF payoutAccount.status = "absent" THEN payoutAccount
                        ELSE [status |-> "DISABLED", to |-> NoDestination]
    /\ payout' = [p \in PayoutRequests |-> [payout[p] EXCEPT !.to = NoDestination]]
    /\ UNCHANGED <<editingAccount, listing>>

\* Mutant: an erased account is shown like any other.
DescribeAnyAccount(row) ==
    IF row.source # Unrecorded THEN row.to
    ELSE IF row.linked THEN payoutAccount.to
    ELSE NoDestination

\* An erased account keeps no number, so it shows none, and no name either.
describePayoutDestination(row) ==
    IF row.source # Unrecorded THEN row.to
    ELSE IF row.linked /\ payoutAccount.to.set THEN payoutAccount.to
    ELSE NoDestination

\* GET /api/redemptions, the operators' page, the owner's export.
ListReads(p) ==
    /\ listing = NotListing /\ payout[p].status # "none"
    /\ listing' = [NotListing EXCEPT !.of = p, !.read = payout[p], !.afterErasure = payoutErased]
    /\ UNCHANGED <<payoutAccount, payout, payoutErased, editingAccount>>

ListShows ==
    /\ listing # NotListing /\ listing.source = "none"
    /\ listing' = [listing EXCEPT !.source = listing.read.source,
                                  !.shows = describePayoutDestination(listing.read)]
    /\ UNCHANGED <<payoutAccount, payout, payoutErased, editingAccount>>

ListEnds ==
    /\ listing.source # "none"
    /\ listing' = NotListing
    /\ UNCHANGED <<payoutAccount, payout, payoutErased, editingAccount>>

PayoutNext ==
    \/ \E status \in {"kept", "UNVERIFIED", "DISABLED"}, name \in 0..MaxNames : AccountLoaded(status, name)
    \/ AccountCreated \/ AccountUpdated
    \/ \E p \in PayoutRequests : RequestPayout(p) \/ ProofAttached(p) \/ ListReads(p)
    \/ \E p \in PayoutRequests, rule \in Rules : MovePayout(p, rule)
    \/ ErasePayouts \/ ListShows \/ ListEnds

PayoutSpec == PayoutInit /\ [][PayoutNext]_payoutVars

-----------------------------------------------------------------------------
(* Properties.                                                              *)

\* What a list shows of a recorded destination is still the recorded one when
\* it is shown, unless the owner was erased meanwhile; a list begun after the
\* erasure shows nothing, whatever was written to the account since.
ShownAsRecorded ==
    listing.source # "none" =>
        /\ listing.source # Unrecorded =>
             payoutErased \/ listing.shows = payout[listing.of].to
        /\ listing.afterErasure => listing.shows = NoDestination

\* "later account edits never redirect this payout" (requestRedemption): a
\* destination once recorded stays until the erasure of a settled request,
\* however edits of the account, operators, proofs, lists and the erasure
\* interleave; money is under way only to a recorded destination, and none is
\* shown other than recorded, nor after the erasure (lib/payout-destination.ts).
DestinationStands ==
    [][/\ \A p \in PayoutRequests :
            /\ payout[p].source # Unrecorded =>
                 /\ payout'[p].source = payout[p].source
                 /\ payout'[p].to = payout[p].to \/ (payoutErased' /\ payout[p].status \notin OpenPayout)
            /\ payout'[p].status = "PROCESSING" /\ payout[p].status # "PROCESSING" =>
                 payout'[p].source # Unrecorded
       /\ ShownAsRecorded']_payoutVars
=============================================================================
