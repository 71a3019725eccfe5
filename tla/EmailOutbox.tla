---------------------------- MODULE EmailOutbox -----------------------------
(***************************************************************************)
(* Mails that prove a mailbox: lib/email-outbox.ts with its runner script, *)
(* lib/invitations.ts and the routes that queue, use or undo such a proof. *)
(*                                                                         *)
(* One account and one invitation of the address Invited.  A transaction   *)
(* under the User lock is one step; a delivery is one step per database    *)
(* call or network call, and its process may die between any two of them.  *)
(* A token is what the properties tell apart: whether its hash is still    *)
(* the stored one (fresh) and how far the link with it got.  Time is an    *)
(* input: a backoff or a lease may have passed whenever a row is claimed.  *)
(***************************************************************************)
EXTENDS Naturals, FiniteSets

CONSTANTS
    Senders,            \* after() of a request, or the runner script
    Addresses, Invited, \* the account's possible addresses; the invited one
    OUTBOX_MAX_ATTEMPTS,
    MaxRows,            \* bound: EmailOutbox rows ever queued
    MaxCrashes,         \* bound: senders that die
    MaxChanges          \* bound: e-mail changes and link updates of the admin

ASSUME OutboxAssumption ==
    /\ Invited \in Addresses /\ IsFiniteSet(Senders)
    /\ {OUTBOX_MAX_ATTEMPTS, MaxRows} \subseteq Nat \ {0} /\ {MaxCrashes, MaxChanges} \subseteq Nat

VARIABLES
    rows,       \* EmailOutbox rows
    queuedMail, \* how many exist
    sender,     \* what each sender has in memory
    account,    \* User.email, emailVerifiedAt
    verifyLink, \* the unconsumed EmailVerificationToken
    invite,     \* TravelAgentInvite: its token and acceptedAt
    agentLink,  \* TravelAgentOrganization.status
    member,     \* TravelAgentUser.verifiedAt is set
    patching,   \* link update of an admin between its read and its write
    proof,      \* address whose mail was used since the address last changed
    gone,       \* rows a mail has left for
    crashes, changes

outboxVars == <<rows, queuedMail, sender, account, verifyLink, invite, agentLink,
                member, patching, proof, gone, crashes, changes>>

RowIds  == 1..MaxRows
MailKinds == {"invite", "verification"}
OPEN    == {"PENDING", "SENDING"}
SETTLED == {"SENT", "CANCELLED", "FAILED"}
LINKS   == {"none", "minted", "out"}
NoLink  == [token |-> "none", address |-> Invited]
Asleep  == [phase |-> "idle", row |-> 0, attempts |-> 0, fresh |-> FALSE]
NoPatch == "none"

\* Attempts stop counting where the comparison with the maximum is decided.
CountedTo == OUTBOX_MAX_ATTEMPTS

OutboxInit ==
    /\ rows = [r \in RowIds |-> [kind |-> "invite", status |-> "absent", attempts |-> 0,
                                 snapshot |-> Invited]]
    /\ queuedMail = 0 /\ sender = [s \in Senders |-> Asleep]
    /\ \E a \in Addresses : account = [email |-> a, verified |-> FALSE]
    /\ verifyLink = NoLink
    /\ invite = [token |-> "none", open |-> FALSE] /\ agentLink = "none"
    /\ member = FALSE /\ patching = NoPatch /\ proof = "none"
    /\ gone = {} /\ crashes = 0 /\ changes = 0

----------------------------------------------------------------------------
(* What queues a mail.                                                     *)

enqueue(kind, snapshot) ==
    /\ queuedMail < MaxRows /\ queuedMail' = queuedMail + 1
    /\ rows' = [rows EXCEPT ![queuedMail + 1] =
         [kind |-> kind, status |-> "PENDING", attempts |-> 0, snapshot |-> snapshot]]

\* Registration, or POST verify-email/resend under the User lock.
queueEmailVerification ==
    /\ ~account.verified
    /\ enqueue("verification", account.email)
    /\ UNCHANGED <<sender, account, verifyLink, invite, agentLink, member, patching,
                   proof, gone, crashes, changes>>

\* An open invitation is reused, so its next delivery replaces the token.
issueTravelAgentInvite ==
    /\ enqueue("invite", Invited)
    /\ invite' = IF invite.open THEN invite ELSE [token |-> "none", open |-> TRUE]

\* POST travel-agents: a suspended or removed agent waits for the acceptance.
InviteAgent ==
    /\ issueTravelAgentInvite
    /\ agentLink' = IF agentLink = "INVITED" THEN "INVITED" ELSE "PENDING"
    /\ UNCHANGED <<sender, account, verifyLink, member, patching, proof, gone, crashes, changes>>

\* POST travel-agents/[id]/invitations leaves the link alone.
ResendInvite ==
    /\ agentLink \in {"PENDING", "INVITED"}
    /\ issueTravelAgentInvite
    /\ UNCHANGED <<sender, account, verifyLink, agentLink, member, patching, proof, gone,
                   crashes, changes>>

\* PATCH auth/me: the new address is unproven, and no link sent before works.
clearMailboxProof ==
    /\ member' = FALSE /\ verifyLink' = NoLink
    /\ sender' = [s \in Senders |->
         IF sender[s].row # 0 /\ rows[sender[s].row].kind = "verification"
         THEN [sender[s] EXCEPT !.fresh = FALSE] ELSE sender[s]]

ChangeEmail(address) ==
    /\ changes < MaxChanges /\ changes' = changes + 1
    /\ address # account.email
    /\ account' = [email |-> address, verified |-> FALSE] /\ proof' = "none"
    /\ clearMailboxProof
    /\ enqueue("verification", address)
    /\ UNCHANGED <<invite, agentLink, patching, gone, crashes>>

\* PATCH travel-agents/[id] decides on the status it read ...
PatchReads(target) ==
    /\ changes < MaxChanges /\ changes' = changes + 1
    /\ patching = NoPatch /\ agentLink # "none"
    /\ agentLink = "PENDING" => target = "REMOVED"
    /\ patching' = target
    /\ UNCHANGED <<rows, queuedMail, sender, account, verifyLink, invite, agentLink,
                   member, proof, gone, crashes>>

\* ... and writes whatever the status is by then.
PatchWrites ==
    /\ patching # NoPatch /\ patching' = NoPatch
    /\ agentLink' = patching
    /\ UNCHANGED <<rows, queuedMail, sender, account, verifyLink, invite, member,
                   proof, gone, crashes, changes>>

----------------------------------------------------------------------------
(* deliverEmailOutbox.                                                     *)

\* Mutant: a row whose sender died is not claimed again.
ClaimPending(s, r) ==
    /\ sender[s] = Asleep
    /\ rows[r].status = "PENDING"
    /\ rows' = [rows EXCEPT ![r].status = "SENDING"]
    /\ sender' = [sender EXCEPT ![s] = [phase |-> "claimed", row |-> r, attempts |-> 1, fresh |-> FALSE]]
    /\ UNCHANGED <<queuedMail, account, verifyLink, invite, agentLink, member, patching,
                   proof, gone, crashes, changes>>

\* The claim is a compare-and-set on a row that is due, or whose lease ran out.
Claim(s, r) ==
    /\ sender[s] = Asleep
    /\ rows[r].status \in OPEN
    /\ LET n == IF rows[r].attempts < CountedTo THEN rows[r].attempts + 1 ELSE CountedTo IN
       /\ rows' = [rows EXCEPT ![r].status = "SENDING", ![r].attempts = n]
       /\ sender' = [sender EXCEPT ![s] = [phase |-> "claimed", row |-> r, attempts |-> n, fresh |-> FALSE]]
    /\ UNCHANGED <<queuedMail, account, verifyLink, invite, agentLink, member, patching,
                   proof, gone, crashes, changes>>

\* Whoever else holds a token of this kind now holds a replaced one.
Mints(s) ==
    sender' = [t \in Senders |->
        IF t = s THEN [sender[s] EXCEPT !.phase = "minted", !.fresh = TRUE]
        ELSE IF sender[t].row # 0 /\ rows[sender[t].row].kind = rows[sender[s].row].kind
             THEN [sender[t] EXCEPT !.fresh = FALSE] ELSE sender[t]]

Cancels(s) == sender' = [sender EXCEPT ![s].phase = "cancel"] /\ UNCHANGED <<verifyLink, invite>>

\* Whether agent and organization are ACTIVE is read afresh: an input.
prepareInvite(s, active) ==
    IF invite.open /\ agentLink \in {"PENDING", "INVITED"} /\ active
    THEN /\ Mints(s)
         /\ invite' = [invite EXCEPT !.token = "minted"]
         /\ UNCHANGED verifyLink
    ELSE Cancels(s)

prepareVerification(s, active) ==
    IF active /\ rows[sender[s].row].snapshot = account.email /\ ~account.verified
    THEN /\ Mints(s)
         /\ verifyLink' = [token |-> "minted", address |-> account.email]
         /\ UNCHANGED invite
    ELSE Cancels(s)

Prepare(s, active) ==
    /\ sender[s].phase = "claimed"
    /\ IF rows[sender[s].row].kind = "invite"
       THEN prepareInvite(s, active) ELSE prepareVerification(s, active)
    /\ UNCHANGED <<rows, queuedMail, account, agentLink, member, patching, proof, gone,
                   crashes, changes>>

\* The transport; a mail may leave although its confirmation is lost.
Send(s, leaves, confirmed) ==
    /\ sender[s].phase = "minted" /\ (confirmed => leaves)
    /\ sender' = [sender EXCEPT ![s].phase = IF confirmed THEN "sent" ELSE "failed"]
    /\ gone' = IF leaves THEN gone \cup {sender[s].row} ELSE gone
    /\ LET works == leaves /\ sender[s].fresh
           kind  == rows[sender[s].row].kind IN
       /\ verifyLink' = IF works /\ kind = "verification" /\ verifyLink.token = "minted"
                        THEN [verifyLink EXCEPT !.token = "out"] ELSE verifyLink
       /\ invite' = IF works /\ kind = "invite" /\ invite.token = "minted"
                    THEN [invite EXCEPT !.token = "out"] ELSE invite
    /\ UNCHANGED <<rows, queuedMail, account, agentLink, member, patching, proof,
                   crashes, changes>>

\* Nothing was minted: no link base, or the transaction failed.
PrepareFails(s) ==
    /\ sender[s].phase = "claimed"
    /\ sender' = [sender EXCEPT ![s].phase = "failed"]
    /\ UNCHANGED <<rows, queuedMail, account, verifyLink, invite, agentLink, member, patching,
                   proof, gone, crashes, changes>>

Outcome(s) ==
    CASE sender[s].phase = "cancel" -> "CANCELLED"
      [] sender[s].phase = "sent"   -> "SENT"
      [] sender[s].phase = "failed" ->
           IF sender[s].attempts >= OUTBOX_MAX_ATTEMPTS THEN "FAILED" ELSE "PENDING"

\* Mutant: the outcome is written over whatever the row says by then.
RecordAnyway(s) ==
    /\ sender[s].phase \in {"cancel", "sent", "failed"}
    /\ rows' = [rows EXCEPT ![sender[s].row].status = Outcome(s)]
    /\ sender' = [sender EXCEPT ![s] = Asleep]
    /\ UNCHANGED <<queuedMail, account, verifyLink, invite, agentLink, member, patching,
                   proof, gone, crashes, changes>>

\* Conditional on SENDING only: not on being the sender that holds the lease.
Record(s) ==
    /\ sender[s].phase \in {"cancel", "sent", "failed"}
    /\ LET r == sender[s].row IN
       rows' = IF rows[r].status = "SENDING"
               THEN [rows EXCEPT ![r].status = Outcome(s)] ELSE rows
    /\ sender' = [sender EXCEPT ![s] = Asleep]
    /\ UNCHANGED <<queuedMail, account, verifyLink, invite, agentLink, member, patching,
                   proof, gone, crashes, changes>>

Dies(s) ==
    /\ crashes < MaxCrashes /\ crashes' = crashes + 1
    /\ sender[s] # Asleep /\ sender' = [sender EXCEPT ![s] = Asleep]
    /\ UNCHANGED <<rows, queuedMail, account, verifyLink, invite, agentLink, member, patching,
                   proof, gone, changes>>

----------------------------------------------------------------------------
(* What uses a delivered link.                                             *)

\* Every condition is read again under the User lock (and the link's row).
acceptTravelAgentInvite(active) ==
    /\ invite.open /\ invite.token = "out"
    /\ active /\ account.email = Invited /\ agentLink \in {"PENDING", "INVITED"}
    /\ invite' = [token |-> "none", open |-> FALSE]
    /\ member' = TRUE /\ agentLink' = "INVITED"
    /\ account' = [account EXCEPT !.verified = TRUE] /\ proof' = Invited
    /\ UNCHANGED <<rows, queuedMail, sender, verifyLink, patching, gone, crashes, changes>>

verifyEmailToken ==
    /\ verifyLink.token = "out"
    /\ verifyLink.address = account.email
    /\ account' = [account EXCEPT !.verified = TRUE] /\ proof' = verifyLink.address
    /\ verifyLink' = NoLink
    /\ UNCHANGED <<rows, queuedMail, sender, invite, agentLink, member, patching, gone,
                   crashes, changes>>

\* 24 hours pass.
LinkExpires ==
    /\ \/ verifyLink.token = "out" /\ verifyLink' = NoLink /\ UNCHANGED invite
       \/ invite.token = "out" /\ invite' = [invite EXCEPT !.token = "none"] /\ UNCHANGED verifyLink
    /\ UNCHANGED <<rows, queuedMail, sender, account, agentLink, member, patching, proof,
                   gone, crashes, changes>>

----------------------------------------------------------------------------
Deliver(s) ==
    \/ \E active \in BOOLEAN : Prepare(s, active)
    \/ PrepareFails(s)
    \/ \E leaves, confirmed \in BOOLEAN : Send(s, leaves, confirmed)
    \/ Record(s)

Runner == \E s \in Senders, r \in RowIds : Claim(s, r)

OutboxNext ==
    \/ queueEmailVerification \/ InviteAgent \/ ResendInvite
    \/ \E a \in Addresses : ChangeEmail(a)
    \/ \E target \in {"INVITED", "SUSPENDED", "REMOVED"} : PatchReads(target)
    \/ PatchWrites
    \/ Runner
    \/ \E s \in Senders : Deliver(s) \/ Dies(s)
    \/ \E active \in BOOLEAN : acceptTravelAgentInvite(active)
    \/ verifyEmailToken \/ LinkExpires

\* The runner script runs periodically and takes every due row, and a
\* delivery that does not die goes on.
OutboxFairness ==
    /\ \A r \in RowIds : WF_outboxVars(\E s \in Senders : Claim(s, r))
    /\ \A s \in Senders : WF_outboxVars(Deliver(s))

OutboxSpec == OutboxInit /\ [][OutboxNext]_outboxVars /\ OutboxFairness

----------------------------------------------------------------------------
(* Properties.                                                             *)

Queue == INSTANCE MailQueue WITH
    Mails <- RowIds,
    mail  <- [r \in RowIds |->
                CASE rows[r].status = "absent" -> "absent"
                  [] rows[r].status \in OPEN   -> "queued"
                  [] rows[r].status = "SENT"   -> "sent"
                  [] OTHER                     -> "dropped"],
    left  <- [r \in RowIds |-> r \in gone]

\* The outbox implements at-least-once delivery (module MailQueue), with
\* senders that die, outlive their lease and record their outcome late.
AtLeastOnce == Queue!Spec

\* "Access to a travel agent's trips is granted only to an account that proved
\* it reads the invited mailbox" (lib/invitations.ts): a verified membership is
\* held at the invited address, and a verified account has used a mail that
\* reached its present address, across changes of address, re-sent
\* invitations and deliveries overtaken by others.
MailboxProven ==
    /\ account.verified => proof = account.email
    /\ member => account.email = Invited /\ proof = Invited

\* Every queued mail is sent, cancelled or reported as failed in the end.
MailSettles == \A r \in RowIds : rows[r].status = "PENDING" ~> rows[r].status \in SETTLED

=============================================================================
