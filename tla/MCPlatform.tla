----------------------------- MODULE MCPlatform -----------------------------
(***************************************************************************)
(* The platform's side for TLC: mails that prove a mailbox, accounts, the  *)
(* audit chain, the lock order and account erasure.  They share no state   *)
(* here, so one run checks them side by side: a behaviour follows one      *)
(* part, chosen at the start, and the others rest in an initial state.     *)
(***************************************************************************)
EXTENDS EmailOutbox, Accounts, AuditChain, LockOrder, ErasureJobs

CONSTANT Alone      \* the sender that works by itself in part "mailbox"

VARIABLE part

platformVars == <<part, outboxVars, accountVars, auditVars, lockVars, erasureVars>>

\* Several senders compete for one mail, or one sender works off several.
Scale ==
    /\ part = "mail" => queuedMail' <= 1
    /\ part = "mailbox" => \A s \in Senders \ {Alone} : sender'[s] = Asleep

Init ==
    /\ part \in {"mail", "mailbox", "accounts", "audit", "locks", "erasure"}
    /\ OutboxInit /\ AccountsInit /\ AuditInit /\ LockInit /\ ErasureInit
    /\ part \notin {"mail", "mailbox"} => account.email = Invited

Next ==
    \/ part \in {"mail", "mailbox"} /\ OutboxNext /\ Scale
       /\ UNCHANGED <<part, accountVars, auditVars, lockVars, erasureVars>>
    \/ part = "accounts" /\ AccountsNext /\ UNCHANGED <<part, outboxVars, auditVars, lockVars, erasureVars>>
    \/ part = "audit" /\ AuditNext /\ UNCHANGED <<part, outboxVars, accountVars, lockVars, erasureVars>>
    \/ part = "locks" /\ LockNext /\ UNCHANGED <<part, outboxVars, accountVars, auditVars, erasureVars>>
    \/ part = "erasure" /\ ErasureNext /\ UNCHANGED <<part, outboxVars, accountVars, auditVars, lockVars>>

\* OutboxFairness and ErasureFairness, for the behaviours that follow them.
Fairness ==
    /\ \A r \in RowIds : WF_outboxVars(part = "mail" /\ \E s \in Senders : Claim(s, r))
    /\ \A r \in RowIds : WF_outboxVars(part = "mailbox" /\ Claim(Alone, r))
    /\ \A s \in Senders : WF_outboxVars(part \in {"mail", "mailbox"} /\ Deliver(s))
    /\ \A d \in DeletionRequests :
         WF_erasureVars(part = "erasure" /\ \E r \in JobRunners : JobStarts(r, d))
    /\ \A r \in JobRunners : WF_erasureVars(part = "erasure" /\ JobGoesOn(r))
    /\ WF_erasureVars(part = "erasure" /\ OwedSettles)

Spec == Init /\ [][Next]_platformVars /\ Fairness

\* Who an account is has been proven once and for this use: the mailbox by a
\* mail that reached it, the second factor, the challenge and the reset link
\* by a credential that worked for nobody else (lib/invitations.ts, lib/mfa.ts).
IdentityProven == MailboxProven /\ CredentialsSingleUse

\* What the background runners took on ends: a queued mail is sent, cancelled
\* or reported as failed, and a verified erasure is carried out, through dead
\* senders and runners and failed steps (lib/email-outbox.ts, lib/erasure-jobs.ts).
JobsSettle == MailSettles /\ ErasureCompletes
=============================================================================
