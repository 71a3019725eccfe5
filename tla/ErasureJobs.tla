----------------------------- MODULE ErasureJobs -----------------------------
(***************************************************************************)
(* Erasing an account: lib/erasure-jobs.ts, its routes and runner script,  *)
(* with the two other writers its steps race with: the upload of a proof   *)
(* of transfer (redemptions/[id]/proof) and PATCH auth/me.                 *)
(*                                                                         *)
(* One account.  A transaction under the User lock is one step; between    *)
(* the transactions of a job other runners, uploads and requests go on,    *)
(* and a runner or an upload may die.  When a step is due is a matter of   *)
(* time and left open.  Owed is any balance, redemption, session or trip   *)
(* that holds the erasure back; the wallet's own part is in module Wallet. *)
(***************************************************************************)
EXTENDS Naturals, FiniteSets

CONSTANTS
    DeletionRequests,   \* FULL DeletionRequest rows ever created
    JobRunners,         \* after() of a request, or the runner script
    Uploads,            \* proof uploads
    MaxFaults,          \* bound: failed attempts and deaths together
    MaxActivity         \* bound: times something comes to be owed

ASSUME ErasureAssumption == {MaxFaults, MaxActivity} \subseteq Nat

VARIABLES
    deletion,       \* DeletionRequest: status, verified (method set), token
    anonymizeStep,  \* ErasureJobStep ANONYMIZE_ACCOUNT: none, open, done
    filesStep,      \* ErasureJobStep DELETE_PROOF_FILES
    payload,        \* proofsDetached > 0 in its payload
    owed, activity, \* see above; how often it arose
    erased,         \* the account is anonymized
    editing, profile, \* PATCH auth/me between its read and its write; name and phone
    upload,         \* phase of each upload
    disk,           \* proof files in storage
    attached,       \* a redemption names a proof
    runner, faults

erasureVars == <<deletion, anonymizeStep, filesStep, payload, owed, activity, erased, editing,
                 profile, upload, disk, attached, runner, faults>>

RUNNABLE  == {"VERIFIED", "PROCESSING", "PENDING_RECONCILIATION", "RETRYABLE_FAILED"}
AtRest    == [phase |-> "idle", request |-> "none", step |-> "none"]

ErasureInit ==
    /\ deletion = [d \in DeletionRequests |-> [status |-> "none", verified |-> FALSE, token |-> "none"]]
    /\ anonymizeStep = [d \in DeletionRequests |-> "none"] /\ filesStep = anonymizeStep
    /\ payload = FALSE /\ owed = FALSE /\ activity = 0
    /\ erased = FALSE /\ editing = FALSE /\ profile = "own"
    /\ upload = [u \in Uploads |-> "idle"] /\ disk = {} /\ attached = FALSE
    /\ runner = [r \in JobRunners |-> AtRest] /\ faults = 0

----------------------------------------------------------------------------
(* Requests.                                                               *)

createPublicDeletionRequest(d) ==
    /\ deletion[d].status = "none" /\ ~erased
    /\ deletion' = [deletion EXCEPT ![d] = [status |-> "PENDING", verified |-> FALSE, token |-> "live"]]
    /\ UNCHANGED <<anonymizeStep, filesStep, payload, owed, activity, erased, editing, profile,
                   upload, disk, attached, runner, faults>>

TokenExpires(d) ==
    /\ deletion[d].token = "live" /\ deletion' = [deletion EXCEPT ![d].token = "expired"]
    /\ UNCHANGED <<anonymizeStep, filesStep, payload, owed, activity, erased, editing, profile,
                   upload, disk, attached, runner, faults>>

\* startInTransaction: the steps are created once; what is owed holds the job.
startInTransaction(d, token) ==
    /\ anonymizeStep' = [anonymizeStep EXCEPT ![d] = IF @ = "none" THEN "open" ELSE @]
    /\ filesStep' = [filesStep EXCEPT ![d] = IF @ = "none" THEN "open" ELSE @]
    /\ deletion' = [deletion EXCEPT ![d] =
         [status |-> IF owed THEN "PENDING_RECONCILIATION" ELSE "PROCESSING",
          verified |-> TRUE, token |-> token]]

Standing(d) ==
    {e \in DeletionRequests \ {d} : deletion[e].verified /\ deletion[e].status \in RUNNABLE \cup {"COMPLETED"}}

\* A request beside a running or completed one is closed as its duplicate.
verifyAndStart(d) ==
    IF Standing(d) # {}
    THEN /\ deletion' = [deletion EXCEPT ![d].status = "REJECTED", ![d].token = "none"]
         /\ UNCHANGED <<anonymizeStep, filesStep>>
    ELSE startInTransaction(d, "none")

\* The mailed link, or an operator, verifies a PENDING request.
confirmDeletionRequest(d) ==
    /\ deletion[d].status = "PENDING" /\ deletion[d].token = "live"
    /\ verifyAndStart(d)
    /\ UNCHANGED <<payload, owed, activity, erased, editing, profile, upload, disk, attached,
                   runner, faults>>

verifyDeletionRequestByOperator(d) ==
    /\ deletion[d].status = "PENDING"
    /\ verifyAndStart(d)
    /\ UNCHANGED <<payload, owed, activity, erased, editing, profile, upload, disk, attached,
                   runner, faults>>

\* DELETE user/data: an open request is returned, a held one checked again.
requestErasure(d) ==
    /\ ~erased
    /\ LET running == {e \in DeletionRequests : deletion[e].verified /\ deletion[e].status \in RUNNABLE} IN
       IF running # {}
       THEN d \in running /\ deletion[d].status = "PENDING_RECONCILIATION" /\ startInTransaction(d, deletion[d].token)
       ELSE deletion[d].status = "none" /\ verifyAndStart(d)
    /\ UNCHANGED <<payload, owed, activity, erased, editing, profile, upload, disk, attached,
                   runner, faults>>

----------------------------------------------------------------------------
(* runErasureJob.                                                          *)

\* Mutant: the runner does not come back to a request that failed.
JobStartsOnce(r, d) ==
    /\ runner[r] = AtRest
    /\ deletion[d].verified /\ deletion[d].status \in RUNNABLE \ {"RETRYABLE_FAILED"}
    /\ anonymizeStep[d] # "none"
    /\ runner' = [runner EXCEPT ![r] = [phase |-> IF anonymizeStep[d] = "done" THEN "files" ELSE "anonymize",
                                        request |-> d, step |-> "none"]]
    /\ UNCHANGED <<deletion, anonymizeStep, filesStep, payload, owed, activity, erased, editing,
                   profile, upload, disk, attached, faults>>

\* Both reads before the transaction; a finished step is skipped.
JobStarts(r, d) ==
    /\ runner[r] = AtRest
    /\ deletion[d].verified /\ deletion[d].status \in RUNNABLE /\ anonymizeStep[d] # "none"
    /\ runner' = [runner EXCEPT ![r] = [phase |-> IF anonymizeStep[d] = "done" THEN "files" ELSE "anonymize",
                                        request |-> d, step |-> "none"]]
    /\ UNCHANGED <<deletion, anonymizeStep, filesStep, payload, owed, activity, erased, editing,
                   profile, upload, disk, attached, faults>>

\* The transaction reads everything again under the User lock.
anonymizeAccount(r) ==
    LET d == runner[r].request IN
    /\ runner[r].phase = "anonymize"
    /\ CASE deletion[d].status \notin RUNNABLE ->
              /\ runner' = [runner EXCEPT ![r] = AtRest]
              /\ UNCHANGED <<deletion, anonymizeStep, payload, erased, profile, attached>>
         [] deletion[d].status \in RUNNABLE /\ anonymizeStep[d] = "done" ->
              /\ runner' = [runner EXCEPT ![r].phase = "files"]
              /\ UNCHANGED <<deletion, anonymizeStep, payload, erased, profile, attached>>
         [] deletion[d].status \in RUNNABLE /\ anonymizeStep[d] # "done" /\ owed ->
              /\ deletion' = [deletion EXCEPT ![d].status = "PENDING_RECONCILIATION"]
              /\ runner' = [runner EXCEPT ![r] = AtRest]
              /\ UNCHANGED <<anonymizeStep, payload, erased, profile, attached>>
         [] OTHER ->
              /\ erased' = TRUE /\ profile' = "redacted"
              /\ payload' = attached /\ attached' = FALSE
              /\ anonymizeStep' = [anonymizeStep EXCEPT ![d] = "done"]
              /\ deletion' = [deletion EXCEPT ![d].status = "PROCESSING"]
              /\ runner' = [runner EXCEPT ![r].phase = "files"]
    /\ UNCHANGED <<filesStep, owed, activity, editing, upload, disk, faults>>

Fault == faults < MaxFaults /\ faults' = faults + 1

StepFails(r) ==
    /\ Fault /\ runner[r].phase \in {"anonymize", "remove"}
    /\ runner' = [runner EXCEPT ![r].step = IF runner[r].phase = "remove" THEN "files" ELSE "anonymize",
                                ![r].phase = "fail"]
    /\ UNCHANGED <<deletion, anonymizeStep, filesStep, payload, owed, activity, erased, editing,
                   profile, upload, disk, attached>>

\* A held request stays held, a finished one finished; a failed file step
\* still goes on to completeIfDone.
recordFailure(r) ==
    /\ runner[r].phase = "fail"
    /\ deletion' = [deletion EXCEPT ![runner[r].request].status =
         IF @ \in {"VERIFIED", "PROCESSING", "RETRYABLE_FAILED"} THEN "RETRYABLE_FAILED" ELSE @]
    /\ runner' = [runner EXCEPT ![r] =
         IF @.step = "anonymize" THEN AtRest ELSE [@ EXCEPT !.phase = "complete"]]
    /\ UNCHANGED <<anonymizeStep, filesStep, payload, owed, activity, erased, editing, profile,
                   upload, disk, attached, faults>>

FilesStepReads(r) ==
    /\ runner[r].phase = "files"
    /\ runner' = [runner EXCEPT ![r].phase = IF filesStep[runner[r].request] = "done" THEN "complete" ELSE "remove"]
    /\ UNCHANGED <<deletion, anonymizeStep, filesStep, payload, owed, activity, erased, editing,
                   profile, upload, disk, attached, faults>>

\* Whole folders go.  A host without the storage volume refuses when proofs
\* exist; without any, there is nothing to remove.
deleteProofFiles(r, mounted) ==
    /\ runner[r].phase = "remove"
    /\ mounted \/ ~payload
    /\ disk' = IF mounted THEN {} ELSE disk
    /\ runner' = [runner EXCEPT ![r].phase = "mark"]
    /\ UNCHANGED <<deletion, anonymizeStep, filesStep, payload, owed, activity, erased, editing,
                   profile, upload, attached, faults>>

FilesStepMarks(r) ==
    /\ runner[r].phase = "mark"
    /\ filesStep' = [filesStep EXCEPT ![runner[r].request] = "done"]
    /\ runner' = [runner EXCEPT ![r].phase = "complete"]
    /\ UNCHANGED <<deletion, anonymizeStep, payload, owed, activity, erased, editing, profile,
                   upload, disk, attached, faults>>

\* Mutant: the request completes once the account is anonymized.
completeWithoutFiles(r) ==
    /\ runner[r].phase = "complete"
    /\ LET d == runner[r].request IN
       deletion' = IF anonymizeStep[d] = "done" /\ deletion[d].status \in RUNNABLE
                   THEN [deletion EXCEPT ![d].status = "COMPLETED"] ELSE deletion
    /\ runner' = [runner EXCEPT ![r] = AtRest]
    /\ UNCHANGED <<anonymizeStep, filesStep, payload, owed, activity, erased, editing, profile,
                   upload, disk, attached, faults>>

completeIfDone(r) ==
    /\ runner[r].phase = "complete"
    /\ LET d == runner[r].request IN
       deletion' = IF anonymizeStep[d] = "done" /\ filesStep[d] = "done" /\ deletion[d].status \in RUNNABLE
                   THEN [deletion EXCEPT ![d].status = "COMPLETED"] ELSE deletion
    /\ runner' = [runner EXCEPT ![r] = AtRest]
    /\ UNCHANGED <<anonymizeStep, filesStep, payload, owed, activity, erased, editing, profile,
                   upload, disk, attached, faults>>

RunnerDies(r) ==
    /\ Fault /\ runner[r] # AtRest /\ runner' = [runner EXCEPT ![r] = AtRest]
    /\ UNCHANGED <<deletion, anonymizeStep, filesStep, payload, owed, activity, erased, editing,
                   profile, upload, disk, attached>>

----------------------------------------------------------------------------
(* What goes on meanwhile.                                                 *)

\* A reward, a session or a payout request arises, and is settled.
OwedArises ==
    /\ ~erased /\ ~owed /\ owed' = TRUE
    /\ activity < MaxActivity /\ activity' = activity + 1
    /\ UNCHANGED <<deletion, anonymizeStep, filesStep, payload, erased, editing, profile, upload,
                   disk, attached, runner, faults>>

OwedSettles ==
    /\ owed /\ owed' = FALSE
    /\ UNCHANGED <<deletion, anonymizeStep, filesStep, payload, activity, erased, editing, profile,
                   upload, disk, attached, runner, faults>>

\* POST proof: an open redemption, the file, then attachRedemptionProof.
UploadChecks(u) ==
    /\ upload[u] = "idle" /\ owed
    /\ upload' = [upload EXCEPT ![u] = "checked"]
    /\ UNCHANGED <<deletion, anonymizeStep, filesStep, payload, owed, activity, erased, editing,
                   profile, disk, attached, runner, faults>>

UploadWrites(u) ==
    /\ upload[u] = "checked"
    /\ upload' = [upload EXCEPT ![u] = "written"] /\ disk' = disk \cup {u}
    /\ UNCHANGED <<deletion, anonymizeStep, filesStep, payload, owed, activity, erased, editing,
                   profile, attached, runner, faults>>

\* Under the User lock; a closed redemption refuses it and the file goes.
UploadAttaches(u) ==
    /\ upload[u] = "written"
    /\ IF owed
       THEN /\ attached' = TRUE /\ upload' = [upload EXCEPT ![u] = "attached"] /\ UNCHANGED disk
       ELSE /\ disk' = disk \ {u} /\ upload' = [upload EXCEPT ![u] = "refused"] /\ UNCHANGED attached
    /\ UNCHANGED <<deletion, anonymizeStep, filesStep, payload, owed, activity, erased, editing,
                   profile, runner, faults>>

UploadDies(u) ==
    /\ Fault /\ upload[u] \in {"checked", "written"} /\ upload' = [upload EXCEPT ![u] = "dead"]
    /\ UNCHANGED <<deletion, anonymizeStep, filesStep, payload, owed, activity, erased, editing,
                   profile, disk, attached, runner>>

\* PATCH auth/me of name or phone: the session is checked first ...
ProfileStarts ==
    /\ ~erased /\ ~editing /\ editing' = TRUE
    /\ UNCHANGED <<deletion, anonymizeStep, filesStep, payload, owed, activity, erased, profile,
                   upload, disk, attached, runner, faults>>

\* ... and the User lock is taken later, without looking at the account again.
ProfileCommits ==
    /\ editing /\ editing' = FALSE
    /\ profile' = "own"
    /\ UNCHANGED <<deletion, anonymizeStep, filesStep, payload, owed, activity, erased, upload,
                   disk, attached, runner, faults>>

----------------------------------------------------------------------------
JobGoesOn(r) ==
    \/ anonymizeAccount(r) \/ recordFailure(r) \/ FilesStepReads(r)
    \/ \E mounted \in BOOLEAN : deleteProofFiles(r, mounted)
    \/ FilesStepMarks(r) \/ completeIfDone(r)

ErasureNext ==
    \/ \E d \in DeletionRequests :
         \/ createPublicDeletionRequest(d) \/ TokenExpires(d) \/ confirmDeletionRequest(d)
         \/ verifyDeletionRequestByOperator(d) \/ requestErasure(d)
         \/ \E r \in JobRunners : JobStarts(r, d)
    \/ \E r \in JobRunners : JobGoesOn(r) \/ StepFails(r) \/ RunnerDies(r)
    \/ OwedArises \/ OwedSettles
    \/ \E u \in Uploads : UploadChecks(u) \/ UploadWrites(u) \/ UploadAttaches(u) \/ UploadDies(u)
    \/ ProfileStarts \/ ProfileCommits

\* The runner script takes every unfinished request again and again, a job
\* that does not die goes on, and what is owed is settled in the end.
ErasureFairness ==
    /\ \A d \in DeletionRequests : WF_erasureVars(\E r \in JobRunners : JobStarts(r, d))
    /\ \A r \in JobRunners : WF_erasureVars(JobGoesOn(r))
    /\ WF_erasureVars(OwedSettles)

ErasureSpec == ErasureInit /\ [][ErasureNext]_erasureVars /\ ErasureFairness

----------------------------------------------------------------------------
(* Properties.                                                             *)

\* "COMPLETED is written only when every step has completedAt": then the
\* account is anonymized, nothing is owed to its owner, and no proof file is
\* left but those of an upload still to be refused or that died; and at most
\* one request was carried out, whichever jobs and requests overlapped.
CompletedMeansErased ==
    /\ \A d \in DeletionRequests : deletion[d].status = "COMPLETED" =>
         /\ erased /\ ~owed /\ ~attached
         /\ \A u \in disk : upload[u] \in {"written", "dead"}
    /\ Cardinality({d \in DeletionRequests :
         deletion[d].verified /\ deletion[d].status \in RUNNABLE \cup {"COMPLETED"}}) <= 1

\* A verified erasure is carried out, through failed steps, dead runners and
\* obligations that hold it for a while.
ErasureCompletes ==
    \A d \in DeletionRequests : deletion[d].status \in RUNNABLE ~> deletion[d].status = "COMPLETED"

\* "redacts the profile ... all or nothing" (lib/erasure-jobs.ts): what an
\* erasure redacted stays redacted.  Violated by a profile edit that read the
\* account before the erasure and writes it afterwards.
ErasedStaysErased == erased => profile = "redacted"
=============================================================================
