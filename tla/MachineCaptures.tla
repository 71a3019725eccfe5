-------------------------- MODULE MachineCaptures --------------------------
(***************************************************************************)
(* Camera evidence on its way from a machine to the server: a capture      *)
(* thread writes the scene and queues it, flush_captures posts it, from    *)
(* the sync loop and from the remote-command thread, and POST              *)
(* /api/machine-captures stores it under (machineId, localCaptureId).      *)
(*                                                                         *)
(* A capture is its local id; the scene and its faces are one file.        *)
(***************************************************************************)
EXTENDS Naturals, FiniteSets

CONSTANTS Captures,      \* local capture ids
          Flushers,      \* threads that run flush_captures: the sync loop, the remote commands
          MaxLocal,      \* max_local_captures
          MaxReboots     \* bound: times the machine loses power

ASSUME CapturesAssumption == MaxLocal \in Nat \ {0} /\ MaxReboots \in Nat

VARIABLES evidence,   \* capture ids with a scene on disk, with their order of writing
          outbox,     \* capture_outbox: the row's state
          uploads,    \* machine_captures on the server
          flush,      \* the post each flusher has in progress
          reboots     \* reboots so far

captureVars == <<evidence, outbox, uploads, flush, reboots>>

NoPost == [capture |-> "none", step |-> "idle"]

\* cleanup_old_captures keeps the newest max_local_captures files.
cleanupOldCaptures(s) == IF Cardinality(s) > MaxLocal
                         THEN {x \in s : Cardinality({y \in s : y.at > x.at}) < MaxLocal}
                         ELSE s

Stamp == 1 + Cardinality({c \in Captures : outbox[c] # "untaken"})
OnDisk(c) == \E x \in evidence : x.capture = c

captureEvidence(c) == /\ outbox[c] = "untaken"
                      /\ evidence' = cleanupOldCaptures(evidence \cup {[capture |-> c, at |-> Stamp]})
                      /\ outbox' = [outbox EXCEPT ![c] = "taken"]
                      /\ UNCHANGED <<uploads, flush, reboots>>

enqueueCapture(c) == /\ outbox[c] = "taken"
                     /\ outbox' = [outbox EXCEPT ![c] = "pending"]
                     /\ UNCHANGED <<evidence, uploads, flush, reboots>>

\* A row whose picture is gone, or whose post cannot be sent, is only marked failed.
flushReads(f, c) == /\ flush[f] = NoPost
                    /\ outbox[c] = "pending" /\ OnDisk(c)
                    /\ flush' = [flush EXCEPT ![f] = [capture |-> c, step |-> "posted"]]
                    /\ UNCHANGED <<evidence, outbox, uploads, reboots>>

\* POST looks the capture up by (machineId, localCaptureId) ...
lookUpCapture(f) == /\ flush[f].step = "posted"
                    /\ flush' = [flush EXCEPT ![f].step =
                                   IF flush[f].capture \in uploads THEN "ok" ELSE "absent"]
                    /\ UNCHANGED <<evidence, outbox, uploads, reboots>>

\* ... writes the pictures and inserts the row; the unique key refuses a second one.
createCapture(f) == /\ flush[f].step = "absent"
                    /\ uploads' = uploads \cup {flush[f].capture}
                    /\ flush' = [flush EXCEPT ![f].step =
                                   IF flush[f].capture \in uploads THEN "error" ELSE "ok"]
                    /\ UNCHANGED <<evidence, outbox, reboots>>

\* The server, or the connection, fails before the answer is read.
answerLost(f) == /\ flush[f].step \in {"posted", "absent", "ok"}
                 /\ flush' = [flush EXCEPT ![f].step = "error"]
                 /\ UNCHANGED <<evidence, outbox, uploads, reboots>>

\* Mutant: the row is marked sent whatever the answer was.
markCaptureAnyway(f) == /\ flush[f].step \in {"ok", "error"}
                        /\ outbox' = [outbox EXCEPT ![flush[f].capture] = "sent"]
                        /\ flush' = [flush EXCEPT ![f] = NoPost]
                        /\ UNCHANGED <<evidence, uploads, reboots>>

markCapture(f) == /\ flush[f].step \in {"ok", "error"}
                  /\ outbox' = IF flush[f].step = "ok"
                               THEN [outbox EXCEPT ![flush[f].capture] = "sent"] ELSE outbox
                  /\ flush' = [flush EXCEPT ![f] = NoPost]
                  /\ UNCHANGED <<evidence, uploads, reboots>>

\* Power goes: the posts in memory are gone, files and SQLite rows stay.  A
\* capture that was not yet queued is a file no row names.
machineReboots == /\ reboots < MaxReboots
                  /\ reboots' = reboots + 1
                  /\ flush' = [f \in Flushers |-> NoPost]
                  /\ outbox' = [c \in Captures |-> IF outbox[c] = "taken" THEN "orphan" ELSE outbox[c]]
                  /\ UNCHANGED <<evidence, uploads>>

CaptureInit == /\ evidence = {} /\ outbox = [c \in Captures |-> "untaken"]
               /\ uploads = {} /\ flush = [f \in Flushers |-> NoPost]
               /\ reboots = 0

CaptureNext == \/ \E c \in Captures : captureEvidence(c) \/ enqueueCapture(c)
               \/ \E f \in Flushers : \/ \E c \in Captures : flushReads(f, c)
                                      \/ lookUpCapture(f) \/ createCapture(f)
                                      \/ answerLost(f) \/ markCapture(f)
               \/ machineReboots
CaptureSpec == CaptureInit /\ [][CaptureNext]_captureVars

(***************************************************************************)
(* Properties.                                                             *)
(***************************************************************************)
(* A capture the machine no longer offers is on the server, whatever        *)
(* answers were lost, whichever of two flushers posted it and however often *)
(* it was posted; one that was not stored is offered again.                 *)
CaptureSentIsStored == \A c \in Captures : outbox[c] = "sent" => c \in uploads
=============================================================================
