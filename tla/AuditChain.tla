----------------------------- MODULE AuditChain -----------------------------
(***************************************************************************)
(* The tamper-evident audit chain (lib/audit.ts), the triggers of its      *)
(* migration, and the script that records the legacy archive in it         *)
(* (scripts/checkpoint-audit-chain.ts).                                    *)
(*                                                                         *)
(* Every appender is a database transaction: it takes the chain's advisory *)
(* lock, reads the head, inserts a row linked to it and later commits or   *)
(* rolls back with the change it records.  Code of the previous release    *)
(* still running during a rollout inserts rows without a sequence, outside *)
(* the lock; a trigger files them in the legacy archive.  A superadmin     *)
(* verifies the chain in batches, without a transaction, while all of this *)
(* goes on.                                                                *)
(*                                                                         *)
(* A checksum is an HMAC over its predecessor, the position and the row,   *)
(* so it is modelled as the sequence of everything hashed so far; the      *)
(* digest of the archive, whose rows are immutable, as its length.         *)
(***************************************************************************)
EXTENDS Integers, Sequences, FiniteSets

CONSTANTS
    Appenders,      \* transactions that write an audit row (lib/audit.ts callers)
    MaxAudit,       \* bound: rows of the v2 chain
    MaxArchive,     \* bound: rows of the legacy archive
    AuditBatch      \* batchSize of verifyAuditChain

ASSUME AuditBounds == MaxAudit \in Nat /\ MaxArchive \in Nat /\ AuditBatch \in Nat \ {0}

VARIABLES
    auditRows,      \* committed v2 rows of AuditLog, in commit order
    archive,        \* number of committed v1 rows
    oldInsert,      \* a v1 insert is still uncommitted (its ROW EXCLUSIVE lock is held)
    chainLock,      \* holder of AUDIT_CHAIN_LOCK
    tableLock,      \* the checkpoint holds SHARE ROW EXCLUSIVE on AuditLog
    appender,       \* per appender: where its transaction is, and its row
    checkpoint,     \* the --apply transaction
    reviewed,       \* the digest an operator read in a dry run
    refusals,       \* appends the unique index refused
    walk            \* the verification under way

auditVars == <<auditRows, archive, oldInsert, chainLock, tableLock, appender,
               checkpoint, reviewed, refusals, walk>>

Unheld == "unheld"
TheCheckpoint == "checkpoint"
NotReviewed == -1

\* Who holds the chain lock is an appender or neither of these names.
ASSUME AuditNames == Unheld \notin Appenders /\ TheCheckpoint \notin Appenders

NoRow == [seq |-> 0, prev |-> <<>>, sum |-> <<>>, mark |-> -1]
NoHead == [seq |-> 0, sum |-> <<>>]

-----------------------------------------------------------------------------
(* Rows and checksums                                                       *)

\* checksumV2: the position, the predecessor's checksum and the canonical row.
checksumV2(prev, seq, entry) == Append(prev, <<seq, entry>>)

\* findFirst(chainSequence not null, desc): the head among the committed rows.
ChainHead ==
    IF auditRows = <<>> THEN NoHead
    ELSE LET top == CHOOSE r \in {auditRows[i] : i \in DOMAIN auditRows} :
                        \A i \in DOMAIN auditRows : auditRows[i].seq <= r.seq
         IN [seq |-> top.seq, sum |-> top.sum]

\* appendAuditEntry: next position, linked to the head, stored exactly as hashed.
AuditRowAfter(head, entry) ==
    [seq |-> head.seq + 1, prev |-> head.sum,
     sum |-> checksumV2(head.sum, head.seq + 1, entry), mark |-> entry]

IsCheckpointRow(r) == r.mark >= 0
latestCheckpoint == {i \in DOMAIN auditRows : IsCheckpointRow(auditRows[i])}

-----------------------------------------------------------------------------
(* Appenders: logAudit and logAuditInTransaction                            *)

AppenderIdle == [pc |-> "idle", row |-> NoRow]

\* Mutant: the head is read without the chain lock.
AppendTakesNoLock(w) ==
    /\ appender[w].pc = "idle" /\ Len(auditRows) < MaxAudit - 1
    /\ appender' = [appender EXCEPT ![w].pc = "locked"]
    /\ UNCHANGED <<auditRows, archive, oldInsert, chainLock, tableLock, checkpoint, reviewed,
                   refusals, walk>>

\* SELECT pg_advisory_xact_lock(AUDIT_CHAIN_LOCK).
AppendLocks(w) ==
    /\ appender[w].pc = "idle" /\ chainLock = Unheld /\ Len(auditRows) < MaxAudit
    /\ chainLock' = w
    /\ appender' = [appender EXCEPT ![w].pc = "locked"]
    /\ UNCHANGED <<auditRows, archive, oldInsert, tableLock, checkpoint, reviewed, refusals, walk>>

\* READ COMMITTED: the head as committed when this statement runs.
AppendReads(w) ==
    /\ appender[w].pc = "locked"
    /\ appender' = [appender EXCEPT ![w] = [pc |-> "read", row |-> AuditRowAfter(ChainHead, -1)]]
    /\ UNCHANGED <<auditRows, archive, oldInsert, chainLock, tableLock, checkpoint,
                   reviewed, refusals, walk>>

\* tx.auditLog.create: the unique chainSequence refuses a position that is taken.
AppendInserts(w) ==
    /\ appender[w].pc = "read" /\ ~tableLock
    /\ IF \E i \in DOMAIN auditRows : auditRows[i].seq = appender[w].row.seq
       THEN /\ refusals' = refusals + 1
            /\ appender' = [appender EXCEPT ![w] = AppenderIdle]
            /\ chainLock' = IF chainLock = w THEN Unheld ELSE chainLock
       ELSE /\ appender' = [appender EXCEPT ![w].pc = "inserted"]
            /\ UNCHANGED <<refusals, chainLock>>
    /\ UNCHANGED <<auditRows, archive, oldInsert, tableLock, checkpoint, reviewed, walk>>

\* COMMIT of the caller's transaction: the row appears, the lock goes.
AppendCommits(w) ==
    /\ appender[w].pc = "inserted"
    /\ auditRows' = Append(auditRows, appender[w].row)
    /\ appender' = [appender EXCEPT ![w] = AppenderIdle]
    /\ chainLock' = IF chainLock = w THEN Unheld ELSE chainLock
    /\ UNCHANGED <<archive, oldInsert, tableLock, checkpoint, reviewed, refusals, walk>>

\* The caller's change fails or the connection is lost: row and number are discarded.
AppendRollsBack(w) ==
    /\ appender[w].pc \in {"locked", "read", "inserted"}
    /\ appender' = [appender EXCEPT ![w] = AppenderIdle]
    /\ chainLock' = IF chainLock = w THEN Unheld ELSE chainLock
    /\ UNCHANGED <<auditRows, archive, oldInsert, tableLock, checkpoint, reviewed, refusals, walk>>

-----------------------------------------------------------------------------
(* The previous release and the checkpoint of its archive                   *)

\* A writer of the previous release inserts without a sequence; the trigger
\* audit_log_unsequenced_is_legacy files the row under version 1.
OldReleaseInserts ==
    /\ ~oldInsert /\ ~tableLock /\ archive < MaxArchive
    /\ oldInsert' = TRUE
    /\ UNCHANGED <<auditRows, archive, chainLock, tableLock, appender, checkpoint,
                   reviewed, refusals, walk>>

OldReleaseEnds ==
    /\ oldInsert
    /\ oldInsert' = FALSE
    /\ archive' \in {archive, archive + 1}
    /\ UNCHANGED <<auditRows, chainLock, tableLock, appender, checkpoint, reviewed,
                   refusals, walk>>

\* The dry run: count and digest in one read-only snapshot, writes nothing.
DryRun ==
    /\ reviewed # archive
    /\ reviewed' = archive
    /\ UNCHANGED <<auditRows, archive, oldInsert, chainLock, tableLock, appender,
                   checkpoint, refusals, walk>>

CheckpointIdle == [pc |-> "idle", count |-> 0, expected |-> NotReviewed, row |-> NoRow]

\* --apply --expected-digest <reviewed>: the chain lock first.
CheckpointLocks ==
    /\ checkpoint.pc = "idle" /\ reviewed # NotReviewed /\ chainLock = Unheld
    /\ Len(auditRows) < MaxAudit
    /\ chainLock' = TheCheckpoint
    /\ checkpoint' = [checkpoint EXCEPT !.pc = "locked", !.expected = reviewed]
    /\ UNCHANGED <<auditRows, archive, oldInsert, tableLock, appender, reviewed, refusals, walk>>

\* LOCK TABLE "AuditLog" IN SHARE ROW EXCLUSIVE MODE waits for every open insert.
CheckpointLocksTable ==
    /\ checkpoint.pc = "locked" /\ ~oldInsert
    /\ \A w \in Appenders : appender[w].pc # "inserted"
    /\ tableLock' = TRUE
    /\ checkpoint' = [checkpoint EXCEPT !.pc = "tabled"]
    /\ UNCHANGED <<auditRows, archive, oldInsert, chainLock, appender, reviewed, refusals, walk>>

ReleaseCheckpoint ==
    /\ checkpoint' = CheckpointIdle
    /\ chainLock' = Unheld
    /\ tableLock' = FALSE

\* legacyAuditSnapshot, latestCheckpoint and the decision: an existing
\* checkpoint, an empty archive or a digest nobody reviewed writes nothing.
CheckpointDecides ==
    /\ checkpoint.pc = "tabled"
    /\ IF latestCheckpoint = {} /\ archive > 0 /\ archive = checkpoint.expected
       THEN /\ checkpoint' = [checkpoint EXCEPT !.pc = "written", !.count = archive,
                                                !.row = AuditRowAfter(ChainHead, archive)]
            /\ UNCHANGED <<chainLock, tableLock>>
       ELSE ReleaseCheckpoint
    /\ UNCHANGED <<auditRows, archive, oldInsert, appender, reviewed, refusals, walk>>

CheckpointCommits ==
    /\ checkpoint.pc = "written"
    /\ auditRows' = Append(auditRows, checkpoint.row)
    /\ ReleaseCheckpoint
    /\ UNCHANGED <<archive, oldInsert, appender, reviewed, refusals, walk>>

\* The 120 s transaction timeout, or the script is stopped.
CheckpointRollsBack ==
    /\ checkpoint.pc # "idle"
    /\ ReleaseCheckpoint
    /\ UNCHANGED <<auditRows, archive, oldInsert, appender, reviewed, refusals, walk>>

-----------------------------------------------------------------------------
(* verifyAuditChain                                                         *)

WalkIdle == [pc |-> "idle", cursor |-> 0, prev |-> <<>>, found |-> NotReviewed,
             verdict |-> "none", legacy |-> "none"]

\* POST /api/audit/verify.
VerifyStarts ==
    /\ walk.pc = "idle"
    /\ walk' = [WalkIdle EXCEPT !.pc = "chain"]
    /\ UNCHANGED <<auditRows, archive, oldInsert, chainLock, tableLock, appender,
                   checkpoint, reviewed, refusals>>

\* One findMany: the next AuditBatch positions after the cursor, in order.
WalkPage == {i \in DOMAIN auditRows : /\ auditRows[i].seq > walk.cursor
                                      /\ Cardinality({j \in DOMAIN auditRows :
                                             /\ auditRows[j].seq > walk.cursor
                                             /\ auditRows[j].seq < auditRows[i].seq}) < AuditBatch}

\* The checksum the walk holds before it checks row i of the page.
WalkPrev(i) ==
    LET before == {j \in WalkPage : auditRows[j].seq < auditRows[i].seq}
    IN IF before = {} THEN walk.prev
       ELSE auditRows[CHOOSE j \in before : \A k \in before : auditRows[k].seq <= auditRows[j].seq].sum

\* Next position, linked to the previous checksum, and the HMAC of what is stored.
RowVerifies(i) ==
    LET r == auditRows[i]
        expected == walk.cursor + 1 + Cardinality({j \in WalkPage : auditRows[j].seq < r.seq})
    IN /\ r.seq = expected
       /\ r.prev = WalkPrev(i)
       /\ r.sum = checksumV2(r.prev, expected, r.mark)

\* walkV2Chain, one page: stop at the first break, else move the cursor; a
\* short page ends the walk (the CHECK constraint leaves no stray row).
walkV2Chain ==
    /\ walk.pc = "chain"
    /\ IF \A i \in WalkPage : RowVerifies(i)
       THEN LET last == CHOOSE i \in WalkPage : \A j \in WalkPage : auditRows[j].seq <= auditRows[i].seq
                marks == {i \in WalkPage : IsCheckpointRow(auditRows[i])}
                seen == IF marks = {} THEN walk.found
                        ELSE auditRows[CHOOSE i \in marks :
                                 \A j \in marks : auditRows[j].seq <= auditRows[i].seq].mark
            IN walk' = [walk EXCEPT
                   !.pc = IF Cardinality(WalkPage) < AuditBatch THEN "archive" ELSE "chain",
                   !.cursor = IF WalkPage = {} THEN @ ELSE auditRows[last].seq,
                   !.prev = IF WalkPage = {} THEN @ ELSE auditRows[last].sum,
                   !.found = seen,
                   !.verdict = IF Cardinality(WalkPage) < AuditBatch THEN "valid" ELSE "none"]
       ELSE walk' = [walk EXCEPT !.pc = "archive", !.verdict = "broken"]
    /\ UNCHANGED <<auditRows, archive, oldInsert, chainLock, tableLock, appender,
                   checkpoint, reviewed, refusals>>

\* checkpointStatus(checkpoint, legacy), read after the walk.
checkpointStatus ==
    IF walk.found = NotReviewed THEN IF archive = 0 THEN "not-required" ELSE "missing"
    ELSE IF walk.found = archive THEN "matches" ELSE "mismatch"

VerifyReports ==
    /\ walk.pc = "archive"
    /\ walk' = [WalkIdle EXCEPT !.verdict = walk.verdict, !.legacy = checkpointStatus]
    /\ UNCHANGED <<auditRows, archive, oldInsert, chainLock, tableLock, appender,
                   checkpoint, reviewed, refusals>>

-----------------------------------------------------------------------------
AuditInit ==
    /\ auditRows = <<>> /\ archive = 0 /\ oldInsert = FALSE
    /\ chainLock = Unheld /\ tableLock = FALSE
    /\ appender = [w \in Appenders |-> AppenderIdle]
    /\ checkpoint = CheckpointIdle /\ reviewed = NotReviewed /\ refusals = 0
    /\ walk = WalkIdle

AuditNext ==
    \/ \E w \in Appenders :
           \/ AppendLocks(w) \/ AppendReads(w) \/ AppendInserts(w)
           \/ AppendCommits(w) \/ AppendRollsBack(w)
    \/ OldReleaseInserts \/ OldReleaseEnds \/ DryRun
    \/ CheckpointLocks \/ CheckpointLocksTable \/ CheckpointDecides
    \/ CheckpointCommits \/ CheckpointRollsBack
    \/ VerifyStarts \/ walkV2Chain \/ VerifyReports

AuditSpec == AuditInit /\ [][AuditNext]_auditVars

-----------------------------------------------------------------------------
\* However appends, roll-backs, the previous release and the checkpoint
\* interleave with it, a verification that reads the chain page by page and
\* without a transaction never calls an untouched chain broken, no append
\* loses its position to another (lib/audit.ts:145-160, 351-389), and the
\* archive is recorded at most once, with the count and digest it has at the
\* moment the event commits (scripts/checkpoint-audit-chain.ts:14-17).
HonestChainVerifies ==
    [][/\ walk'.verdict # "broken" /\ refusals' = 0
       /\ \A i \in DOMAIN auditRows' :
            (i \notin DOMAIN auditRows /\ IsCheckpointRow(auditRows'[i]))
                => auditRows'[i].mark = archive' /\ latestCheckpoint = {}]_auditVars
=============================================================================
