----------------------------- MODULE PurgeSaga -----------------------------
(***************************************************************************)
(* Deletion of a memory: the tombstone and the purge saga behind it.        *)
(*                                                                         *)
(*   the saga       packages/storage-sqlite/src/purge-repository.ts        *)
(*   its tables     migrations/0005-tombstone-purge.sql,                   *)
(*                  migrations/0018-purge-physical-saga.sql                *)
(*   the client     packages/storage-sqlite/src/client.ts, runPurge        *)
(*   the operator   apps/operator-cli/src/commands/purge-audit.ts          *)
(*   the audit      packages/storage-sqlite/src/operational-repository.ts  *)
(*                                                                         *)
(* A delete only tombstones the memory and leaves a purge job.  A run of    *)
(* the job is three requests to the storage worker.  The first redacts the  *)
(* nine stores and records what it found; it is one transaction, that of    *)
(* the recovery effect around it.  The second removes the blob files and    *)
(* compacts the database, outside any transaction.  The third publishes the *)
(* receipt.  The process may die between any two, and inside the second.    *)
(*                                                                         *)
(* The job of a memory is named by the memory.  Evidence cites nothing else *)
(* of the memory model: its payload is text in the row (NoBlob) or a blob   *)
(* that other evidence of the same content shares.                         *)
(***************************************************************************)
EXTENDS Naturals, Sequences, FiniteSets

CONSTANTS
    Memories,     \* memory objects, each with one purge job
    Evidence,     \* evidence events
    Cites,        \* the evidence each memory rests on
    Contents,     \* blob contents, by hash
    NoBlob,       \* the payload of evidence that is text
    BlobOf,       \* the payload of each piece of evidence
    Callers,      \* runPurge calls that may be under way at once
    MaxAttempts,  \* bound: runs of one job
    MaxBackups,   \* bound: backups taken
    MaxCrashes,   \* bound: process deaths
    FailAt,       \* the stores, by position, whose purge may fail
    Operators     \* those of them that the operator's purge retry makes

\* PurgeStoreSchema.options, in the order in which a run visits them.
Stores == <<"memory_revisions", "candidates", "conflicts", "fts", "context",
            "exports", "blobs", "backups", "projections">>

ASSUME PurgeAssumption ==
    /\ Cites \in [Memories -> SUBSET Evidence]
    /\ NoBlob \notin Contents
    /\ BlobOf \in [Evidence -> Contents \cup {NoBlob}]
    /\ MaxAttempts \in Nat \ {0} /\ MaxBackups \in Nat /\ MaxCrashes \in Nat
    /\ FailAt \subseteq 1 .. Len(Stores)
    /\ Operators \subseteq Callers
    /\ Memories \cap Evidence = {}

VARIABLES
    memory,    \* lifecycle of each memory object
    evidence,  \* whether the payload of each piece of evidence is there
    copies,    \* the stores that hold text of each memory
    indexed,   \* the memories and evidence in the full-text index
    queued,    \* those with a pending job in the full-text outbox
    rows,      \* the contents with a row in artifacts
    files,     \* the contents with a blob file
    intent,    \* purge_blob_deletion_intents
    unswept,   \* the redacted whose text still lies in free pages or the WAL
    job,       \* purge_jobs
    guard,     \* purge_redaction_guard: its one row, a set of one or none
    maint,     \* purge_physical_maintenance, with the outcomes it hashes
    receipt,   \* the latest purge receipt of each job
    epoch,     \* tombstone_state
    frontier,  \* artifact_purge_frontiers, taken together
    backups,   \* backup_manifests, each with what the copy holds
    call,      \* the runPurge calls
    crashes

ledger == <<memory, evidence, copies, indexed, queued>>
blobs == <<rows, files, intent>>
saga == <<job, guard, maint, receipt, frontier>>
vars == <<ledger, blobs, unswept, saga, epoch, backups, call, crashes>>

Attempts == 1 .. MaxAttempts
Outcomes == [1 .. Len(Stores) -> {"verified", "residual", "failed"}]
Unseen == [i \in 1 .. Len(Stores) |-> "failed"]
NoRow == [state |-> "none", outcomes |-> Unseen]
NoReceipt == [attempt |-> 0, of |-> 0, state |-> "none"]
Holding == {"memory_revisions", "candidates", "context", "exports", "projections"}

PInit ==
    /\ memory = [m \in Memories |-> "absent"]
    /\ evidence = [e \in Evidence |-> "absent"]
    /\ copies = [m \in Memories |-> {}]
    /\ indexed = {} /\ queued = {}
    /\ rows = {} /\ files = {}
    /\ intent = [m \in Memories |-> [k \in Contents |-> "none"]]
    /\ unswept = {}
    /\ job = [m \in Memories |-> [status |-> "none", attempts |-> 0, epoch |-> 0]]
    /\ guard = {}
    /\ maint = [m \in Memories |-> [a \in Attempts |-> NoRow]]
    /\ receipt = [m \in Memories |-> NoReceipt]
    /\ epoch = 0
    /\ frontier = [epoch |-> 0, debt |-> FALSE]
    /\ backups = {}
    /\ call = [c \in Callers |-> [step |-> "idle"]]
    /\ crashes = 0

-----------------------------------------------------------------------------
(* The ledger before a deletion.                                           *)

PendingIntent(k) == \E m \in Memories : intent[m][k] = "pending"

\* The contents that may not be written to artifacts.
Blocked == {k \in Contents : PendingIntent(k)}

\* commitEpisode.  The blob file is written before the transaction, which the
\* trigger artifacts_block_pending_purge_intent may abort.
Capture(e) ==
    LET k == BlobOf[e] IN
    /\ evidence[e] = "absent"
    /\ files' = IF k = NoBlob THEN files ELSE files \cup {k}
    /\ \/ /\ k \in Blocked
          /\ UNCHANGED <<evidence, queued, rows>>
       \/ /\ k \notin Blocked
          /\ evidence' = [evidence EXCEPT ![e] = "live"]
          /\ queued' = IF k = NoBlob THEN queued \cup {e} ELSE queued
          /\ rows' = IF k = NoBlob THEN rows ELSE rows \cup {k}
    /\ UNCHANGED <<memory, copies, indexed, intent, unswept, saga, epoch,
                   backups, call, crashes>>

\* admit: the evidence must be there and not purged.
Admit(m) ==
    /\ memory[m] = "absent"
    /\ \A e \in Cites[m] : evidence[e] = "live"
    /\ memory' = [memory EXCEPT ![m] = "active"]
    /\ copies' = [copies EXCEPT ![m] = Holding]
    /\ queued' = queued \cup {m}
    /\ UNCHANGED <<evidence, indexed, blobs, unswept, saga, epoch, backups,
                   call, crashes>>

\* The queue of the full-text index names what changed; drain reads it anew.
Searchable(i) ==
    \/ i \in Evidence /\ evidence[i] = "live"
    \/ /\ i \in Memories /\ memory[i] = "active"
       /\ \A e \in Cites[i] : evidence[e] # "purged"

Drain(i) ==
    /\ i \in queued
    /\ queued' = queued \ {i}
    /\ indexed' = IF Searchable(i) THEN indexed \cup {i} ELSE indexed \ {i}
    /\ UNCHANGED <<memory, evidence, copies, blobs, unswept, saga, epoch,
                   backups, call, crashes>>

\* deleteMemory
Delete(m) ==
    /\ memory[m] = "active"
    /\ epoch' = epoch + 1
    /\ memory' = [memory EXCEPT ![m] = "purged"]
    /\ job' = [job EXCEPT ![m] = [status |-> "pending", attempts |-> 0,
                                  epoch |-> epoch + 1]]
    /\ queued' = queued \cup {m}
    /\ UNCHANGED <<evidence, copies, indexed, blobs, unswept, guard, maint,
                   receipt, frontier, backups, call, crashes>>

\* createBackup: a copy of the database as it stands, refused while physical
\* maintenance is pending.
PendingRow(m) == \E a \in Attempts : maint[m][a].state = "pending"

Backup ==
    /\ Cardinality(backups) < MaxBackups
    /\ \A m \in Memories : ~PendingRow(m)
    /\ backups' = backups \cup
         {[epoch |-> epoch,
           evidence |-> {e \in Evidence : evidence[e] = "live"},
           memories |-> {m \in Memories : "memory_revisions" \in copies[m]}]}
    /\ UNCHANGED <<ledger, blobs, unswept, saga, epoch, call, crashes>>

-----------------------------------------------------------------------------
(* A run of the purge job: prepare.                                        *)

Go(c, step) == call' = [call EXCEPT ![c] = step]
Return(c) == Go(c, [step |-> "idle"])
Maintains(m, a) == [step |-> "prepared", m |-> m, attempt |-> a,
                    prior |-> receipt[m].attempt]

\* The operator's retry is bound to the receipt of an earlier run.
MayRun(c, m) == c \in Operators => receipt[m] # NoReceipt

\* A running job with a maintenance row resumes there.  The query has no
\* order and does not ask for the row of the job's last attempt.
Awaiting(m) == {a \in Attempts : maint[m][a].state # "none"}

Resume(c, m) ==
    /\ call[c].step = "idle"
    /\ MayRun(c, m)
    /\ job[m].status = "running"
    /\ \E a \in Awaiting(m) : Go(c, Maintains(m, a))
    /\ UNCHANGED <<ledger, blobs, unswept, saga, epoch, backups, crashes>>

\* mutation: evidence another live memory rests on is not spared
SharedNever(m, e) == FALSE

Shared(m, e) == \E n \in Memories \ {m} : e \in Cites[n] /\ memory[n] = "active"

\* What a run removes that gets as far as the store before position f; 0 is a
\* run that fails nowhere.
Reaches(f, i) == f = 0 \/ i < f
RunEvidence(m, f) ==
    [e \in Evidence |->
       IF /\ Reaches(f, 1) /\ e \in Cites[m]
          /\ evidence[e] = "live" /\ ~Shared(m, e)
       THEN "purged" ELSE evidence[e]]
Kept(m, f) == {Stores[i] : i \in {j \in 1 .. Len(Stores) : ~Reaches(f, j)}}
Gone(m, ev) == {m} \cup {e \in Cites[m] : ev[e] = "purged"}

\* What the run takes text away from; it stays in free pages and in the log.
Touched(m, f, ev) ==
    {e \in Evidence : ev[e] # evidence[e]}
    \cup {n \in {m} : copies[m] \cap Kept(m, f) # copies[m]}
    \cup (IF Reaches(f, 4) THEN indexed \cap Gone(m, ev) ELSE {})

Listed(m) == {BlobOf[e] : e \in Cites[m]} \cap rows

Referenced(k, ev) == \E e \in Evidence : BlobOf[e] = k /\ ev[e] = "live"
Freed(m, f, ev) == IF Reaches(f, 7) THEN {k \in Listed(m) : ~Referenced(k, ev)} ELSE {}

Outcome(m, f, ev) ==
    [i \in 1 .. Len(Stores) |->
       IF ~Reaches(f, i) THEN "failed"
       ELSE IF \/ i \in {1, 5} /\ \E e \in Cites[m] : Shared(m, e)
               \/ i = 7 /\ \E k \in Listed(m) : Referenced(k, ev)
               \/ i = 8 /\ \E b \in backups : b.epoch < job[m].epoch
       THEN "residual" ELSE "verified"]

\* mutation: the claim does not ask for the guard
MayClaimUnguarded(m) ==
    /\ job[m].status \in {"pending", "partial", "failed"}
    /\ job[m].attempts < MaxAttempts
    /\ ~PendingRow(m)

\* The claim takes the guard's only row.  One pending maintenance row per job
\* is all that the index purge_physical_maintenance_one_pending allows.
MayClaim(m) ==
    /\ job[m].status \in {"pending", "partial", "failed"}
    /\ job[m].attempts < MaxAttempts
    /\ guard \subseteq {m}
    /\ ~PendingRow(m)

Prepare(c, m) ==
    /\ call[c].step = "idle"
    /\ MayRun(c, m)
    /\ MayClaim(m)
    /\ \E f \in {0} \cup FailAt :
         LET ev == RunEvidence(m, f)
             a == job[m].attempts + 1 IN
         /\ evidence' = ev
         /\ copies' = [copies EXCEPT ![m] = @ \cap Kept(m, f)]
         /\ indexed' = IF Reaches(f, 4) THEN indexed \ Gone(m, ev) ELSE indexed
         /\ queued' = IF Reaches(f, 9) THEN queued \ Gone(m, ev) ELSE queued
         /\ rows' = rows \ Freed(m, f, ev)
         /\ intent' = [intent EXCEPT ![m] =
              [k \in Contents |-> IF k \in Freed(m, f, ev) /\ @[k] = "none"
                                  THEN "pending" ELSE @[k]]]
         /\ unswept' = unswept \cup Touched(m, f, ev)
         /\ maint' = [maint EXCEPT ![m][a] =
              [state |-> "pending", outcomes |-> Outcome(m, f, ev)]]
         /\ Go(c, Maintains(m, a))
    /\ job' = [job EXCEPT ![m].status = "running", ![m].attempts = @ + 1]
    /\ guard' = {m}
    /\ UNCHANGED <<memory, files, receipt, frontier, epoch, backups, crashes>>

-----------------------------------------------------------------------------
(* finalizePhysicalMaintenance: blob files, VACUUM, truncation of the WAL.  *)

ToUnlink(m) == {k \in Contents : intent[m][k] = "pending"}

Done(m, D) == intent' = [intent EXCEPT ![m] =
                  [k \in Contents |-> IF k \in D THEN "completed" ELSE @[k]]]

Finalize(c) ==
    /\ call[c].step = "prepared"
    /\ LET m == call[c].m
           a == call[c].attempt IN
       IF maint[m][a].state = "completed" THEN UNCHANGED <<blobs, unswept, maint>>
       ELSE /\ \A k \in ToUnlink(m) : ~Referenced(k, evidence)
            /\ rows' = rows \ ToUnlink(m)
            /\ files' = files \ ToUnlink(m)
            /\ Done(m, ToUnlink(m))
            /\ unswept' = {}
            /\ maint' = [maint EXCEPT ![m][a].state = "completed"]
    /\ Go(c, [call[c] EXCEPT !.step = "finalized"])
    /\ UNCHANGED <<ledger, job, guard, receipt, frontier, epoch, backups, crashes>>

Idle == call' = [c \in Callers |-> [step |-> "idle"]]

\* mutation: the intent is completed before its file is unlinked
InterruptedAhead(m) ==
    {x \in [U : SUBSET ToUnlink(m), D : SUBSET ToUnlink(m)] :
        x.U \subseteq x.D /\ Cardinality(x.D \ x.U) <= 1}

\* How far it may have got when the process dies in the middle: the files of U
\* are gone, and the intents of D are completed.
Interrupted(m) ==
    {x \in [U : SUBSET ToUnlink(m), D : SUBSET ToUnlink(m)] :
        x.D \subseteq x.U /\ Cardinality(x.U \ x.D) <= 1}

FinalizeDies(c) ==
    /\ crashes < MaxCrashes
    /\ crashes' = crashes + 1
    /\ call[c].step = "prepared"
    /\ LET m == call[c].m IN
       /\ maint[m][call[c].attempt].state = "pending"
       /\ \A k \in ToUnlink(m) : ~Referenced(k, evidence)
       /\ \E x \in Interrupted(m) :
            /\ rows' = rows \ x.U
            /\ files' = files \ x.U
            /\ Done(m, x.D)
            /\ unswept' \in {unswept} \cup (IF x.D = ToUnlink(m) THEN {{}} ELSE {})
    /\ Idle
    /\ UNCHANGED <<ledger, saga, epoch, backups>>

Crash ==
    /\ crashes < MaxCrashes
    /\ crashes' = crashes + 1
    /\ \E c \in Callers : call[c].step # "idle"
    /\ Idle
    /\ UNCHANGED <<ledger, blobs, unswept, saga, epoch, backups>>

-----------------------------------------------------------------------------
(* complete: the receipt of the run.                                       *)

\* mutation: what is left behind does not keep a job from completing
VerdictOfFailures(out) ==
    IF \E i \in DOMAIN out : out[i] = "failed" THEN "failed" ELSE "completed"

Verdict(out) ==
    IF \E i \in DOMAIN out : out[i] = "failed" THEN "failed"
    ELSE IF \E i \in DOMAIN out : out[i] = "residual" THEN "partial"
    ELSE "completed"

\* updateArtifactPurgeFrontiers: the run of an older tombstone changes nothing.
Indebted(out) == \E i \in DOMAIN out : out[i] # "verified"

Advance(m, out) ==
    frontier' = IF job[m].epoch < epoch THEN frontier
                ELSE [epoch |-> job[m].epoch, debt |-> Indebted(out)]

MayPublish(c, m, a) ==
    /\ c \in Operators => receipt[m].attempt = call[c].prior
    /\ job[m].status = "running"
    /\ maint[m][a].state = "completed"

\* mutation: the redaction guard is left behind
PublishGuarded(c) ==
    /\ call[c].step = "finalized"
    /\ LET m == call[c].m
           a == call[c].attempt
           out == maint[m][a].outcomes IN
       /\ MayPublish(c, m, a)
       /\ receipt' = [receipt EXCEPT ![m] =
            [attempt |-> job[m].attempts, of |-> a, state |-> Verdict(out)]]
       /\ job' = [job EXCEPT ![m].status = Verdict(out)]
       /\ Advance(m, out)
       /\ guard' = guard
    /\ Return(c)
    /\ UNCHANGED <<ledger, blobs, unswept, maint, epoch, backups, crashes>>

Publish(c) ==
    /\ call[c].step = "finalized"
    /\ LET m == call[c].m
           a == call[c].attempt
           out == maint[m][a].outcomes IN
       /\ MayPublish(c, m, a)
       /\ receipt' = [receipt EXCEPT ![m] =
            [attempt |-> job[m].attempts, of |-> a, state |-> Verdict(out)]]
       /\ job' = [job EXCEPT ![m].status = Verdict(out)]
       /\ Advance(m, out)
       /\ guard' = guard \ {m}
    /\ Return(c)
    /\ UNCHANGED <<ledger, blobs, unswept, maint, epoch, backups, crashes>>

\* The call fails, or another has published and it gets that receipt.
PublishRefused(c) ==
    /\ call[c].step = "finalized"
    /\ ~MayPublish(c, call[c].m, call[c].attempt)
    /\ Return(c)
    /\ UNCHANGED <<ledger, blobs, unswept, saga, epoch, backups, crashes>>

-----------------------------------------------------------------------------
Run(c) ==
    \/ \E m \in Memories : Prepare(c, m) \/ Resume(c, m)
    \/ Finalize(c) \/ Publish(c) \/ PublishRefused(c)

PNext ==
    \/ \E e \in Evidence : Capture(e)
    \/ \E m \in Memories : Admit(m) \/ Delete(m)
    \/ \E i \in Memories \cup Evidence : Drain(i)
    \/ \E c \in Callers : Run(c)
    \/ \E c \in Callers : FinalizeDies(c)
    \/ Crash
    \/ Backup

PSpec == PInit /\ [][PNext]_vars

\* The operator runs each job again and again, and a process that runs a job
\* goes on with it.
PFairSpec ==
    /\ PSpec
    /\ \A c \in Callers :
         /\ \A m \in Memories : SF_vars(Prepare(c, m) \/ Resume(c, m))
         /\ WF_vars(Finalize(c)) /\ WF_vars(Publish(c)) /\ WF_vars(PublishRefused(c))

-----------------------------------------------------------------------------
(* Properties.                                                             *)

Statuses == {"pending", "running", "partial", "failed", "completed"}
Steps == [step : {"idle"}]
    \cup [step : {"prepared", "finalized"}, m : Memories, attempt : Attempts,
          prior : 0 .. MaxAttempts]

\* Type correctness of the tables, the files and the calls.
TypeOK ==
    /\ memory \in [Memories -> {"absent", "active", "purged"}]
    /\ evidence \in [Evidence -> {"absent", "live", "purged"}]
    /\ copies \in [Memories -> SUBSET Holding]
    /\ indexed \subseteq Memories \cup Evidence
    /\ queued \subseteq Memories \cup Evidence
    /\ rows \subseteq Contents /\ files \subseteq Contents
    /\ intent \in [Memories -> [Contents -> {"none", "pending", "completed"}]]
    /\ unswept \subseteq Memories \cup Evidence
    /\ job \in [Memories -> [status : {"none"} \cup Statuses,
                             attempts : 0 .. MaxAttempts, epoch : Nat]]
    /\ guard \subseteq Memories
    /\ maint \in [Memories -> [Attempts ->
          [state : {"none", "pending", "completed"}, outcomes : Outcomes]]]
    /\ receipt \in [Memories -> [attempt : 0 .. MaxAttempts, of : 0 .. MaxAttempts,
                                 state : {"none"} \cup Statuses]]
    /\ epoch \in Nat
    /\ frontier \in [epoch : Nat, debt : BOOLEAN]
    /\ backups \subseteq [epoch : Nat, evidence : SUBSET Evidence,
                          memories : SUBSET Memories]
    /\ call \in [Callers -> Steps]
    /\ crashes \in Nat

\* The redaction guard is open for the running job and for no other: while a
\* run is unfinished the append-only tables yield to it alone, and afterwards
\* to nobody.
GuardIsRunningJob == guard = {m \in Memories : job[m].status = "running"}

\* A completed job has left nothing: no store holds text of the memory, the
\* evidence that it rested on is redacted, the index finds neither, and the
\* pages and the log have been swept.
CompletedIsGone ==
    \A m \in Memories : job[m].status = "completed" =>
        /\ copies[m] = {}
        /\ \A e \in Cites[m] : evidence[e] = "purged"
        /\ ({m} \cup Cites[m]) \cap (indexed \cup unswept) = {}

\* No purge touches what is still in use: evidence that a live memory rests
\* on keeps its payload, and the blob of live evidence keeps row and file.
LiveIsServed ==
    /\ \A m \in Memories : memory[m] = "active" =>
           \A e \in Cites[m] : evidence[e] = "live"
    /\ \A e \in Evidence : evidence[e] = "live" /\ BlobOf[e] # NoBlob =>
           BlobOf[e] \in rows \cap files

\* Every blob file is one that the database knows of, by its row or by an
\* intent to delete it, wherever a run of the job is cut off.  Only a job run
\* again may forget a file: its completed intent hides that the content has
\* been captured anew.
FilesAreKnown ==
    \A k \in files : \/ k \in rows \/ PendingIntent(k)
                     \/ \E m \in Memories : intent[m][k] = "completed" /\ job[m].attempts > 1

\* auditPurgeArtifacts reports a complete purge.
AuditComplete == epoch > 0 /\ frontier.epoch = epoch /\ ~frontier.debt

\* A complete audit means the newest tombstone's job is completed, and a job
\* run since for an older tombstone has not changed that.
AuditCoversNewest ==
    AuditComplete =>
        \A m \in Memories : job[m].epoch = epoch => job[m].status = "completed"

\* Blob files and audit agree with the tables, however runs interleave and
\* wherever they are cut off.
SagaSound == TypeOK /\ FilesAreKnown /\ AuditCoversNewest

\* A job whose receipt is published has no physical maintenance pending.
PublishedIsMaintained ==
    \A m \in Memories :
        job[m].status \in {"partial", "failed", "completed"} => ~PendingRow(m)

\* Every purge job is run and completes.
PurgesComplete ==
    \A m \in Memories : job[m].status = "pending" ~> job[m].status = "completed"
=============================================================================
