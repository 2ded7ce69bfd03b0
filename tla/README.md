# memo-graph: a verification project

memo-graph keeps the long-term memory of coding agents: a host process owns a
data root (SQLite, blob files, projections), Codex hooks and MCP clients send
it events and requests, background lanes turn captured turns into governed
memories, and an operator backs up, purges, restores and upgrades the root.

This directory models the parts of that system whose correctness depends on
order, failure and restart. Each module is translated from the TypeScript and
SQL it names; `PROJECT.json` maps every definition to the lines it stands for.
TLC checks small instances of every component; TLAPS proves what section 5
lists for every value of the constants.

## 1. Inventory

State and operations of each component, what is hard about it and what makes it
correct.

| component | state | operations | hard | correct when |
|-|-|-|-|-|
| Recovery authority (`client.ts`, `anchor-coordinator.ts`, `database.ts`): RecoveryHead, AnchoredLedger | external head with reservations and terminal records; effect rows and checkpoint in SQLite | protected operation (reserve, effect, commit, reconcile), retry, replay, backup anchor, startup | a crash or a lost answer between any two stores; a failure while a failure is handled | an effect happens once, is never orphaned, is acknowledged only when anchored, and startup settles what a crash left |
| File recovery-head provider (`anchor-coordinator.ts`): RecoveryJournal, HeadProvider, HeadState | journal, `head.json`, terminal record, index and sequence files, lock | read, reserve, commit, reconcile, abort, compaction, repair on read | process death between file operations; a second process that reads and repairs | each operation happens once or not at all; nothing a crash leaves makes the head unreadable |
| Formation lane (`automatic-memory-repository.ts`, `runtime-factory.ts`, `memory-formation`): FormationJobs | turns, formation jobs, audit, decisions, failures | capture, claim, extract, propose, audit, complete, fail, lease expiry | events captured while a job is processed; leases; escaped exceptions; restart | turn and job agree, completion belongs to the latest attempt, every paired turn is settled |
| Codex hooks and spool (`codex-bootstrap`): HookSpool | spool directory, quarantine, host's inbox | flush, send, enqueue, acknowledge, quarantine | no lock: processes race on a directory; kills; late answers | no spooled event is lost before it is captured; bound; drains |
| Deletion and purge (`purge-repository.ts`): PurgeSaga | memories, evidence, blobs, index, jobs, guard, maintenance rows, receipts, frontier, backups | delete, prepare, finalize, complete, resume, capture and backup beside them | three requests in three transactions with files in between; shared evidence and blobs; retries | nothing in use is purged; a completed job has left nothing; the audit tells the truth |
| Root writer lease (`root-lease.ts`, `client.ts`, `codex-bootstrap`): RootLease | lock file, fence file, clock | acquire, heartbeat, release, recovery of a dead owner's lock | check-then-rename without a lock; deaths between two accesses; slow owners | one writer per root; a live lease stands; fences only grow; a dead lock goes |
| Storage client (`client.ts`, `writer-queue.ts`, `admission-control.ts`): StorageClient | queue, worker, pressure, shared writes, checkpoint | ask, admit twice, run, answer, exit, replace, close | a worker that dies, full disk or queue, a shutdown, two calls under one key | one operation at a time, each call settles once with its own answer, nothing after the lease is lost |
| Background lanes (`background-supervisor.ts`): BackgroundLanes | lanes, timer, rotation | wake, run, back off, drain | a lane that is always due, a run that ends without a timer | every due lane gets its turn |
| Host sessions (`host.ts`, `runtime-factory.ts`): HostSessions | sockets, handles, tickets, page sessions | negotiate, open once, attach, detach, stop | a peer that hangs up, or a shutdown, while a session is attached | no handle outlives its socket; a shutdown ends |
| Workbench launch (`memory-workbench-host`): WorkbenchLaunch | launch lock, descriptors, credentials, lease | look, lock, recover, spawn, start, stop | launchers and dying hosts between any two file accesses | one runtime, found by every launcher; a death leaves nothing in the way |
| Workbench service (`workbench-service.ts`, `snapshot-registry.ts`): WorkbenchService | snapshots, members, previews, confirmations | list, next page, preview, confirm | revisions and purges under a list; a confirmation repeated | a list is whole or says it is stale; a correction is applied once |
| Governance (`governance-repository.ts`): Governance | candidates, memories, revisions, conflict groups, approvals | propose, admit, correct, control, release, delete | calls prepared against one revision, applied in any order and retried | linear history; a call is answered once |
| Full-text and layered projections (`fts-index.ts`, `projection-repository.ts`, `consolidation-service.ts`): FtsIndex, LayeredProjections | outbox jobs, active rows, scope states, batches | claim, build, publish, fail, rebuild, invalidate | what was read is published after it changed; jobs out of order | what is active is eligible; every scope is projected again |
| Graph and vector delivery (`graph-projection`, `vector-retrieval`): GraphDelivery, VectorDelivery | outbox jobs, checkpoints, generations, directories | claim, stage, apply, publish, rebuild, search | three stores without a common transaction | what is published is current or has a job; an answer is current when it is given |
| Child processes of the projections (`process-host.ts`): ProcessHost | generations, requests, circuit | start, request, answer, time out, kill, exit, restart, close | late messages and exits of a former child | each request settles once, by its own child; restarts are bounded |
| Learning releases (`learning-lab`, `learning-repository.ts`): LearningReleases | candidates, canaries, release rows, pointer, control | propose, evaluate, try, sign, check, write, pause, resume | read, verified and written in separate calls | the pointer is its rows; only what was tested is released |
| Keys and secrets (`key-repository.ts`, `encrypted-content-store.ts`, `secret-ingress.ts`): SecretStore | keys, contents, files, reservations, rotations, backup intents | admit, rotate, resume, abort, revoke, purge | a death between reservation, file, row and retirement | the active content is readable under its key; what is purged is gone |
| Operator actions (`operator-cli`): OperatorActions | ledger records, confirmations, locks, receipts | lock, check, decide, effect, record, recover a lock | a death between ledger transitions; a confirmation's life | an action happens once, under a valid confirmation, and is reported |
| Restore (`restore.ts`, `no-replace-publish.ts`): RestorePublication | target, reservation, staging, markers, head | stage, reserve, rename, verify, finalize | two operations, a host beside, a head that moves | nothing is overwritten; one lineage is opened |
| Recall and context compilation (`recall-orchestrator.ts`, `context-compiler`, `database.ts`): ContextRecall | the reads of each attempt, the recorded slice | read lanes, revalidate, compile, record, replay, redact | memories that change between any two reads, repeated requests | an answer holds nothing that was out of use when its reads began, and loses nothing that stood |
| Contracts, migrations, IPC framing, MCP server, provider call, redaction, web UI, installation, benchmarks | | | | not modelled: section 7 |

How they interact. Hooks call the host's capture endpoint over a local socket
(HookSpool); the endpoint writes evidence and the inbox row through the storage
client (FormationJobs starts there). The storage client runs one request at a
time on a worker thread (StorageClient); a protected request goes through the
recovery authority (RecoveryHead), whose external half is the file provider
(RecoveryJournal). A memory is created, revised and tombstoned by such requests
(Governance), each of which leaves jobs for the full-text index and the layered
projections, whose batches in turn feed the graph and the vector store
(composed in MCGovernance). A recall reads all of them (ContextRecall). A purge
is three requests (PurgeSaga). Because the writer queue runs one request at a
time, every module takes "one transaction" as a step where the code runs one
request, and no step where it does not. That only one process has such a queue
is what RootLease is about.

## 2. Plan

1. RecoveryHead and RecoveryJournal with their abstract specifications. *Done.*
2. FormationJobs, HookSpool: the automatic path from a hook to a memory. *Done.*
3. PurgeSaga: the promise of deletion. *Done.*
4. RootLease, WorkbenchLaunch, StorageClient, BackgroundLanes, HostSessions: the
   running host and what lets it run. *Done.*
5. Governance with FtsIndex and LayeredProjections; GraphDelivery,
   VectorDelivery, ProcessHost. *Done.*
6. LearningReleases, SecretStore, OperatorActions, RestorePublication,
   WorkbenchService. *Done.*
7. ContextRecall. *Done*, without the vector and graph lanes.
8. Proofs: section 5. Open is what it names as only model-checked.
9. Left: the creation of backups and their manifest, the MCP server's sessions,
   the installer's transaction over several files.

Abstract specifications: AnchoredLedger (what callers of protected operations
are promised) and HeadProvider (an atomic provider).

## 3. Modules

Operators marked as a mutation, a fault or a mutated form are not part of any
specification. Each is a plausible bug next to the definition it would replace,
and shows that a property of the runs can fail.

Several components are checked in one run by a module that INSTANCEs them
(MCFiles, MCHost, MCGovernance, MCLive, MCRetries). There a behaviour is one of
one part, chosen by `part` in the initial state: the run explores the sum of the
parts, not their product. Only MCGovernance also composes: Governance with the
projections that follow its revisions. The fairness of a disjunction of actions
of different parts is the fairness of each.

### AnchoredLedger, RecoveryHead, RecoveryHeadProofs (run in MCRecoveryHead)

`AnchoredLedger` is the promise: an applied effect is witnessed later, the
anchored version grows, one effect waits at a time for a witness.
`RecoveryHead` is the protocol: `head`, `resv`, `terminal` are the provider's
state, `version`, `effects`, `cp` the database's, the rest is the client. Its
steps are the awaits of `#executeProtectedRequest`,
`#reconcileRecoveryEffect` and `#initializeRecoveryAuthority`; `lost` makes a
step take effect and be reported as failed. An anchor is its generation, a
state commitment a counter that an effect advances by a member of `Deltas`.
`Volatile` are the keys made up for one call. `relapsed` remembers that a failure
has hit the handling of a failure, where the code gives up more. Left out:
signatures, principals, request-hash mismatches, the monotone minimums of a
restore.

### HeadState, HeadProvider, RecoveryJournal, JournalProofs

`HeadState` is the provider's value and its transitions, `HeadProvider` the
atomic provider, `RecoveryJournal` the files: every process reads under the
lock, decides outside it, and persists under the lock taken again, one file
operation a step. A state's hash is the state (hashes do not collide). A
terminal chain is its sequence of (reservation, key). `Readers` are operator
commands: `readCurrent` repairs what it finds. A dead process's lock is taken
over in one step. Each file operation is atomic: a process death, not a loss
of power. `MaxJournal` 3 stands for the code's 64 entries.

### FormationJobs, FormationProofs

`turns` and `jobs` are the tables, `lane` the running host's lane with the batch
it claimed. A clock reading stands for the attempt that takes it, since
request hashes cover it: a retried proposal is another request under a used
key. `due` is `available_at` or the lease having run out (`Elapse`). A host
that dies is replaced by another worker id (`Restart`). The provider answers
any subset of `Proposals`, the policy refuses any part. The order of the queue
is any order.

### HookSpool, HookSpoolProofs

`spool` is the directory, `hook` the processes: listing, reading, sending,
unlinking, creating and writing are steps of their own. The host's answer is
`Accepted`, `Refused` (another request under a used key) or `Lost`, in which
case it may have committed the evidence alone or both. The `Visitor` stands
for hooks that only flush. `Overlap` says whether two deliveries of one event
may run at once. `Vanishes` is a file that another process removes while the
directory is listed. Left out: the bound in bytes, trimming of the quarantine.

### PurgeSaga, PurgeSagaProofs

One variable per table, `files` for the blob directory, `unswept` for text that
lies in free pages or the log until VACUUM and truncation, `call` for
the `runPurge` calls between their three requests. `Prepare` is one transaction
over the nine stores; `f` is the store at which the run fails, whose own savepoint
is rolled back and after which the rest is skipped. `FinalizeDies` is a
death in the middle of the second request, `Crash` one between requests.
`Operators` are the calls of the operator's purge retry, bound to an earlier
receipt. Left out: databases from before migration 0018, exports' residuals,
invalidation of learning artifacts, debts of encrypted content (SecretStore has
them), and the death between writing a blob file and the transaction of its
capture.

### RootLease (run and proved in MCFiles, FilesProofs)

`lockOwner`, `lockFence` and `expired` are the lock file: who created it, the
fence token in it (0 while it is empty), and whether `expires_at` has passed;
`fence` is the fence file. A host goes through `acquire` in four steps (create,
read the fence, replace it, write the lease), through `heartbeat` and `release`
in two each (check, then rewrite or remove), because another process may touch
the files in between. `writing` are the hosts whose worker may be changing the
database: from `open`, which writes before any further heartbeat, to the end of
a queue entry, and again after a heartbeat that admits one; a slow owner whose
lease has run out may thus still be writing. A bootstrap examines (reading,
expiry, dead pid, reading again) and then takes what is at the path. A host is
one process with one pid; `Restart` gives its name to a new process, which is
sound only once no lock carries the old one. `Overlap` says whether two
bootstraps may be between examining and taking at once. Left out: clocks that
step back (the heartbeat refuses), reused pids (they delay a recovery),
`inspectNextRootFenceToken`, and symbolic links of the root.

### WorkbenchLaunch

A launcher's `lpc` follows `launchOrReuse`: look, lock (or recover a dead
launcher's), look again, see whether the old runtime answers, clear its
artifacts, spawn, wait. A host's `hpc` follows its start, one publication a
step, each an exclusive link, and its shutdown. `files` says who published each
artifact. The launch lock is a directory somebody makes (`lock`) and then writes a
name into (`named`); a recovery takes away what lies at its path, whoever made it
and whether or not that launch goes on. `undercut` is a history variable: it
records that this has happened to a launch under way, and only properties read
it. The root lease is recovered in one step here (RootLease has its steps).
`blocked` is whatever keeps a runtime from opening; the host
then goes on and shows its health.

### StorageClient

`queue` is the writer queue with the running entry first, `at` what each caller
waits for, `inbox` and `answers` the two directions of the worker's port,
`waiting` the pending requests. An entry is admitted when it enters and again
when it starts. A protected write is its requests effect, row and, after a
failure, probe, row and replay; what happens at the recovery head in between is
RecoveryHead. A worker that throws answers nothing more, and the client hears of
it in two events. Room on the disk and length of the log are nondeterministic.
One workload stands for the hundred methods of the client.

### BackgroundLanes

The supervisor's `runDueOnce` and its timer; a lane waits, is due or runs.
`Overrun` says whether a run may outlast the other lanes' intervals, in which
case the last lane starves (a recorded divergence).

### HostSessions, HostProofs

`socket`, `step`, `handle` and `handles` are a proxy's connection, the position
of its handler, its MCP session and whether the host's map has it;
`tickets`, `sessions`, `services` and `requests` belong to the pages. `stop` is
how far the shutdown is. A socket's close arrives some time after it was
destroyed. Negotiation is one step (its frames are left out).

### WorkbenchService

A list is read page by page under a snapshot the registry may evict, let expire
or find stale; a correction is previewed, sealed, confirmed, and confirmed again
after a lost answer, beside other writers and purges. A memory is the sequence of
operations that made its revisions.

### Governance, LayeredProjections, FtsIndex, GovernanceProofs

Governance EXTENDS both projections: a mutation writes memories, receipt,
outbox jobs, marks and the ledger epoch in one step, as the transaction does.
`call` is a caller between what it read (expected revision, correction basis)
and its transaction, which may come late and twice. `lane` chooses the derived
lane a behaviour follows; the two share nothing. LayeredProjections has the
consolidation worker call by call (claim, read frontier, list sources, publish,
complete or fail), with lease, retries, the ledger's epoch as the precondition of a
publication, and the operator's rebuild; a projection is the set of revisions
it derives from. FtsIndex has one step per job, in any order a delay may
produce. Principals, validity times and sensitivity are constant throughout.

### GraphDelivery, VectorDelivery, ProcessHost (run in MCGovernance)

The two outboxes of one scope and their workers, each call of storage or store a
step that may fail before or after it took effect; the graph's checkpoint, leases
and rebuild, and its reader; the vector index's quarantine and active
directories, frontier of ledger epoch and passed validity transitions, and its
reader. ProcessHost is the parent of a child process: generations, requests and
deadlines, late messages of killed children, counted restarts and the open
circuit.

### LearningReleases

One release slot: transitions, evaluations and canaries of its candidates,
signed releases and rollbacks checked in one call and written in a later one,
the pointer, and pause and resume. The slot holds recall policies or a
memory's changes (`holds`).

### SecretStore, HostProofs

`reservations` are nonces, `content` and `files` the ciphertext rows and files,
`bound` the key under which an owner's content is read, `items` a rotation's
work. `op` is the operation in progress: the client's queue runs one at a time,
and a death cuts it off between two requests or inside one, after which the next
open reconciles files and backup intents. Left out: descriptors, approvals and
signatures, the governed and the dark-launch path of an admission.

### OperatorActions, RestorePublication (run and proved in MCFiles, FilesProofs)

OperatorActions is one confirmed destructive operation from its signature to its
receipt: two locks, the consumed confirmation, the record's five states, the
effect in the storage (which differs by command in what a death leaves and a
retry recognises), and the recovery of a dead execution's locks.
RestorePublication is the restore of a backup to a new root: reservation of the
name, staging, the rename that replaces nothing, finalization, the marker, and
the recovery head that may move meanwhile. `locked` says whether the ledger keeps
executions of one operation apart (it does for the command line; other callers
of `restoreBackupToEmptyDataRoot` have no such lock).

### ContextRecall

One request, sent once or twice, as the storage calls of an attempt with changes
between any two: the reads of its lanes, the batch of current revisions, the
revalidation, one more round, the compilation within the budget, the record with
its slice, the replay under the same id, the redaction by a purge. A memory
matches every query; a topic and a relation stand for the layered candidates.

### The compositions

MCRecoveryHead, MCFormationJobs and MCPurgeSaga instantiate one component each,
MCRecoveryJournal the journal for its violation. MCFiles (the components that keep
their state in files shared by processes), MCHost (the inside of a running
host), MCGovernance (memories with what derives from them, and the deliveries),
MCLive and MCRetries (liveness of the host's parts, and of what is retried)
instantiate several.

## 4. Runs

The passing runs:

| run | constants | shows |
|-|-|-|
| recovery | 2 keys (1 volatile), 3 reservations, 2 pending, 3 failures (one may hit the handling of another), 2 crashes, 2 backups | AtMostOnce, AnchorsAgree, AckedIsAnchored: an effect is applied once, is never orphaned by an abort, counts for one generation, and is acknowledged when anchored; DebtsAreSmall: without a relapse at most one effect is unsettled and startup can reconcile what it finds; RecoveryIsAppendOnly; AnchoredLedgerSpec (refinement); RecoverySettles: once crashes stop, a restarted host pays the debt and serves |
| files | 3 hosts, 2 bootstraps (one recovers at a time), 5 acquisitions; 3 hooks of 2 events, 1 entry kept; 2 keys, 2 reservations, 1 reader, generation 4, journal of 3, 2 deaths; 2 launchers, 2 deaths; 2 executions, 2 confirmations signed one after the other (the first expires), 1 recoverer, 3 commands, 1 failure; 2 restores, head 5, 2 deaths | OneWriter, LeaseIsKept; SpoolSound; JournalSound and the refinement HeadProviderSpec; HostIsFound; OperatorSound: one execution at a time, ledger and storage agree, no step without authority, nothing restored is overwritten, one lineage |
| formation | 1 turn, 2 generations, 2 proposals (1 changes scope), 2 attempts, batch 2, 1 restart, faults | JobsSound: turn and job agree, completion is the latest attempt's, links name admissions; SettledForGood |
| purge | 2 memories sharing evidence and a blob, 2 callers (1 the operator's retry), 2 attempts, 1 failing store, 1 backup, 1 death | SagaSound (types, no forgotten file, the audit covers the newest deletion), GuardIsRunningJob, LiveIsServed, CompletedIsGone |
| governance | 1 memory, 3 calls, 2 contents, 2 attempts of a job, 1 failure; 2 requests of a child, 1 restart, 2 instants; 1 scope of the graph (2 changes, 3 batches, 2 failures, 1 rebuild) and of the vectors (2 epochs, 1 transition, 1 switch, 2 failures) | LinearHistory, AnsweredOnce; ViewsSound: what a projection shows is eligible, or a job is there that removes it, and a scope said to be ready is; ChildrenSound: a request settles once, by its own child, restarts are bounded; DeliveriesSound: what is published is current or has a job, an answer is current when read |
| host | 3 calls in 2 workloads, queue of 2, 1 throwing worker; 2 proxies (1 place), 2 pages (1 session, 2 services); 2 sessions, 3 lists or 2 previews; 2 candidates and 3 requests, or 1 candidate, 2 requests and 2 changes of control; 2 owners, 2 admissions, 3 keys, 1 backup, 1 death; recalls of 1 or 2 scopes and memories with 1 or 2 changes | ClientSound: nothing outlives the lease, an answer is the caller's own, what begins has room; SessionsSound: no handle outlives its socket; AnswersSound: lists are whole or stale, corrections confirmed once, a recall holds nothing that was out of use when its reads began and misses nothing that stood; LearningKept: the pointer is its rows, released on merit; SecretsSound: what is active is readable under its key, what is purged is gone |
| live | small instances of formation (3 attempts), governance (2 calls), client (2 calls), 3 lanes, 2 proxies and a page | PairsSettle, ScopeSettles, CallsSettle, LanesAreServed, ShutdownEnds |
| retries | purge (2 memories, nothing shared, 2 deaths), spool (2 hooks, kills, outages), lease (3 hosts, 2 bootstraps), secrets (2 keys, 1 death), operator (1 execution at a time, all commands), restore (1 death) | PurgesComplete, SpoolDrains, StaleIsRecovered, RotationEnds, OperationsEnd |

Those that end in a violation (section 6): journal_abort, formation_interrupted,
purge_published, lease_overlap.

A property that groups several names them where it is defined; the mutants of
`PROJECT.json` say for each which change of the code it notices.

Why the bounds are enough. A counterexample to a property of RecoveryHead needs
at most two operations that meet (one that left a debt, one that runs into it),
a failure that leaves the debt, and a crash; the run allows one more of each. A
journal of three entries is compacted several times within four generations. Two
attempts make a first and a retried one; a third only repeats the second. Guard,
shared evidence and shared blob of PurgeSaga need two memories. Two writers of
RootLease need a third host only when the first one died. A stale call of
Governance needs one that overtakes it, and a third that retries. A recall is
disturbed by a change between two of its reads; the second change undoes or repeats the
first. ProcessHost's generations never reach their bound within its
instants. Each bound is a conjunct of a guard, named in the module that has it.
Where section 5 proves a property for every value of the constants, the run's instance
is the small one that still makes its mutant fail.
Deadlock is not checked where the system may stop: when every bounded event has
happened and nothing is pending.

Fairness. RecoveryHead: the event loop goes on with a task (`Progress`), and a
service manager or the next client starts the host (`Open`). FormationJobs,
LayeredProjections: the supervisor runs its lane again and again, and time passes.
BackgroundLanes: the timer fires, runs end, intervals pass, which is what LanesAreServed
assumes of one lane when it speaks of another. StorageClient: the event loop takes the next
event, the worker thread the next message; nothing is assumed of deaths.
HostSessions: destroyed sockets report their close, and the shutdown's awaits go on.
HookSpool: processes run; Codex starts hooks again and again (`Visitor`), and the
host is not down at every moment one delivers, hence strong fairness of its
delivery. PurgeSaga: the caller runs each job again and again (strong: a job may
be blocked by the guard in between), a live process goes on with its run.
RootLease: time passes, every session starts a bootstrap (weak fairness of
`Examine`), and not every one of them is killed before its rename (strong
fairness of `Take`, which other bootstraps' deaths disable again and again).
SecretStore: a rotation is resumed again and again; only the administrator does
that. OperatorActions, RestorePublication: the operator repeats the operation
and recovers locks until it is answered, which is an assumption on the
environment, and time passes.


## 5. Proofs

TLAPS checks the theorems of eight modules. They hold for any sets and bounds
that satisfy the named assumptions of the modules (`KeysAssumption`,
`JournalAssumption`, `SecretAssumption` and so on); no theorem assumes the bounds
of a run. Each is reached by an inductive invariant that TLC has first checked
on a small instance.

`RecoveryHeadProofs`, for any keys, volatile keys, deltas within {0, 1} and
bounds, relapses included: AtMostOnce, AckedIsAnchored, AnchorsAgree,
RecoveryIsAppendOnly, and that RecoveryHead implements AnchoredLedger. The
invariant adds that an id and a key name one reservation and ids lie below
`nextId`; that an id has one row; that an effect moves the state commitment by at
most one, to a state the database has reached; that what a generation has counted
lies behind the head; that nothing exists before the first startup; and what the
client knows at a `pc` (the reservation it works under is still held, the row is
reconciled before the head), which carries a check over to the step that relies
on it. DebtsAreSmall needs a second invariant, `Debts`: while no failure has hit
the handling of a failure, at most one effect is unsettled, its reservation is
unresolved, the head stands where it was reserved or at its anchor, and the
client or the startup is at it. A pending reservation that the head has left
behind lies behind the checkpoint, or the unsettled effect lies between, so
nothing can be executed under it any more. That a relapse is never forgotten
lets the invariant be conditional on it.

`JournalProofs`, for any processes, readers, keys and bounds: JournalSound and
the refinement of HeadProvider (`JournalImplements`). Decisions are made without
the lock on a state that may be stale, and an abort lets a state come back byte
for byte, so "what I read is what is there" is not an invariant. The
strengthening says that a persisted job is one step of the atomic provider on the
state it was decided on, that whoever changes the files has the lock, that a
frontier never shrinks, that index and sequence file are at most one operation
apart and then the lock's owner is between them, and that no key names two
reservations.

`FormationProofs`, for any turns, proposals, bounds and faults: JobsSound and
SettledForGood, from the agreement of turn and job, of job and attempt, and of
link and admission.

`HookSpoolProofs`, for any hooks, entries, events and bound, one delivery of an
event at a time (`~Overlap`): SpoolSound. What a hook knows at each step (the name
is free when it creates, its own when it writes and checks again, the event not
yet acknowledged), together with what stays true whatever the others do: what is
acknowledged is captured, what is created stands until captured, what is written
is whole. With overlapping deliveries the loser unlinks the winner's file
(section 6), so the hypothesis is needed.

`PurgeSagaProofs`, for any memories, evidence, sharing, callers, failures and
bounds: SagaSound, GuardIsRunningJob, LiveIsServed, CompletedIsGone. The
strengthening says that a maintenance row tells the truth however old it is: what it
calls verified is gone and stays gone, because a purged memory is never
written again. That is why even a job that published the row of an earlier
attempt has left nothing.

`GovernanceProofs`, for any memories, callers, contents and bounds: LinearHistory,
AnsweredOnce, ViewsSound. A caller without a receipt has not written; a proposal
writes only where there is no revision, and any other caller only over the revision
it had read, which is then the newest; receipts are fresh epochs. For the derived
views: a call that takes a revision out of use names it to the lane, so that
projections lose it in the same transaction and the index gets a job that removes
it; a call without effects on the lane leaves eligibility as it was; a batch is
published only while the ledger is where it was when its sources were listed.

`FilesProofs` proves, in the module of the run, what MCFiles composes. Every
behaviour of MCFiles is a behaviour of each part (a part that rests stutters), so
the theorems of a component carry over: SpoolSound, JournalSound, HeadProviderSpec,
HostIsFound. Four components are proved here.
RootLease, one recovery at a time (`~Overlap`): OneWriter and LeaseIsKept. Nothing
in OneWriter mentions the lock; the strengthening says that a host on its way
from creating the lock to removing it owns the file, that only such hosts
write, that a bootstrap about to take has in front of it the lock of a dead process,
and that the token a host has read is still the next one when it writes it.
WorkbenchLaunch, for any launchers, deaths and recoveries of the lock: HostIsFound.
Whatever happens to the lock, a launcher starts one host, and a host with a runtime
took the root and gives it back as it ends. As long as no recovery has taken the
lock of a launch under way (`~undercut`), a launcher has the lock from its making
to its end, and a host that starts is under its launcher's lock, dead as that may
be; hence nobody starts while a launcher clears artifacts, and no host was up when
it looked, so what it clears belongs to the dead. That exception is the only one
the proof needs, and it is no restriction of the model: the code takes such locks
(section 6), and then `Reachable` fails.
OperatorActions, for any executions, confirmations, times and failures, with one
recovery of dead locks at a time (`OneRecoverer`, see section 6): OperatorSound's
half on it. The strengthening says that a lock, once read as a dead one's, stays
that one's until it is removed; that an execution between its two locks and their
release is named in both; that of the files a death left half-written none is in the
way of the next write; and what the execution has read of record, effect and receipt
is still what is there when it acts, since nobody else holds the locks.
RestorePublication, for any executions, operations, commits and deaths: the other
half. The strengthening says that of all that could still win (be reported, bear the
marker, or be at the head of a root still at its own generation) one operation only
does, that nothing is won before the first commit after the backup, that a root
found bad was worked in, and, where the ledger keeps executions apart, that what an
execution has found in the target (intent, marker, generation, marks) is still there
when it acts on it.

`HostProofs`: SessionsSound for any connections, requests and bounds (an open MCP
session is in the map the host closes, its socket has yet to report its close, and the
host is not past its drain), and SecretsSound for any keys, finite set of owners,
nonces and bounds. The rows agree among themselves (a fresh nonce is in no file, a
binding names a row under its key, one rotation is open, its count is the number of
its open items), and what the running operation has seen is still so when it acts
on it, because the client's queue runs one operation at a time. The two decisions that
need it: an abort happens only when nothing is bound to the new key, a completion
only when nothing is bound to the old one.

Every safety invariant that a run checks alone is thereby proved. Only model-checked:

- liveness (PairsSettle, ScopeSettles, CallsSettle, LanesAreServed, ShutdownEnds,
  PurgesComplete, SpoolDrains, StaleIsRecovered, RotationEnds, OperationsEnd,
  RecoverySettles): fairness and ENABLED are out of the prover's reach;
- the groups of safety and action properties of the modules without a theorem:
  ClientSound (StorageClient), AnswersSound (WorkbenchService, ContextRecall),
  LearningKept (LearningReleases), ChildrenSound (ProcessHost), DeliveriesSound
  (GraphDelivery, VectorDelivery). Nothing in them is out of the prover's reach; they are next.

## 6. What the code does otherwise than its documents say

Four runs end in a violation (`findings` quotes the documents):

- journal_abort: an abort restores the state before the reservation byte for
  byte; a hash twice in the journal is refused by every later load.
- formation_interrupted: a retried proposal carries a new time under the old
  idempotency key, so a restart after the first admission makes every retry
  conflict.
- purge_published: a resumed run takes any maintenance row of the job, not its
  last attempt's; the last attempt's row then stays pending and blocks later
  claims and backups.
- lease_overlap: the recovery of a dead lease compares the file and then renames
  the path; of two bootstraps that compared the same file the second removes the
  lease of the host that started in between. Bootstraps recover before they
  arbitrate the launch.

Others were met while modelling. Those with a definition in a module that states
what one would expect, and that the code does not keep, are listed in `findings`
under its name; the properties of the runs are stated so that they do not hide them.

Recovery and the root:

- After a relapse, an operation that fails twice leaves its effect unresolved
  while the client serves on. If that effect left the state commitment unchanged,
  the next operation moves the head past it and startup can no longer reconcile it.
  Two backup anchors lost before their checkpoint leave the head two generations
  ahead, which startup refuses (`StartupSucceeds` excepts `TwoAhead`).
- Two processes that recover the same dead lock of the head check it and then
  unlink the path: the second may unlink a living owner's.
- A process that dies between creating the root lock and writing its lease
  leaves an empty file, which is unreadable to every recovery and locks the root
  until it is removed by hand (`StaleIsRecovered` speaks of written leases). A
  heartbeat that has checked its lease recreates the file if a bootstrap took it
  meanwhile. A failed acquisition unlinks the path, whoever owns it by then.
- Launch: the recovery of a launch lock compares and then renames the path, takes a
  lock that names nobody after a second for a dead launcher's, and does not ask
  whether a host still starts for a launcher that was killed. Each takes the lock of
  a launch under way (`undercut`), and its host's files go (`Reachable`); a
  host that only shows its health is reused after the repair (`RelaunchIsReady`).
- Client: a close that falls between a worker's error and its exit waits for
  ever (`CloseEnds`).
- Lanes: runs that outlast the other lanes' intervals starve the last ones
  (`LanesAreServed` under `Overrun`).
- Sessions: a host opens 64 page services in its life, closed ones counted
  (`SessionsAreServed`).

Automatic path:

- Formation: the lane proposes from its snapshot, so a Stop captured between claim
  and proposal does not stop the superseded generation's admission.
- Spool: a flush quarantines a file that another hook has created and not yet
  written, though its enqueue then succeeds; of two overlapping deliveries of one
  event the second unlinks the first's file; a second delivery that the host
  refuses for good stops every flush at its entry (`SpoolDrains` excepts `Poisoned`).

Memories:

- Governance: the correction of a revoked memory brings it back (`RevokedStaysOut`);
  conflict groups are never resolved; a purged memory proposed again is reported as
  corruption; jobs of two mutations in one millisecond share an id, and the second
  mutation is refused; a revision written by a learning release has no candidate,
  so a correction of it is refused until a later proposal links one.
- Projections: a job that has failed for good leaves its scope pending. A late
  invalidation in the full-text index may remove the row of a revision that is in
  use again, until its own job.
- Graph and vectors: a retry of a failed graph delivery ends stale
  (`RetryCanDeliver`); a failed rebuild drops the deliveries of later changes, and
  one whose host dies leaves the scope rebuilding with a job no lane claims; the
  sweep of passed validity has no caller (`PassedIsDegraded`); replaced vector
  directories stay (`OldIsDeleted`); one scope's change makes every scope's claimed
  job stale; an empty answer is not revalidated.
- Children: the timer of a start leaves its waiter set, so a late `ready` of a killed
  child counts until its exit is handled; while an old child dies, a request
  starts the next.
- Recall: a slice compiled before a delete is stored and answered after it
  (`DeletedStaysOut`); all ready scopes are asked for one pair of epochs, so scopes
  that are ready are not used (`ReadyScopesAreUsed`); a repeated search is answered anew under
  the first receipt (`ReceiptIsOfAnswer`); a failed check of the projections' sources
  fails the whole recall, where only their lanes should be dropped
  (`BatchFailureKeepsMemories`); a recorded request whose memory was corrected since
  is a conflict for ever.
- Pages: an expired preview is answered as stale although its action is
  committed (`LostAnswerRecovers`); a page whose members are all purged is an error
  for ever.
- Learning: a restored release cannot be rolled back again (`RestoredCanFall`); a
  release that was rolled back can become active again (`RolledBackStaysInactive`);
  transitions and evaluations are written during a pause (`PauseFreezes`); a
  candidate is released on another base than it was tested on (`TestedOnItsBase`).

Deletion, keys and operators:

- Purge: the audit's frontier is the newest tombstone's, whatever older jobs
  did (`AuditCoversNewest` claims no more); a backup between delete and purge
  counts as verified; a repeated purge of re-captured content forgets its
  file (`FilesAreKnown` excepts it); the operator's retry, the only caller of
  `runPurge` in the program, cannot make a job's first run, so `PurgesComplete`
  assumes another caller.
- Keys: a use authority is bound to an issue time that its id leaves out, so it
  cannot be resumed (`Resumable`); a use finds the item of an aborted rotation
  (`UseMatches`); a revoked old key blocks the abort of its rotation (`AbortIsOpen`);
  the current key can be revoked, which leaves none (`AlwaysCurrent`); a crash after
  a purge's backup intents are registered deletes the backups without purging; the
  owner of purged content can never be bound again; an admission reserved before a
  rotation cannot be completed after it.
- Operator ledger: a receipt carries the time of its execution, so one that was
  stored and not recorded conflicts with every later execution
  (`EffectIsAnswered`); locks are recoverable only when the confirmation has expired,
  so a death before the effect strands a consumed one (`GrantIsUsed`); a lock whose
  owner died before it wrote it is never recovered (`LockIsRecovered`); an execution
  that meets the operation's lock leaves its confirmation's behind (`EndUnlocks`); of
  two recoverers the slower one removes a living lock (`OneAtATime`).
- Restore: without the ledger's lock a publisher may remove a target that another
  execution of the operation has reported (`ReportedStays`), and of four executions
  two that recover the same reservation (compared, then unlinked) let a marker be
  written to a root that took the place of the verified one, which is why
  `MarkerIsLast` speaks of `locked` only; a backed-up root written
  between verification and publication leaves a target that never opens
  (`TargetIsReopenable`); a death between the creation of the publication marker and its
  write makes every later execution fail (`PublishedIsAnswered`); a reservation left by a
  death stays when the target exists, and an empty one is not recoverable.

## 7. Not modelled

Cryptography, hashing and canonical JSON (injective), schemas and validation
of requests, wording and rendering, HTTP and MCP framing, SQLite's and the file
system's own recovery, losses of power inside a write, file modes.

Components without a module, and why: the IPC handshake (a sequence without
branches that HostSessions takes as one step), migrations (each once, in order,
in a transaction; their triggers are guards of the modules), contracts (schemas
and hashes; the sets of states they name are the modules' types), the MCP server's
tools (a stateless mapping to storage requests), the evidence adapter and the
formation policy's texts (pure transformations; FormationJobs takes the provider's
answers as arbitrary), the web application, the installer (run once by the
user), benchmarks and fixtures.

Of the modelled components section 3 says what each leaves out. The larger
omissions: the vector and the graph lane of a recall, its cursors over several
pages, and its blanking while projections are rebuilt; traces, scores and
monitors of the learning lab; the creation of backups and their manifest; the
governed and the dark-launch path of a secret's admission; the maintenance of
databases from before migration 0018; the hundred methods of the storage client,
of which a workload of each class stands for the rest.
