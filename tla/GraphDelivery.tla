----------------------------- MODULE GraphDelivery -----------------------------
(* How one scope of the relation graph reaches its store and is read back: *)
(*   storage-sqlite/src/graph-projection-repository.ts  outbox, checkpoint *)
(*   graph-projection/src/projector.ts                  the worker         *)
(*   graph-projection/src/rebuilder.ts                  the rebuild        *)
(*   graph-projection/src/graph-retriever.ts            a reader           *)
(* A canonical change empties the scope's checkpoint; when the layered     *)
(* projection of the scope is ready again, its frontier and the digest of  *)
(* what it holds become the target of a job.  A worker writes the target   *)
(* to the store, reads it back and publishes it, each in calls of their    *)
(* own, with changes, dying hosts and lost answers in between.             *)
(*                                                                         *)
(* A digest is told by the frontier it was built at and the canonical      *)
(* version it was built of.  A job without a target, which every change    *)
(* leaves and nothing can claim, is left out, as are jobs that ended.      *)
EXTENDS Naturals

CONSTANTS
  MaxAttempts,    \* MAX_GRAPH_PROJECTION_ATTEMPTS
  MaxChanges,     \* bound: canonical changes
  MaxFrontiers,   \* bound: batches of the layered projection
  MaxFaults,      \* bound: calls of store or storage that fail, hosts that die
  MaxRebuilds     \* bound: rebuilds of the store

DeliveryAssumption ==
  MaxAttempts \in Nat \ {0} /\ {MaxChanges, MaxFrontiers, MaxFaults, MaxRebuilds} \subseteq Nat

VARIABLES
  source,     \* version of the canonical rows a snapshot is built of
  layered,    \* the scope's row of the layered projection: ready, frontier
  scope,      \* graph_projection_scope_state: status and target
  jobs,       \* graph_projection_outbox_jobs that are open
  store,      \* the snapshot in the store's active generation
  worker,     \* the projector: step, job, lease, and why it fails
  query,      \* the reader: step and what it has read
  rebuild,    \* the rebuilder: step and the snapshot it lists
  faults, rebuilds

storageVars == <<source, layered, scope, jobs>>
vars == <<storageVars, store, worker, query, rebuild, faults, rebuilds>>

None == [frontier |-> 0, source |-> 0]
Idle == [at |-> "idle", op |-> "", target |-> None, try |-> 0, code |-> ""]
NoQuery == [at |-> "idle", front |-> 0, target |-> None, found |-> None]
NoRebuild == [at |-> "idle", listed |-> None]
Operations == {"scope_replace", "full_rebuild"}

(* #buildSnapshot at the frontier the scope's target or projection names.  *)
Snapshot == [frontier |-> scope.target.frontier, source |-> source]
Projected == [frontier |-> layered.frontier, source |-> source]
Pending(target) == [target |-> target, st |-> "pending", tries |-> 0, late |-> FALSE]

Init ==
  /\ source = 1 /\ layered = [ready |-> FALSE, frontier |-> 0]
  /\ scope = [status |-> "pending", target |-> None]
  /\ jobs = [op \in {} |-> Pending(None)]
  /\ store = None /\ worker = Idle /\ query = NoQuery /\ rebuild = NoRebuild
  /\ faults = 0 /\ rebuilds = 0

-----------------------------------------------------------------------------
(* enqueueCanonicalEffect, in the transaction of the change.               *)
Change ==
  /\ source <= MaxChanges /\ source' = source + 1
  /\ layered' = [layered EXCEPT !.ready = FALSE]
  /\ scope' = [status |-> "pending", target |-> None]
  /\ UNCHANGED <<jobs, store, worker, query, rebuild, faults, rebuilds>>

(* enqueueReadyScope, in the transaction of the layered batch: the open    *)
(* jobs become stale.                                                      *)
Project ==
  /\ layered.frontier < MaxFrontiers
  /\ layered' = [ready |-> TRUE, frontier |-> layered.frontier + 1]
  /\ LET target == [frontier |-> layered.frontier + 1, source |-> source] IN
     /\ scope' = [status |-> "pending", target |-> target]
     /\ jobs' = [op \in {"scope_replace"} |-> Pending(target)]
  /\ UNCHANGED <<source, store, worker, query, rebuild, faults, rebuilds>>

(* A lease runs out, whether or not its worker still works.                *)
Expire(op) ==
  /\ op \in DOMAIN jobs /\ jobs[op].st = "processing" /\ ~jobs[op].late
  /\ jobs' = [jobs EXCEPT ![op].late = TRUE]
  /\ UNCHANGED <<source, layered, scope, store, worker, query, rebuild, faults, rebuilds>>

-----------------------------------------------------------------------------
(* The worker: claim, then project(job).                                   *)
Swept ==
  [op \in DOMAIN jobs |->
     IF jobs[op].st = "processing" /\ jobs[op].late
     THEN [jobs[op] EXCEPT !.st = "failed", !.late = FALSE] ELSE jobs[op]]
Claimable == {op \in DOMAIN jobs : Swept[op].st \in {"pending", "failed"}
                                   /\ Swept[op].tries < MaxAttempts}

(* The drain asks for replacements, the rebuilder for its own jobs.        *)
Claim ==
  /\ worker.at = "idle" /\ rebuild.at \in {"idle", "published"}
  /\ LET op == IF rebuild.at = "idle" THEN "scope_replace" ELSE "full_rebuild" IN
     IF op \in Claimable
     THEN LET try == Swept[op].tries + 1 IN
          /\ jobs' = [Swept EXCEPT ![op].st = "processing", ![op].tries = try]
          /\ worker' = [Idle EXCEPT !.at = "claimed", !.op = op,
                                    !.target = jobs[op].target, !.try = try]
          /\ UNCHANGED rebuild
     ELSE /\ jobs' = Swept /\ UNCHANGED worker
          /\ rebuild' = IF rebuild.at = "published" THEN [rebuild EXCEPT !.at = "failing"] ELSE rebuild
  /\ UNCHANGED <<source, layered, scope, store, query, faults, rebuilds>>

To(step) == worker' = [worker EXCEPT !.at = step]
GiveUp(code) == worker' = [worker EXCEPT !.at = "failing", !.code = code]

(* prepare: the checkpoint, then the snapshot, must be the job's target.   *)
CheckTarget ==
  /\ worker.at = "claimed"
  /\ IF scope.target = worker.target THEN To("checked") ELSE GiveUp("stale")
  /\ UNCHANGED <<storageVars, store, query, rebuild, faults, rebuilds>>

ReadSnapshot ==
  /\ worker.at = "checked"
  /\ IF scope.target # None /\ Snapshot = worker.target THEN To("read") ELSE GiveUp("stale")
  /\ UNCHANGED <<storageVars, store, query, rebuild, faults, rebuilds>>

ReplaceScope ==
  /\ worker.at = "read" /\ store' = worker.target /\ To("written")
  /\ UNCHANGED <<storageVars, query, rebuild, faults, rebuilds>>

ReadBack ==
  /\ worker.at = "written"
  /\ IF store = worker.target THEN To("verified") ELSE GiveUp("failed")
  /\ UNCHANGED <<storageVars, store, query, rebuild, faults, rebuilds>>

(* A call fails: a child that was killed, or storage that did not answer,  *)
(* may have done what it was asked.                                        *)
CallFails ==
  /\ worker.at \in {"claimed", "checked", "read", "written"} /\ faults < MaxFaults
  /\ faults' = faults + 1 /\ GiveUp("failed")
  /\ store' \in {store} \cup (IF worker.at = "read" THEN {worker.target} ELSE {})
  /\ UNCHANGED <<storageVars, query, rebuild, rebuilds>>

(* #requireLease; the scope apply() publishes in.                          *)
Leased ==
  /\ worker.op \in DOMAIN jobs
  /\ LET job == jobs[worker.op] IN
     /\ job.target = worker.target /\ job.st = "processing"
     /\ job.tries = worker.try /\ ~job.late
AnyTarget == TRUE
StillTheTarget ==
  /\ scope.target = worker.target /\ Snapshot = worker.target
  /\ scope.status = "rebuilding" => worker.op = "full_rebuild"

Without(op) == [o \in DOMAIN jobs \ {op} |-> jobs[o]]

(* commit: the answer may be lost.                                         *)
Apply ==
  /\ worker.at = "verified"
  /\ IF Leased /\ StillTheTarget
     THEN /\ scope' = [status |-> "ready", target |-> worker.target]
          /\ jobs' = Without(worker.op)
          /\ \/ worker' = Idle /\ rebuild' = NoRebuild /\ UNCHANGED faults
             \/ GiveUp("failed") /\ faults < MaxFaults /\ faults' = faults + 1 /\ UNCHANGED rebuild
     ELSE GiveUp("stale") /\ UNCHANGED <<scope, jobs, rebuild, faults>>
  /\ UNCHANGED <<source, layered, store, query, rebuilds>>

(* fail: a stale job ends, a failed one is kept to be retried; either way  *)
(* the scope loses the target it still had.  Without the lease the job is  *)
(* abandoned.                                                              *)
Fail ==
  /\ worker.at = "failing"
  /\ IF Leased
     THEN /\ jobs' = IF worker.code = "stale" THEN Without(worker.op)
                     ELSE [jobs EXCEPT ![worker.op].st = "failed"]
          /\ scope' = IF scope.target = worker.target /\ scope.status # "rebuilding"
                      THEN [status |-> "unavailable", target |-> None] ELSE scope
     ELSE UNCHANGED <<jobs, scope>>
  /\ worker' = Idle
  /\ rebuild' = IF rebuild.at = "published" THEN [rebuild EXCEPT !.at = "failing"] ELSE rebuild
  /\ UNCHANGED <<source, layered, store, query, faults, rebuilds>>

(* The host dies; leases and checkpoints stay.                             *)
Crash ==
  /\ faults < MaxFaults /\ faults' = faults + 1
  /\ worker # Idle \/ rebuild # NoRebuild
  /\ worker' = Idle /\ query' = NoQuery /\ rebuild' = NoRebuild
  /\ UNCHANGED <<storageVars, store, rebuilds>>

-----------------------------------------------------------------------------
(* rebuild: list, reset, write and verify another generation, recheck,     *)
(* publish it, and project the reset's job onto it.                        *)
Advance(step) == rebuild' = [rebuild EXCEPT !.at = step]

List ==
  /\ rebuild.at = "idle" /\ worker.at = "idle" /\ rebuilds < MaxRebuilds /\ layered.ready
  /\ rebuilds' = rebuilds + 1 /\ rebuild' = [at |-> "listed", listed |-> Projected]
  /\ UNCHANGED <<storageVars, store, worker, query, faults>>

(* A replacement under way keeps its lease.                                *)
Reset ==
  /\ rebuild.at = "listed"
  /\ IF layered.ready
     THEN LET kept == {op \in DOMAIN jobs : op = "scope_replace" /\ jobs[op].st = "processing"} IN
          /\ scope' = [status |-> "rebuilding", target |-> Projected]
          /\ jobs' = [op \in kept \cup {"full_rebuild"} |->
                        IF op \in kept THEN jobs[op] ELSE Pending(Projected)]
          /\ Advance("reset")
     ELSE Advance("failing") /\ UNCHANGED <<scope, jobs>>
  /\ UNCHANGED <<source, layered, store, worker, query, faults, rebuilds>>

Recheck ==
  /\ rebuild.at = "reset"
  /\ Advance(IF layered.ready /\ Projected = rebuild.listed THEN "rechecked" ELSE "failing")
  /\ UNCHANGED <<storageVars, store, worker, query, faults, rebuilds>>

Publish ==
  /\ rebuild.at = "rechecked" /\ store' = rebuild.listed /\ Advance("published")
  /\ UNCHANGED <<storageVars, worker, query, faults, rebuilds>>

RebuildFails ==
  /\ rebuild.at \in {"listed", "reset", "rechecked"} \/ (rebuild.at = "published" /\ worker.at = "idle")
  /\ faults < MaxFaults /\ faults' = faults + 1 /\ Advance("failing")
  /\ UNCHANGED <<storageVars, store, worker, query, rebuilds>>

(* markRestoreUnavailable: of every scope, with every open job.            *)
MarkUnavailable ==
  /\ rebuild.at = "failing" /\ rebuild' = NoRebuild
  /\ scope' = [status |-> "unavailable", target |-> None]
  /\ jobs' = [op \in {} |-> Pending(None)]
  /\ UNCHANGED <<source, layered, store, worker, query, faults, rebuilds>>

-----------------------------------------------------------------------------
(* retrieve: the projection's frontier and the checkpoint, the snapshot    *)
(* in storage and in the store, the query, and the first two once more.    *)
QueryTo(step) == query' = [query EXCEPT !.at = step]
Refused == query' = NoQuery
still == <<storageVars, store, worker, rebuild, faults, rebuilds>>

QueryFrontier ==
  /\ query.at = "idle" /\ layered.ready
  /\ query' = [NoQuery EXCEPT !.at = "frontier", !.front = layered.frontier]
  /\ UNCHANGED still

QueryCheckpoint ==
  /\ query.at = "frontier"
  /\ IF scope.status = "ready" /\ scope.target.frontier = query.front
     THEN query' = [query EXCEPT !.at = "checkpoint", !.target = scope.target]
     ELSE Refused
  /\ UNCHANGED still

QueryBefore ==
  /\ query.at = "checkpoint"
  /\ IF scope.target # None /\ Snapshot = query.target THEN QueryTo("before") ELSE Refused
  /\ UNCHANGED still

QueryStored ==
  /\ query.at = "before"
  /\ IF store = query.target THEN QueryTo("stored") ELSE Refused
  /\ UNCHANGED still

QueryPaths ==
  /\ query.at = "stored"
  /\ query' = [query EXCEPT !.at = "queried", !.found = store]
  /\ UNCHANGED still

Unmoved ==
  /\ scope.status = "ready" /\ scope.target = query.target
  /\ Snapshot = query.target

QueryAfter ==
  /\ query.at = "queried"
  /\ IF Unmoved THEN QueryTo("answered") ELSE Refused
  /\ UNCHANGED still

QueryEnds == query.at = "answered" /\ Refused /\ UNCHANGED still

-----------------------------------------------------------------------------
WorkerStep == Claim \/ CheckTarget \/ ReadSnapshot \/ ReplaceScope \/ ReadBack \/ Apply \/ Fail
RebuildStep == Reset \/ Recheck \/ Publish \/ MarkUnavailable
QueryStep ==
  \/ QueryFrontier \/ QueryCheckpoint \/ QueryBefore \/ QueryStored
  \/ QueryPaths \/ QueryAfter \/ QueryEnds

Next ==
  \/ Change \/ Project \/ \E op \in Operations : Expire(op)
  \/ WorkerStep \/ CallFails \/ Crash
  \/ List \/ RebuildStep \/ RebuildFails
  \/ QueryStep

Spec == Init /\ [][Next]_vars

-----------------------------------------------------------------------------
TypeOK ==
  /\ scope.status \in {"pending", "ready", "rebuilding", "unavailable"}
  /\ DOMAIN jobs \subseteq Operations
  /\ \A op \in DOMAIN jobs : jobs[op].st \in {"pending", "processing", "failed"}
                             /\ jobs[op].tries \in 0 .. MaxAttempts
  /\ worker.code \in {"", "stale", "failed"}

(* A checkpoint that says ready is of the present frontier and the present *)
(* rows, and the store holds just that.                                    *)
ReadyIsDelivered ==
  scope.status = "ready" =>
    layered.ready /\ scope.target = Projected /\ store = scope.target

(* A scope that still has a target is not forgotten: an open job has it.   *)
TargetHasJob ==
  scope.status \in {"pending", "rebuilding"} /\ scope.target # None =>
    \E op \in DOMAIN jobs : jobs[op].target = scope.target

DeliverySound == TypeOK /\ ReadyIsDelivered /\ TargetHasJob

(* What a query answers is what the store was asked, and at the moment of  *)
(* the last check it is what canonical rows and projections say, although  *)
(* each of its reads was at another moment.                                *)
AnswerIsCurrent ==
  query.at = "queried" /\ query'.at = "answered" => layered.ready /\ query.found = Projected

(* What the graph plan asks of delivery: a failed job that will be retried *)
(* can still be delivered.  (It does not hold.)                            *)
RetryCanDeliver ==
  \A op \in DOMAIN jobs :
    jobs[op].st = "failed" /\ jobs[op].tries < MaxAttempts => scope.target = jobs[op].target
=============================================================================
