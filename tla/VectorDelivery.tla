----------------------------- MODULE VectorDelivery -----------------------------
(* How the memories of one scope reach their vector index:                 *)
(*   storage-sqlite/src/vector-projection-repository.ts  outbox, checkpoint *)
(*   vector-retrieval/src/projector.ts                   the worker         *)
(*   vector-retrieval/src/retriever.ts                   a reader           *)
(* A generation is named by the frontier it is wanted for: the epoch of    *)
(* the whole ledger and the validity transitions of the scope that have    *)
(* passed.  The worker builds it in a quarantine directory, renames that   *)
(* to be the active one, publishes it and removes its predecessor.  Each   *)
(* call can fail with or without having done its work, and the host die.   *)
(*                                                                         *)
(* One worker drains the outbox, one embedding epoch is configured, and    *)
(* a job that ended is left out: the scope has one open job at most.       *)
EXTENDS Integers

CONSTANTS
  MaxAttempts,    \* attempts of a job, 32 in the code
  MaxEpoch,       \* bound: ledger epoch
  MaxMoves,       \* bound: validity transitions that pass
  MaxSwitches,    \* bound: times the lane is disabled
  MaxFaults       \* bound: calls that fail, hosts that die

VectorAssumption ==
  MaxAttempts \in Nat \ {0} /\ {MaxEpoch, MaxMoves, MaxSwitches, MaxFaults} \subseteq Nat

VARIABLES
  rows,       \* version of the scope's canonical rows
  moves,      \* validity transitions that have passed
  epoch,      \* ledger_state, of all scopes
  enabled,    \* vector_runtime_configuration
  scope,      \* vector_projection_scope_state
  job,        \* the scope's open job in vector_projection_outbox_jobs
  active,     \* active directories: generation and what it holds
  quarantine, \* the same of directories in quarantine
  worker, query, switches, faults

storageVars == <<rows, moves, epoch, enabled, scope, job>>
diskVars == <<active, quarantine>>
vars == <<storageVars, diskVars, worker, query, switches, faults>>

None == [epoch |-> -1, moves |-> -1]
NoJob == [st |-> "none", tries |-> 0]
Idle == [at |-> "idle", gen |-> None, prior |-> None, asOf |-> 0, listed |-> 0]
NoQuery == [at |-> "idle", gen |-> None, since |-> 0, found |-> 0]

Frontier(e, asOf) == [epoch |-> e, moves |-> asOf]
Files(gen) == {f \in active : f.gen = gen}
Cleaned == {f \in quarantine : f.gen # worker.gen}

Init ==
  /\ rows = 0 /\ moves = 0 /\ epoch = 0 /\ enabled = TRUE
  /\ scope = [state |-> "pending", gen |-> Frontier(0, 0), active |-> None]
  /\ job = [NoJob EXCEPT !.st = "pending"]
  /\ active = {} /\ quarantine = {}
  /\ worker = Idle /\ query = NoQuery /\ switches = 0 /\ faults = 0

-----------------------------------------------------------------------------
(* #enqueueScope: whatever job was open is stale.                          *)
EnqueueScope(gen) ==
  /\ scope' = [scope EXCEPT !.state = "pending", !.gen = gen]
  /\ job' = [NoJob EXCEPT !.st = "pending"]

(* enqueueCanonicalEffect, in the transaction that will raise the epoch.   *)
Change ==
  /\ epoch < MaxEpoch /\ epoch' = epoch + 1 /\ rows' = rows + 1
  /\ IF enabled THEN EnqueueScope(Frontier(epoch + 1, moves)) ELSE UNCHANGED <<scope, job>>
  /\ UNCHANGED <<moves, enabled, diskVars, worker, query, switches, faults>>

(* A change of another scope.                                              *)
Elsewhere ==
  /\ epoch < MaxEpoch /\ epoch' = epoch + 1
  /\ UNCHANGED <<rows, moves, enabled, scope, job, diskVars, worker, query, switches, faults>>

(* A memory of the scope becomes or ceases to be valid.                    *)
Pass ==
  /\ moves < MaxMoves /\ moves' = moves + 1
  /\ UNCHANGED <<rows, epoch, enabled, scope, job, diskVars, worker, query, switches, faults>>

TemporalSweep ==
  /\ enabled /\ scope.state # "disabled" /\ scope.gen.moves < moves
  /\ EnqueueScope(Frontier(epoch, moves))
  /\ UNCHANGED <<rows, moves, epoch, enabled, diskVars, worker, query, switches, faults>>

(* markRestoreDegraded.                                                    *)
Restored ==
  /\ enabled /\ faults < MaxFaults /\ faults' = faults + 1
  /\ EnqueueScope(Frontier(epoch, moves))
  /\ UNCHANGED <<rows, moves, epoch, enabled, diskVars, worker, query, switches>>

(* configure.                                                              *)
Disable ==
  /\ enabled /\ switches < MaxSwitches /\ switches' = switches + 1
  /\ enabled' = FALSE /\ job' = NoJob
  /\ scope' = [scope EXCEPT !.state = "disabled", !.active = None]
  /\ UNCHANGED <<rows, moves, epoch, diskVars, worker, query, faults>>

Enable ==
  /\ ~enabled \/ scope.state = "degraded"
  /\ enabled' = TRUE /\ EnqueueScope(Frontier(epoch, moves))
  /\ UNCHANGED <<rows, moves, epoch, diskVars, worker, query, switches, faults>>

-----------------------------------------------------------------------------
(* drain and #project.  The lease of a job in work is only over when no    *)
(* worker has it, as nothing else claims: every call of a drain is dated   *)
(* at its start.                                                           *)
Claim ==
  /\ worker = Idle /\ job.st # "none" /\ job.tries < MaxAttempts
  /\ job' = [st |-> "processing", tries |-> job.tries + 1]
  /\ scope' = [scope EXCEPT !.state = "building"]
  /\ worker' = [Idle EXCEPT !.at = "claimed", !.gen = scope.gen, !.asOf = moves]
  /\ UNCHANGED <<rows, moves, epoch, enabled, diskVars, query, switches, faults>>

To(step) == worker' = [worker EXCEPT !.at = step]
Wanted == scope.gen = worker.gen /\ scope.state = "building"

(* The checkpoint; a generation of that name that is on disk goes.         *)
Clear ==
  /\ worker.at = "claimed"
  /\ IF Wanted
     THEN /\ worker' = [worker EXCEPT !.at = "cleared", !.prior = scope.active]
          /\ active' = active \ Files(worker.gen)
          /\ quarantine' = Cleaned
     ELSE To("refused") /\ UNCHANGED diskVars
  /\ UNCHANGED <<storageVars, query, switches, faults>>

ListSources ==
  /\ worker.at = "cleared"
  /\ IF epoch = worker.gen.epoch
     THEN worker' = [worker EXCEPT !.at = "listed", !.listed = rows] ELSE To("stale")
  /\ UNCHANGED <<storageVars, diskVars, query, switches, faults>>

(* Embed, replaceScope, read back and close, in the quarantine.            *)
Written == [gen |-> worker.gen, rows |-> worker.listed, moves |-> worker.asOf]
Build ==
  /\ worker.at = "listed" /\ To("built")
  /\ quarantine' = quarantine \cup {Written}
  /\ UNCHANGED <<storageVars, active, query, switches, faults>>

(* The sources and the checkpoint once more.                               *)
SameSources == rows = worker.listed /\ epoch = worker.gen.epoch
ListAgain ==
  /\ worker.at = "built" /\ To(IF SameSources THEN "same" ELSE "stale")
  /\ UNCHANGED <<storageVars, diskVars, query, switches, faults>>

CheckAgain ==
  /\ worker.at = "same" /\ To(IF Wanted THEN "checked" ELSE "stale")
  /\ UNCHANGED <<storageVars, diskVars, query, switches, faults>>

Rename ==
  /\ worker.at = "checked" /\ To("renamed")
  /\ active' = active \cup (quarantine \ Cleaned)
  /\ quarantine' = Cleaned
  /\ UNCHANGED <<storageVars, query, switches, faults>>

(* #requireLease, and the scope #complete publishes in.                    *)
Leased == job.st = "processing"
MayPublishAny == job.st # "none"
MayPublish == Leased /\ scope.gen = worker.gen

Apply ==
  /\ worker.at = "renamed"
  /\ IF MayPublish
     THEN /\ job' = NoJob
          /\ scope' = [scope EXCEPT !.state = "published", !.active = scope.gen]
          /\ \/ To("published") /\ UNCHANGED faults
             \/ To("unknown") /\ faults < MaxFaults /\ faults' = faults + 1
     ELSE To("unknown") /\ UNCHANGED <<job, scope, faults>>
  /\ UNCHANGED <<rows, moves, epoch, enabled, diskVars, query, switches>>

(* The generation that was active when the work began.  That its removal   *)
(* fails is met like an apply that failed.                                 *)
WithoutPrior == IF worker.prior = worker.gen THEN active ELSE active \ Files(worker.prior)
RemovePrior ==
  /\ worker.at = "published"
  /\ \/ worker' = Idle /\ active' = WithoutPrior /\ UNCHANGED faults
     \/ /\ To("unknown") /\ active' \in {active, WithoutPrior}
        /\ faults < MaxFaults /\ faults' = faults + 1
  /\ UNCHANGED <<storageVars, quarantine, query, switches>>

(* After a failed apply or removal: published after all, or the files go;  *)
(* when they cannot, the drain ends.                                       *)
Committed == scope.state = "published" /\ scope.active = worker.gen
Resolve ==
  /\ worker.at = "unknown"
  /\ \/ Committed /\ worker' = Idle /\ UNCHANGED <<active, faults>>
     \/ /\ To("stale") /\ active' = active \ Files(worker.gen)
        /\ IF Committed THEN faults < MaxFaults /\ faults' = faults + 1 ELSE UNCHANGED faults
     \/ /\ worker' = Idle /\ UNCHANGED active
        /\ faults' = faults + (IF Committed THEN 2 ELSE 1) /\ faults' <= MaxFaults
  /\ UNCHANGED <<storageVars, quarantine, query, switches>>

(* #stale: a job that is stale already is left, one that is not is put     *)
(* back at the present frontier, dated at the start of the drain.          *)
Stale ==
  /\ worker.at \in {"refused", "stale"} /\ worker' = Idle
  /\ quarantine' = Cleaned
  /\ IF Leased THEN EnqueueScope(Frontier(epoch, worker.asOf)) ELSE UNCHANGED <<scope, job>>
  /\ UNCHANGED <<rows, moves, epoch, enabled, active, query, switches, faults>>

(* #fail.                                                                  *)
Fail ==
  /\ worker.at = "failing" /\ worker' = Idle
  /\ quarantine' = Cleaned
  /\ IF Leased
     THEN job' = [job EXCEPT !.st = "failed"] /\ scope' = [scope EXCEPT !.state = "degraded"]
     ELSE UNCHANGED <<scope, job>>
  /\ UNCHANGED <<rows, moves, epoch, enabled, active, query, switches, faults>>

(* A call does not do its work: outside #project's try that ends the drain *)
(* and leaves the job to its lease.                                        *)
CallFails ==
  /\ faults < MaxFaults /\ faults' = faults + 1
  /\ \/ worker.at \in {"claimed", "refused", "failing"} /\ worker' = Idle
     \/ worker.at \in {"cleared", "listed", "built", "same", "checked", "stale"} /\ To("failing")
     \/ worker.at = "renamed" /\ To("unknown")
  /\ quarantine' = IF worker.at = "failing" THEN Cleaned ELSE quarantine
  /\ UNCHANGED <<storageVars, active, query, switches>>

Crash ==
  /\ faults < MaxFaults /\ faults' = faults + 1
  /\ worker # Idle /\ worker' = Idle /\ query' = NoQuery
  /\ UNCHANGED <<storageVars, diskVars, switches>>

-----------------------------------------------------------------------------
(* retrieve: the configuration, the checkpoint, the active directory and   *)
(* its snapshot.  What comes back is looked up again in canonical storage; *)
(* that nothing came back is not.                                          *)
QueryStatus ==
  /\ query.at = "idle" /\ enabled /\ query' = [NoQuery EXCEPT !.at = "allowed"]
  /\ UNCHANGED <<storageVars, diskVars, worker, switches, faults>>

Queryable == scope.state = "published" /\ scope.active = scope.gen
QueryCheckpoint ==
  /\ query.at = "allowed"
  /\ query' = IF Queryable
              THEN [query EXCEPT !.at = "checkpoint", !.gen = scope.active, !.since = rows]
              ELSE NoQuery
  /\ UNCHANGED <<storageVars, diskVars, worker, switches, faults>>

QueryIndex ==
  /\ query.at = "checkpoint"
  /\ \/ /\ Files(query.gen) = {} /\ query' = NoQuery
     \/ \E f \in Files(query.gen) : query' = [query EXCEPT !.at = "answered", !.found = f.rows]
  /\ UNCHANGED <<storageVars, diskVars, worker, switches, faults>>

QueryEnds ==
  /\ query.at = "answered" /\ query' = NoQuery
  /\ UNCHANGED <<storageVars, diskVars, worker, switches, faults>>

-----------------------------------------------------------------------------
WorkerStep ==
  \/ Claim \/ Clear \/ ListSources \/ Build \/ ListAgain \/ CheckAgain \/ Rename
  \/ Apply \/ RemovePrior \/ Resolve \/ Stale \/ Fail
QueryStep == QueryStatus \/ QueryCheckpoint \/ QueryIndex \/ QueryEnds

Next ==
  \/ Change \/ Elsewhere \/ Pass \/ TemporalSweep \/ Restored \/ Disable \/ Enable
  \/ WorkerStep \/ CallFails \/ Crash \/ QueryStep

Spec == Init /\ [][Next]_vars

-----------------------------------------------------------------------------
TypeOK ==
  /\ scope.state \in {"pending", "building", "degraded", "published", "disabled"}
  /\ job.st \in {"none", "pending", "processing", "failed"} /\ job.tries \in 0 .. MaxAttempts
  /\ \A f \in active : f.rows \in 0 .. rows /\ f.moves \in 0 .. moves

(* A published scope has an index of its present rows, and of the present  *)
(* validity unless a transition has not been swept.  The directory is only *)
(* missing if the publication's answer and the look after it were lost.    *)
PublishedIsCurrent ==
  scope.state = "published" =>
    /\ scope.active = scope.gen
    /\ \A f \in Files(scope.active) :
         f.rows = rows /\ (scope.gen.moves = moves => f.moves = moves)
    /\ Files(scope.active) = {} => faults >= 2

(* A scope that is not published is not forgotten.                         *)
UnpublishedHasJob ==
  (job.st = "none") = (scope.state \in {"published", "disabled"})

(* One active directory of a name: a retry never builds beside an earlier  *)
(* attempt.                                                                *)
OneDirectory == \A f, g \in active : f.gen = g.gen => f = g

DeliverySound == TypeOK /\ PublishedIsCurrent /\ UnpublishedHasJob /\ OneDirectory

(* What a query finds is no older than the rows were when it read the      *)
(* checkpoint, though directories are renamed and removed under it.        *)
AnswerIsFresh ==
  query.at = "checkpoint" /\ query'.at = "answered" => query'.found >= query.since

(* What the vector plan says of generations: the old one is deleted after  *)
(* the switch; a scope whose transition has passed degrades.  (They do     *)
(* not hold.)                                                              *)
OldIsDeleted ==
  scope.state = "published" => \A f \in active : f.gen \in {scope.active, worker.prior}
PassedIsDegraded == scope.state = "published" => scope.gen.moves = moves
=============================================================================
