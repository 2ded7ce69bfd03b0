------------------------- MODULE LayeredProjections -------------------------
(***************************************************************************)
(* The layered projections (topics, scenarios, core summaries, relations)  *)
(* of one scope, and the consolidation worker that derives them:           *)
(*                                                                         *)
(*   rows and jobs   storage-sqlite/src/projection-repository.ts           *)
(*   suppression     storage-sqlite/src/projection-effects.ts              *)
(*   worker          memory-kernel/src/consolidation-service.ts            *)
(*   projector       memory-kernel/src/projection-policy.ts                *)
(*                                                                         *)
(* A projection is represented by the set of memory revisions it was       *)
(* derived from: two projections of the same sources have the same         *)
(* content.  A governed mutation calls Suppress and Refresh inside its own *)
(* transaction; the worker makes one storage call after another, with      *)
(* mutations between them, and publishes a batch only if neither the       *)
(* ledger nor the projections have moved since it read them.               *)
(***************************************************************************)
EXTENDS Naturals, FiniteSets

CONSTANTS
    MaxProjectionAttempts,  \* MAX_PROJECTION_ATTEMPTS
    ClaimLimit,             \* jobs one drain claims
    MaxWorkerFaults         \* bound on crashes and failing storage calls

ASSUME LayeredAssumption ==
    /\ MaxProjectionAttempts \in Nat \ {0}
    /\ ClaimLimit \in Nat \ {0}
    /\ MaxWorkerFaults \in Nat

VARIABLES
    ledger,   \* ledger_state.ledger_epoch
    active,   \* current projections that are active and not invalidated
    scope,    \* layered_projection_scope_state of the scope
    pjobs,    \* unfinished projection_outbox_jobs: cause and kind -> status, attempts
    worker    \* the consolidation worker: its step and what it has read

layeredVars == <<active, scope, pjobs, worker>>

\* One projection per source, and the topic of all of them.
Project(sources) ==
    IF sources = {} THEN {} ELSE {{s} : s \in sources} \cup {sources}

NoPlan == [seen |-> 0, sources |-> {}, epoch |-> 0, front |-> "pending",
           frontLedger |-> 0, found |-> {}]
IdleWorker == [step |-> "idle", held |-> {}, plan |-> NoPlan, faults |-> 0]

LayeredInit ==
    /\ active = {}
    /\ scope = [status |-> "pending", ledger |-> 0, epoch |-> 0, batch |-> 0]
    /\ pjobs = << >>
    /\ worker = IdleWorker

(***************************************************************************)
(* What a governed mutation does to the projections, before it advances    *)
(* the ledger.  Every projection derived from a suppressed source is       *)
(* invalidated; the scope turns pending at the epoch the mutation is about *)
(* to reach; each call leaves a job.                                       *)
(***************************************************************************)
Descendants(sources) == {p \in active : p \cap sources # {}}

EffectKinds(suppressed, refreshed) ==
    (IF suppressed = {} THEN {} ELSE {"invalidate"})
      \cup (IF refreshed = {} THEN {} ELSE {"refresh"})

Effect(cause, suppressed, refreshed) ==
    LET new == {cause} \X EffectKinds(suppressed, refreshed) IN
    /\ active' = active \ Descendants(suppressed)
    /\ scope' = IF new = {} THEN scope
                ELSE [scope EXCEPT !.status = "pending", !.ledger = ledger + 1]
    /\ pjobs' = [j \in DOMAIN pjobs \cup new |->
                   IF j \in new THEN [st |-> "pending", tries |-> 0] ELSE pjobs[j]]
    /\ UNCHANGED worker

(***************************************************************************)
(* The worker.  A job that a dead worker had claimed is claimable again    *)
(* once its lease has run out, as long as it has attempts left.            *)
(***************************************************************************)
\* Fault: a job that a dead worker had claimed stays with it.
ClaimableOnce(expired) ==
    {j \in DOMAIN pjobs :
       pjobs[j].tries < MaxProjectionAttempts /\ pjobs[j].st \in {"pending", "failed"}}

Claimable(expired) ==
    {j \in DOMAIN pjobs :
       /\ pjobs[j].tries < MaxProjectionAttempts
       /\ pjobs[j].st \in {"pending", "failed"} \/ j \in expired}

Orphans == {j \in DOMAIN pjobs : pjobs[j].st = "processing"}

Claim ==
    /\ worker.step = "idle"
    /\ \E expired \in SUBSET Orphans :
       \E batch \in SUBSET Claimable(expired) :
         /\ batch # {}
         /\ \/ Cardinality(batch) = ClaimLimit
            \/ batch = Claimable(expired) /\ Cardinality(batch) < ClaimLimit
         /\ pjobs' = [j \in DOMAIN pjobs |->
                        IF j \in batch
                        THEN [st |-> "processing", tries |-> pjobs[j].tries + 1]
                        ELSE IF j \in expired
                        THEN [pjobs[j] EXCEPT !.st = "failed"]
                        ELSE pjobs[j]]
         /\ worker' = [worker EXCEPT !.step = "list", !.held = batch]
    /\ UNCHANGED <<ledger, active, scope>>

\* An operator's rebuild reconciles the scope without a job; no host runs then.
RebuildScope(eligible) ==
    /\ worker.step = "idle"
    /\ active' = Project(eligible)
    /\ scope' = [status |-> "ready", ledger |-> ledger,
                 epoch |-> scope.epoch + 1, batch |-> ledger]
    /\ scope.status # "ready" \/ scope.ledger # ledger
    /\ UNCHANGED <<ledger, pjobs, worker>>

\* listProjectionSources: the eligible revisions, with the epoch they hold at.
ListSources(eligible) ==
    /\ worker.step = "list"
    /\ worker' = [worker EXCEPT !.step = "frontier",
                    !.plan = [NoPlan EXCEPT !.seen = ledger, !.sources = eligible]]
    /\ UNCHANGED <<ledger, active, scope, pjobs>>

ReadFrontier ==
    /\ worker.step = "frontier"
    /\ worker' = [worker EXCEPT !.step = "query",
                    !.plan.epoch = scope.epoch, !.plan.front = scope.status,
                    !.plan.frontLedger = scope.ledger]
    /\ UNCHANGED <<ledger, active, scope, pjobs>>

\* The plan is done with: what is left is to settle the jobs.
Leave(step) == [worker EXCEPT !.step = step, !.plan = NoPlan]

\* The batch on the shelf is the one this plan would produce.
AtCanonicalFrontier ==
    /\ worker.plan.front = "ready"
    /\ worker.plan.frontLedger = worker.plan.seen
    /\ active # {} => scope.batch = worker.plan.seen
    /\ active = Project(worker.plan.sources)

QueryActive ==
    /\ worker.step = "query"
    /\ worker' = IF AtCanonicalFrontier THEN Leave("complete")
                 ELSE IF worker.plan.sources = {} /\ active # {}
                 THEN [worker EXCEPT !.step = "invalidate", !.plan.found = active]
                 ELSE [worker EXCEPT !.step = "apply"]
    /\ UNCHANGED <<ledger, active, scope, pjobs>>

\* Nothing is eligible any more: what the worker found is invalidated first.
InvalidateFound ==
    /\ worker.step = "invalidate"
    /\ active' = active \ Descendants(UNION worker.plan.found)
    /\ worker' = [worker EXCEPT !.step = "apply", !.plan.found = {}]
    /\ UNCHANGED <<ledger, scope, pjobs>>

\* Fault: only the projections' epoch is compared.
EpochUnmoved == worker.plan.epoch = scope.epoch

Unmoved ==
    /\ worker.plan.epoch = scope.epoch
    /\ worker.plan.seen = ledger

\* A processed job is read by nobody, and left out.
Processed(j) == [i \in DOMAIN pjobs \ {j} |-> pjobs[i]]

\* applyProjectionBatch.  admissible are the revisions assertSources accepts.
ApplyBatch(admissible) ==
    /\ worker.step = "apply"
    /\ IF Unmoved /\ worker.plan.sources \subseteq admissible
       THEN /\ active' = IF worker.plan.sources = {} THEN active
                         ELSE Project(worker.plan.sources)
            /\ scope' = [status |-> "ready", ledger |-> ledger,
                         epoch |-> scope.epoch + 1, batch |-> ledger]
            /\ \E j \in worker.held :
                 /\ pjobs' = Processed(j)
                 /\ worker' = [Leave("complete") EXCEPT !.held = @ \ {j}]
       ELSE /\ worker' = Leave("fail")
            /\ UNCHANGED <<active, scope, pjobs>>
    /\ UNCHANGED ledger

Complete ==
    /\ worker.step = "complete"
    /\ \/ \E j \in worker.held :
            /\ pjobs' = Processed(j)
            /\ worker' = [worker EXCEPT !.held = @ \ {j}]
       \/ /\ worker.held = {}
          /\ worker' = [IdleWorker EXCEPT !.faults = worker.faults]
          /\ UNCHANGED pjobs
    /\ UNCHANGED <<ledger, active, scope>>

Fail ==
    /\ worker.step = "fail"
    /\ \/ \E j \in worker.held :
            /\ pjobs' = [pjobs EXCEPT ![j].st = "failed"]
            /\ worker' = [worker EXCEPT !.held = @ \ {j}]
       \/ /\ worker.held = {}
          /\ worker' = [IdleWorker EXCEPT !.faults = worker.faults]
          /\ UNCHANGED pjobs
    /\ UNCHANGED <<ledger, active, scope>>

\* A storage call throws, or the host dies and its successor starts over.
CallThrows ==
    /\ worker.step \in {"list", "frontier", "query", "invalidate", "apply", "complete"}
    /\ worker.faults < MaxWorkerFaults
    /\ worker' = [Leave("fail") EXCEPT !.faults = @ + 1]
    /\ UNCHANGED <<ledger, active, scope, pjobs>>

WorkerDies ==
    /\ worker.step # "idle"
    /\ worker.faults < MaxWorkerFaults
    /\ worker' = [IdleWorker EXCEPT !.faults = worker.faults + 1]
    /\ UNCHANGED <<ledger, active, scope, pjobs>>

WorkerStep(eligible, admissible) ==
    \/ Claim
    \/ ListSources(eligible)
    \/ ReadFrontier
    \/ QueryActive
    \/ InvalidateFound
    \/ ApplyBatch(admissible)
    \/ Complete
    \/ Fail

\* Jobs of the scope that no drain will claim again.
Exhausted ==
    \E j \in DOMAIN pjobs : pjobs[j].tries = MaxProjectionAttempts
=============================================================================
