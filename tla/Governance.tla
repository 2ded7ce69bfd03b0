----------------------------- MODULE Governance -----------------------------
(***************************************************************************)
(* Governed memories: proposals, corrections, user controls, learning      *)
(* releases and deletion, and the two derived lanes their effects feed.    *)
(*                                                                         *)
(*   mutations   storage-sqlite/src/governance-repository.ts,              *)
(*               control-repository.ts, purge-repository.ts (deleteMemory) *)
(*   callers     memory-kernel/src/index.ts, learning-lab                  *)
(*   reader      storage-sqlite/src/governed-memory-reader.ts              *)
(*                                                                         *)
(* A call is prepared against the state its caller read (the expected      *)
(* revision, the correction's basis), has its approval verified, and is    *)
(* applied later in one transaction, after other calls; a caller that lost *)
(* the answer sends it again.  Principal, scope, evidence, validity times  *)
(* and sensitivity are the same throughout, so eligibility is decided by   *)
(* what calls can change: lifecycle, current revision, conflict and usage. *)
(***************************************************************************)
EXTENDS LayeredProjections, FtsIndex, Sequences

CONSTANTS
    Memories,   \* logical keys, as numbers
    Calls,      \* idempotency keys, as numbers: a call's hash order is its own
    Tools,      \* the tools the calls use, by lane
    Contents,   \* distinct contents of a revision
    Decisions,  \* admission decisions a proposal may come to, by lane
    Times,      \* requested_at by lane: the caller's clock, in no relation to ours
    Lanes       \* the derived lanes a behaviour may follow

ASSUME GovernanceAssumption ==
    /\ Memories \subseteq Nat
    /\ Calls \subseteq Nat
    /\ \A l \in Lanes : Times[l] \subseteq Nat
    /\ \A l \in Lanes : Decisions[l] \subseteq {"activate", "candidate_only", "quarantine"}
    /\ Lanes \subseteq {"fts", "layered"}

VARIABLES
    memory,    \* memory_objects with their memory_revisions
    conflict,  \* memories with an open conflict group
    rules,     \* memory_usage_rules
    call,      \* what each caller has prepared, and how far it is
    receipt,   \* mutation_receipts: the epoch each call's mutation resulted in
    lane       \* the derived lane followed (the two share nothing)

governanceVars == <<memory, conflict, rules, call, receipt, lane>>
vars == <<governanceVars, layeredVars, ftsVars, ledger>>

Lifecycle(decision) ==
    [activate |-> "active", candidate_only |-> "candidate",
     quarantine |-> "quarantined"][decision]

NoMemory == [life |-> "none", current |-> 0, revs |-> << >>]
NoCall == [at |-> 0, tool |-> "none", memory |-> 0, content |-> 0,
           decision |-> "none", expected |-> 0, source |-> 0]

GInit ==
    /\ memory = [m \in Memories |-> NoMemory]
    /\ conflict = {}
    /\ rules = {}
    /\ call = [c \in Calls |-> [step |-> "idle", request |-> NoCall]]
    /\ receipt = [c \in Calls |-> 0]
    /\ lane \in Lanes
    /\ ledger = 0
    /\ LayeredInit
    /\ FtsInit

(***************************************************************************)
(* The reader.                                                             *)
(***************************************************************************)
Current(m) == memory[m].revs[memory[m].current]

\* readMemory of the index, and the sources assertSources accepts.
Activated(m) ==
    /\ memory[m].life = "active"
    /\ memory[m].current # 0
    /\ Current(m).life = "active"

Indexable == {<<m, memory[m].current>> : m \in {k \in Memories :
                                     Activated(k) /\ k \notin conflict}}
Admissible == {<<m, memory[m].current>> : m \in {k \in Memories : Activated(k)}}

\* The latest rule on a revision decides: by the caller's time, then by id.
Later(r, s) == r.at > s.at \/ (r.at = s.at /\ r.by > s.by)
UsageBlocked(source) ==
    \E r \in rules : /\ r.source = source
                     /\ r.effect = "block"
                     /\ \A s \in rules : s.source = source /\ s # r => Later(r, s)

Eligible == {source \in Indexable : ~UsageBlocked(source)}

(***************************************************************************)
(* Preparing a call.  A correction and a control name the revision their   *)
(* caller read; a correction needs that revision to have come from a       *)
(* candidate; a rollback names the earlier revision it restores.  Calls are   *)
(* numbered in the order they are prepared.                                *)
(***************************************************************************)
Prepared(c, request) ==
    call' = [call EXCEPT ![c] = [step |-> "prepared", request |-> request]]

PreparePropose(c, m) ==
    /\ "memory_propose" \in Tools[lane]
    /\ \E x \in Contents, d \in Decisions[lane], t \in Times[lane] :
         Prepared(c, [NoCall EXCEPT !.at = t, !.tool = "memory_propose",
                                    !.memory = m, !.content = x, !.decision = d])

PrepareCorrect(c, m) ==
    /\ "memory_correct" \in Tools[lane]
    /\ memory[m].current # 0
    /\ Current(m).linked
    /\ \E x \in Contents, d \in Decisions[lane], t \in Times[lane] :
         Prepared(c, [at |-> t, tool |-> "memory_correct", memory |-> m,
                      content |-> x, decision |-> d,
                      expected |-> memory[m].current, source |-> 0])

PrepareControl(c, m) ==
    /\ memory[m].current # 0
    /\ \E tool \in Tools[lane] \ {"memory_propose", "memory_correct", "learning_rollback"}, t \in Times[lane] :
         Prepared(c, [NoCall EXCEPT !.at = t, !.tool = tool, !.memory = m,
                                    !.expected = memory[m].current,
                                    !.source = memory[m].current])

PrepareRollback(c, m) ==
    /\ "learning_rollback" \in Tools[lane]
    /\ memory[m].current > 1
    /\ \E i \in 1 .. memory[m].current - 1, t \in Times[lane] :
         Prepared(c, [NoCall EXCEPT !.at = t, !.tool = "learning_rollback",
                                    !.memory = m, !.source = i,
                                    !.expected = memory[m].current])

Prepare(c) ==
    /\ call[c].step = "idle"
    /\ \A d \in Calls : d < c => call[d].step # "idle"
    /\ \E m \in Memories : \/ PreparePropose(c, m)
                           \/ PrepareCorrect(c, m)
                           \/ PrepareControl(c, m)
                           \/ PrepareRollback(c, m)
    /\ UNCHANGED <<memory, conflict, rules, receipt, lane, layeredVars, ftsVars, ledger>>

(***************************************************************************)
(* Applying a call, in one transaction.  Seal advances the ledger once and *)
(* stores the receipt under the idempotency key; the effects on the lane   *)
(* the behaviour follows are part of the transaction.                      *)
(***************************************************************************)
Request(c) == call[c].request
Target(c) == Request(c).memory
Held(c) == memory[Target(c)]

\* Fault: the receipt is not looked up.
AlwaysUnanswered(c) == call[c].step = "prepared"

\* A call applies once: a repeated one is answered from its receipt.
Unanswered(c) == call[c].step = "prepared" /\ receipt[c] = 0

Seal(c) ==
    /\ ledger' = ledger + 1
    /\ receipt' = [receipt EXCEPT ![c] = ledger + 1]
    /\ UNCHANGED <<call, lane>>

FtsJobs(c, kinds) == {[kind |-> k[1], about |-> k[2], at |-> Request(c).at] : k \in kinds}

Effects(c, suppressed, refreshed, kinds) ==
    \/ /\ lane = "layered"
       /\ Effect(c, suppressed, refreshed)
       /\ UNCHANGED ftsVars
    \/ /\ lane = "fts"
       /\ Nameable(FtsJobs(c, kinds))
       /\ Enqueue(FtsJobs(c, kinds))
       /\ UNCHANGED layeredVars

NoEffects == UNCHANGED <<layeredVars, ftsVars>>

\* The next revision of the target: it supersedes the one that was current.
Write(c, content, life, linked) ==
    memory' = [memory EXCEPT ![Target(c)] =
                 [life |-> life, current |-> Len(@.revs) + 1,
                  revs |-> Append(@.revs, [content |-> content, life |-> life,
                                           parent |-> @.current,
                                           linked |-> linked, by |-> c])]]

Superseded(c) == IF Held(c).current = 0 THEN {} ELSE {<<Target(c), Held(c).current>>}
Successor(c) == <<Target(c), Len(Held(c).revs) + 1>>

WithdrawnRow(c) == {<<"invalidate", <<Target(c), 0>>>>}
RowChanges(c, life) ==
    ({"delete"} \X Superseded(c))
      \cup (IF life = "active" THEN {<<"upsert", Successor(c)>>} ELSE {})

\* createMemory: a first revision, or the successor of the current one.
WriteGoverned(c) ==
    LET life == Lifecycle(Request(c).decision) IN
    /\ Write(c, Request(c).content, life, TRUE)
    /\ Effects(c, Superseded(c), IF life = "active" THEN {Successor(c)} ELSE {},
               RowChanges(c, life))
    /\ UNCHANGED <<conflict, rules>>

\* The content that is current already: the candidate is linked to it.
Reuse(c) ==
    /\ Held(c).current # 0
    /\ Current(Target(c)).content = Request(c).content
    /\ memory' = [memory EXCEPT ![Target(c)].revs[Held(c).current].linked = TRUE]
    /\ NoEffects
    /\ UNCHANGED <<conflict, rules>>

OpenConflict(c) ==
    /\ Held(c).current # 0
    /\ Current(Target(c)).content # Request(c).content
    /\ Current(Target(c)).linked
    /\ conflict' = conflict \cup {Target(c)}
    /\ Effects(c, Superseded(c), {}, WithdrawnRow(c))
    /\ UNCHANGED <<memory, rules>>

\* admitMemory.  A purged memory keeps its key, and refuses a proposal.
Propose(c) ==
    /\ Request(c).tool = "memory_propose"
    /\ \/ Held(c).life = "none" /\ WriteGoverned(c)
       \/ Reuse(c)
       \/ OpenConflict(c)

\* applyMemoryRevision.
Correct(c) ==
    /\ Request(c).tool = "memory_correct"
    /\ Held(c).current = Request(c).expected
    /\ Target(c) \notin conflict
    /\ \/ Reuse(c)
       \/ /\ Current(Target(c)).content # Request(c).content
          /\ WriteGoverned(c)

\* Fault: a control is applied to whatever is current.
TargetExists(c) == Held(c).current # 0

\* control-repository: what the caller saw must still be current.
StillCurrent(c) == Held(c).current = Request(c).expected

SetLifecycle(c, life) == memory' = [memory EXCEPT ![Target(c)].life = life]

Pin(c) ==
    /\ Request(c).tool = "memory_pin"
    /\ StillCurrent(c)
    /\ NoEffects
    /\ UNCHANGED <<memory, conflict, rules>>

UsageSet(c) ==
    /\ Request(c).tool \in {"usage_block", "usage_allow"}
    /\ StillCurrent(c)
    /\ LET effect == IF Request(c).tool = "usage_block" THEN "block" ELSE "allow" IN
       /\ rules' = rules \cup {[source |-> <<Target(c), Held(c).current>>,
                                effect |-> effect, at |-> Request(c).at, by |-> c]}
       /\ IF effect = "block" THEN Effects(c, Superseded(c), {}, {})
                              ELSE Effects(c, {}, Superseded(c), {})
    /\ UNCHANGED <<memory, conflict>>

Demote(c) ==
    /\ Request(c).tool = "memory_demote"
    /\ StillCurrent(c)
    /\ Held(c).life = "active"
    /\ SetLifecycle(c, "candidate")
    /\ Effects(c, Superseded(c), {}, WithdrawnRow(c))
    /\ UNCHANGED <<conflict, rules>>

Revoke(c) ==
    /\ Request(c).tool = "memory_revoke"
    /\ StillCurrent(c)
    /\ SetLifecycle(c, "revoked")
    /\ Effects(c, Superseded(c), {}, WithdrawnRow(c))
    /\ UNCHANGED <<conflict, rules>>

\* deleteMemory (the purge itself is PurgeSaga's).
Delete(c) ==
    /\ Request(c).tool = "memory_delete"
    /\ StillCurrent(c)
    /\ memory' = [memory EXCEPT ![Target(c)].life = "purged", ![Target(c)].current = 0]
    /\ Effects(c, Superseded(c), {}, WithdrawnRow(c))
    /\ UNCHANGED <<conflict, rules>>

\* applyLearningReleaseEffect: the source's content again, as a new revision
\* that no candidate is linked to.  A rollback to an earlier release activates
\* it; a rollback to none gives the source the lifecycle it was written with.
LearningEffect(c) ==
    LET source == Held(c).revs[Request(c).source] IN
    /\ Request(c).tool \in {"learning_release", "learning_rollback"}
    /\ StillCurrent(c)
    /\ Held(c).life \notin {"revoked", "purged"}
    /\ source.life \notin {"revoked", "purged"}
    /\ \E life \in IF Request(c).tool = "learning_release" THEN {"active"}
                   ELSE {"active", source.life} :
         /\ Write(c, source.content, life, FALSE)
         /\ Effects(c, Superseded(c), IF life = "active" THEN {Successor(c)} ELSE {},
                    RowChanges(c, life))
    /\ UNCHANGED <<conflict, rules>>

Apply(c) ==
    /\ Unanswered(c)
    /\ Seal(c)
    /\ \/ Propose(c)
       \/ Correct(c)
       \/ Pin(c)
       \/ UsageSet(c)
       \/ Demote(c)
       \/ Revoke(c)
       \/ Delete(c)
       \/ LearningEffect(c)

(***************************************************************************)
(* The lanes run between the calls.                                        *)
(***************************************************************************)
ConsolidationStep ==
    /\ lane = "layered"
    /\ WorkerStep(Eligible, Admissible)
    /\ UNCHANGED <<governanceVars, ftsVars>>

ConsolidationFault ==
    /\ lane = "layered"
    /\ CallThrows \/ WorkerDies
    /\ UNCHANGED <<governanceVars, ftsVars>>

ConsolidationRebuild ==
    /\ lane = "layered"
    /\ RebuildScope(Eligible)
    /\ UNCHANGED <<governanceVars, ftsVars>>

IndexStep ==
    /\ lane = "fts"
    /\ FtsStep(Indexable)
    /\ UNCHANGED <<governanceVars, layeredVars, ledger>>

IndexFault ==
    /\ lane = "fts"
    /\ JobFails
    /\ UNCHANGED <<governanceVars, layeredVars, ledger>>

IndexRebuild ==
    /\ lane = "fts"
    /\ RebuildFts(Indexable)
    /\ UNCHANGED <<governanceVars, layeredVars, ledger>>

Next ==
    \/ \E c \in Calls : Prepare(c) \/ Apply(c)
    \/ ConsolidationStep
    \/ ConsolidationFault
    \/ ConsolidationRebuild
    \/ IndexStep
    \/ IndexFault
    \/ IndexRebuild

Spec == GInit /\ [][Next]_vars

\* The supervisor drains both lanes again and again; callers owe nothing.
FairSpec == Spec /\ WF_vars(ConsolidationStep) /\ WF_vars(IndexStep)

-----------------------------------------------------------------------------
(***************************************************************************)
(* Properties.                                                             *)
(***************************************************************************)

\* The types of the canonical state (the lanes' types follow from the jobs).
TypeOK ==
    /\ \A m \in Memories : memory[m].current \in 0 .. Len(memory[m].revs)
    /\ conflict \subseteq Memories
    /\ \A r \in rules : r.effect \in {"allow", "block"} /\ r.by \in Calls
    /\ \A c \in Calls : call[c].step \in {"idle", "prepared"}
    /\ receipt \in [Calls -> 0 .. ledger]
    /\ lane \in Lanes

\* A memory's revisions form one line, each written by a call of its own over
\* the revision its caller had read; only the newest is ever current, and no
\* two mutations share an epoch: concurrent corrections, releases and retries
\* neither fork a memory nor apply twice.
LinearHistory ==
    /\ TypeOK
    /\ \A m \in Memories :
         LET revs == memory[m].revs IN
         /\ memory[m].current \in {0, Len(revs)}
         /\ \A i \in DOMAIN revs : /\ revs[i].parent = i - 1
                                   /\ receipt[revs[i].by] # 0
         /\ \A i, j \in DOMAIN revs : revs[i].by = revs[j].by => i = j
         /\ \A i \in DOMAIN revs : Request(revs[i].by).expected = i - 1
    /\ \A c, d \in Calls : receipt[c] = receipt[d] => (c = d \/ receipt[c] = 0)

\* A mutation is answered from its receipt for ever: the epoch it names never
\* changes, whatever is retried and in whatever order.
AnsweredOnce == [][\A c \in Calls : receipt[c] # 0 => receipt'[c] = receipt[c]]_vars

\* No projection is served that was derived from a memory that may no longer
\* be used (superseded, demoted, revoked, deleted, contested or blocked), and
\* a scope that reports ready shows all that may be used.
ProjectionsSound ==
    /\ \A p \in active : p \subseteq Eligible
    /\ scope.status = "ready" => active = Project(Eligible)

\* When the index reports ready, every row in it is an active current revision
\* of an uncontested memory: the search need not meet a withdrawn memory.
IndexSound ==
    fts = "ready" => rows \subseteq Indexable

\* Neither of the two shows what was withdrawn.
ViewsSound == ProjectionsSound /\ IndexSound

\* The scope is not left pending: once the calls stop, it becomes ready and
\* stays so, unless a job has used up its attempts.
ScopeSettles ==
    (pjobs # << >>) ~> (scope.status = "ready" \/ Exhausted)

\* What the governance plan's state diagram says: a revoked memory is only ever
\* deleted.  (It does not hold.)
RevokedStaysOut ==
    [][\A m \in Memories :
         memory[m].life = "revoked" => memory'[m].life \in {"revoked", "purged"}]_vars
=============================================================================
