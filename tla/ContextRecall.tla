---------------------------- MODULE ContextRecall ----------------------------
(***************************************************************************)
(* One recall request, sent once or several times, while the memories it   *)
(* recalls change.  An attempt is a sequence of storage calls with other   *)
(* calls between them:                                                     *)
(*                                                                         *)
(*   layered     memory_context_compile: recall-orchestrator.ts,           *)
(*               lane-retrievers.ts, memory-kernel/src/index.ts            *)
(*   legacy      the same tool when only recent_l1 is allowed              *)
(*   search      memory_search                                             *)
(*   automatic   automatic-recall.ts, the context a hook injects           *)
(*   compiler    context-compiler/src                                      *)
(*   record      recordRecall in storage-sqlite/src/database.ts            *)
(*                                                                         *)
(* A scope has one current batch of projections, all with its sources and  *)
(* its frontier: a topic, and the relation of its sources.  Every memory   *)
(* has one evidence, every memory matches the query, and as_of, principal  *)
(* and sensitivity are the same throughout.                                *)
(***************************************************************************)
EXTENDS Naturals, FiniteSets, FiniteSetsExt

CONSTANTS
    Scopes,       \* numbers, in the order of scopeKey
    Memories,
    ScopeOf,      \* the scope of each memory
    Attempts,     \* the times the request is sent
    Tools,        \* what the request may be
    Budget,       \* items that fit the token budget
    SourceLimit,  \* max_source_revisions_per_batch
    MaxChanges,   \* bound on the calls that change memories
    MaxFailures   \* bound on failing reads and restarts of the host

RecallAssumption ==
    /\ Scopes \subseteq Nat
    /\ ScopeOf \in [Memories -> Scopes]
    /\ Tools \subseteq {"layered", "legacy", "search", "automatic"}
    /\ {Budget, SourceLimit, MaxChanges, MaxFailures} \subseteq Nat

VARIABLES
    memory,   \* memory_objects: lifecycle, current revision, usage rule, purge
    epochs,   \* ledger_state and tombstone_state
    shelf,    \* layered_projection_scope_state and the batch it was derived with
    tool,     \* what the request is
    attempt,  \* how far each attempt is, and what it has read
    kept,     \* the request's row, receipt and slice, once recorded
    bounds    \* changes and failures so far

recallVars == <<memory, epochs, shelf, tool, attempt, kept, bounds>>

(***************************************************************************)
(* What the storage holds.                                                 *)
(***************************************************************************)
Source(m) == <<m, memory[m].rev>>
Usable(row) == row.life = "active" /\ ~row.blocked
UsableIn(rows) == {<<m, rows[m].rev>> : m \in {n \in Memories : Usable(rows[n])}}
Eligible == UsableIn(memory)
EligibleIn(s) == {x \in Eligible : ScopeOf[x[1]] = s}
ScopesOf(sources) == {ScopeOf[x[1]] : x \in sources}

\* A batch is current until one of its sources is suppressed or it is replaced.
Current(s, at) == shelf[s].live /\ shelf[s].at = at

NoFront == <<0, 0, 0>>
Front(s) == <<shelf[s].ledger, shelf[s].tombstone, shelf[s].epoch>>
Epochs(front) == <<front[1], front[2]>>

Item(kind, of, at) == [kind |-> kind, of |-> of, at |-> at, text |-> TRUE]
MemoryItems(sources) == {Item("memory", {x}, NoFront) : x \in sources}
EvidenceItems(s) ==
    {Item("evidence", {<<m, 0>>}, NoFront) :
       m \in {n \in Memories : ScopeOf[n] = s /\ ~memory[n].purged}}
Topic(s) == Item("topic", shelf[s].of, shelf[s].at)
Relation(s) == Item("relation", shelf[s].of, shelf[s].at)
Projected(items) == {i \in items : i.kind \in {"topic", "relation"}}
Sources(items) == UNION {i.of : i \in items}

(***************************************************************************)
(* An attempt.  For each scope: the reads still to make, the candidates,   *)
(* the memories found eligible, the exact sources and their epochs, and    *)
(* the frontier read last.                                                 *)
(***************************************************************************)
NoRead == [step |-> "wait", todo |-> {}, found |-> {}, hits |-> {}, asked |-> {}, checked |-> {},
           exact |-> {}, seen |-> << >>, front |-> NoFront, ready |-> FALSE,
           failed |-> {}]
NoAttempt == [step |-> "idle", round |-> 0, lanes |-> {},
              scope |-> [s \in Scopes |-> NoRead],
              items |-> {}, over |-> {}, failed |-> {}, replayed |-> FALSE,
              ever |-> {}, always |-> {}]
NoRow == [items |-> {}, recorded |-> FALSE]

FirstLanes == {"memory", "topic"}
Lanes == FirstLanes \cup {"relation"}
StartRead(lanes) == [NoRead EXCEPT !.step = "lanes", !.todo = lanes \cap FirstLanes]

Running(a) == attempt[a].step \in {"recall", "search", "listing", "compiled"}

RInit ==
    /\ memory = [m \in Memories |-> [life |-> "active", rev |-> 1,
                                     blocked |-> FALSE, purged |-> FALSE]]
    /\ epochs = [ledger |-> 1, tombstone |-> 0]
    /\ shelf = [s \in Scopes |-> [status |-> "pending", ledger |-> 1, tombstone |-> 0,
                                  epoch |-> 0, at |-> NoFront, of |-> {}, live |-> FALSE]]
    /\ tool \in Tools
    /\ attempt = [a \in Attempts |-> NoAttempt]
    /\ kept = NoRow
    /\ bounds = [changes |-> 0, failures |-> 0]

(***************************************************************************)
(* The calls of others.  A mutation turns its scope pending at the epoch   *)
(* it reaches; one that takes a revision out of use also invalidates what  *)
(* was derived from it.  Attempts under way note what was eligible.        *)
(***************************************************************************)
Noted(now) ==
    [a \in Attempts |->
       IF Running(a)
       THEN [attempt[a] EXCEPT !.ever = @ \cup now, !.always = @ \cap now]
       ELSE attempt[a]]

Mutate(m, row, tombstones, suppresses) ==
    LET s == ScopeOf[m] IN
    /\ bounds.changes < MaxChanges
    /\ memory' = [memory EXCEPT ![m] = row]
    /\ epochs' = [ledger |-> epochs.ledger + 1,
                  tombstone |-> epochs.tombstone + tombstones]
    /\ shelf' = [shelf EXCEPT ![s].status = "pending",
                   ![s].ledger = epochs'.ledger, ![s].tombstone = epochs'.tombstone,
                   ![s].live = @ /\ ~(suppresses /\ Source(m) \in shelf[s].of)]
    /\ attempt' = Noted(UsableIn(memory'))
    /\ bounds' = [bounds EXCEPT !.changes = @ + 1]
    /\ UNCHANGED <<tool, kept>>

Correct(m) ==
    /\ memory[m].life = "active"
    /\ Mutate(m, [memory[m] EXCEPT !.rev = @ + 1, !.blocked = FALSE], 0, TRUE)

SetUsage(m) ==
    /\ memory[m].life = "active"
    /\ Mutate(m, [memory[m] EXCEPT !.blocked = ~@], 0, ~memory[m].blocked)

Revoke(m) ==
    /\ memory[m].life = "active"
    /\ Mutate(m, [memory[m] EXCEPT !.life = "revoked"], 0, TRUE)

Delete(m) ==
    /\ memory[m].life # "purged"
    /\ Mutate(m, [memory[m] EXCEPT !.life = "purged"], 1, TRUE)

\* The consolidation worker publishes the batch of a pending scope.
Project(s) ==
    /\ shelf[s].status = "pending"
    /\ shelf' = [shelf EXCEPT ![s] =
         LET front == <<epochs.ledger, epochs.tombstone, @.epoch + 1>> IN
         [status |-> "ready", ledger |-> front[1], tombstone |-> front[2],
          epoch |-> front[3], at |-> front, of |-> EligibleIn(s),
          live |-> EligibleIn(s) # {}]]
    /\ UNCHANGED <<memory, epochs, tool, attempt, kept, bounds>>

\* The host stops: attempts under way are never answered.
Lost == [a \in Attempts |-> IF Running(a) THEN [NoAttempt EXCEPT !.step = "lost"]
                            ELSE attempt[a]]

HostRestarts ==
    /\ bounds.failures < MaxFailures
    /\ attempt' = Lost
    /\ bounds' = [bounds EXCEPT !.failures = @ + 1]
    /\ UNCHANGED <<memory, epochs, shelf, tool, kept>>

\* Fault: only items of the memory itself are redacted, not what derives from it.
RedactedDirectly(items, m) ==
    {IF i.kind = "memory" /\ m \in {x[1] : x \in i.of} THEN [i EXCEPT !.text = FALSE] ELSE i :
       i \in items}

Redacted(items, m) ==
    {IF m \in {x[1] : x \in i.of} THEN [i EXCEPT !.text = FALSE] ELSE i : i \in items}

\* The operator purges a deleted memory while no host runs.
Purge(m) ==
    /\ memory[m].life = "purged"
    /\ ~memory[m].purged
    /\ memory' = [memory EXCEPT ![m].purged = TRUE]
    /\ kept' = [kept EXCEPT !.items = Redacted(@, m)]
    /\ attempt' = Lost
    /\ UNCHANGED <<epochs, shelf, tool, bounds>>

(***************************************************************************)
(* Starting an attempt.  The learned retrieval policy is resolved once and *)
(* may only take lanes away; legacy and search walk the scopes in order.   *)
(***************************************************************************)
Begin(a) ==
    /\ attempt[a].step = "idle"
    /\ \A b \in Attempts : b < a => attempt[b].step # "idle"
    /\ \E lanes \in IF tool = "layered" THEN {Lanes, {"memory"}} ELSE {{}} :
         attempt' = [attempt EXCEPT ![a] =
           [NoAttempt EXCEPT
              !.step = CASE tool = "layered" -> "recall"
                         [] tool = "automatic" -> "listing"
                         [] OTHER -> "search",
              !.round = 1, !.lanes = lanes,
              !.scope = [s \in Scopes |-> IF tool = "layered" THEN StartRead(lanes)
                                          ELSE [NoRead EXCEPT !.step = "evidence"]],
              !.ever = Eligible, !.always = Eligible]]
    /\ UNCHANGED <<memory, epochs, shelf, tool, kept, bounds>>

(***************************************************************************)
(* The reads of one scope.  A failing lane is left out and named; any      *)
(* other call that throws fails the attempt.                               *)
(***************************************************************************)
Stored == <<memory, epochs, shelf, tool, kept>>
Scope(a, s) == attempt[a].scope[s]
After(a, s, read) ==
    /\ attempt' = [attempt EXCEPT ![a].scope[s] = read]
    /\ UNCHANGED <<Stored, bounds>>

InLane(a, s, lane) ==
    /\ attempt[a].step = "recall"
    /\ Scope(a, s).step = "lanes"
    /\ lane \in Scope(a, s).todo
    /\ lane \in {"relation", "traverse", "hops"} => Scope(a, s).todo = {lane}

\* The lane is done; what it found joins the candidates.
Found(a, s, lane, items) ==
    After(a, s, [Scope(a, s) EXCEPT !.todo = @ \ {lane}, !.found = @ \cup items, !.hits = {}])
Unavailable(a, s, lane, name) ==
    [Scope(a, s) EXCEPT !.todo = @ \ {lane}, !.failed = @ \cup {name}, !.hits = {}]
GoesOn(a, s, lane, next) ==
    After(a, s, [Scope(a, s) EXCEPT !.todo = (@ \ {lane}) \cup {next}])

RecentL1(a, s) ==
    /\ InLane(a, s, "memory")
    /\ Found(a, s, "memory", MemoryItems(EligibleIn(s)))

\* A lane reads the scope's frontier, and only then a page, which checks again.
ProjectionFrontier(a, s) ==
    /\ InLane(a, s, "topic")
    /\ IF shelf[s].status = "ready" THEN GoesOn(a, s, "topic", "page")
       ELSE Found(a, s, "topic", {})

ProjectionPage(a, s) ==
    /\ InLane(a, s, "page")
    /\ IF shelf[s].status = "ready"
       THEN Found(a, s, "page", IF shelf[s].live THEN {Topic(s)} ELSE {})
       ELSE After(a, s, Unavailable(a, s, "page", "topic"))

\* Relations start from the sources of what the other lanes found.
RelationFrontier(a, s) ==
    /\ InLane(a, s, "relation")
    /\ IF Scope(a, s).found # {} /\ shelf[s].status = "ready"
       THEN GoesOn(a, s, "relation", "traverse")
       ELSE Found(a, s, "relation", {})

Traverse(a, s) ==
    /\ InLane(a, s, "traverse")
    /\ IF /\ shelf[s].live
          /\ Cardinality(shelf[s].of) > 1
          /\ shelf[s].of \cap Sources(Scope(a, s).found) # {}
       THEN After(a, s, [Scope(a, s) EXCEPT !.todo = {"hops"}, !.hits = {Relation(s)}])
       ELSE Found(a, s, "traverse", {})

RelationPage(a, s) ==
    /\ InLane(a, s, "hops")
    /\ IF shelf[s].status = "ready"
       THEN Found(a, s, "hops", {i \in Scope(a, s).hits : Current(s, i.at)})
       ELSE After(a, s, Unavailable(a, s, "hops", "relation"))

LaneFails(a, s) ==
    /\ bounds.failures < MaxFailures
    /\ \E lane \in Scope(a, s).todo :
         /\ InLane(a, s, lane)
         /\ attempt' = [attempt EXCEPT ![a].scope[s] = Unavailable(a, s, lane,
                          CASE lane = "page" -> "topic"
                            [] lane \in {"traverse", "hops"} -> "relation"
                            [] OTHER -> lane)]
    /\ bounds' = [bounds EXCEPT !.failures = @ + 1]
    /\ UNCHANGED Stored

(***************************************************************************)
(* Revalidation.  Each memory is checked in a call of its own, the sources *)
(* of all projections in one, and the frontier is read after both.         *)
(***************************************************************************)
LanesAreRead(a, s) ==
    /\ attempt[a].step = "recall"
    /\ Scope(a, s).step = "lanes"
    /\ Scope(a, s).todo = {}

Unchecked(r) == Sources({i \in r.found : i.kind = "memory"}) \ r.asked

CheckMemory(a, s) ==
    /\ LanesAreRead(a, s)
    /\ \E x \in Unchecked(Scope(a, s)) :
         After(a, s, [Scope(a, s) EXCEPT !.asked = @ \cup {x},
                        !.checked = @ \cup ({x} \cap Eligible)])

ProjectedSources(r) == Sources(Projected(r.found))
Limited(r) == Cardinality(ProjectedSources(r)) > SourceLimit

SourcesAreNext(a, s) ==
    /\ LanesAreRead(a, s)
    /\ Unchecked(Scope(a, s)) = {}
    /\ ProjectedSources(Scope(a, s)) # {}
    /\ ~Limited(Scope(a, s))

ValidateSources(a, s) ==
    LET r == Scope(a, s) IN
    /\ SourcesAreNext(a, s)
    /\ After(a, s, [r EXCEPT !.step = "validated", !.exact = @ \cup (ProjectedSources(r) \cap Eligible),
                      !.seen = Epochs(Front(s))])

Mismatch(r, front, ready) == r.step = "validated" /\ ready /\ r.seen # Epochs(front)

\* Fault: the frontier the projection was read at is not compared.
RevalidatedAnywhere(r, front, ready) ==
    {i \in r.found :
       IF i.kind = "memory" THEN i.of \subseteq r.checked ELSE i.of \subseteq r.exact}

Revalidated(r, front, ready) ==
    {i \in r.found :
       IF i.kind = "memory" THEN i.of \subseteq r.checked
       ELSE /\ r.step = "validated"
            /\ ~Mismatch(r, front, ready)
            /\ ready /\ i.at = front
            /\ i.of \subseteq r.exact}

ReadFrontier(a, s) ==
    LET r == Scope(a, s)
        ready == shelf[s].status = "ready"
    IN
    /\ \/ attempt[a].step = "recall" /\ r.step = "validated"
       \/ LanesAreRead(a, s) /\ Unchecked(r) = {} /\ (ProjectedSources(r) = {} \/ Limited(r))
    /\ After(a, s, [NoRead EXCEPT !.step = "done", !.front = Front(s), !.ready = ready,
                      !.found = Revalidated(r, Front(s), ready),
                      !.failed = r.failed \cup
                         IF Limited(r) \/ Mismatch(r, Front(s), ready) THEN {"sources"} ELSE {}])

CallFails(a) ==
    /\ Running(a)
    /\ bounds.failures < MaxFailures
    /\ attempt[a].step = "recall" =>
         \E s \in Scopes : Scope(a, s).step = "validated" \/ LanesAreRead(a, s)
    /\ attempt' = [attempt EXCEPT ![a] = [NoAttempt EXCEPT !.step = "error"]]
    /\ bounds' = [bounds EXCEPT !.failures = @ + 1]
    /\ UNCHANGED Stored

(***************************************************************************)
(* Compiling.  Ready scopes have to agree on the epochs; if they do not,   *)
(* every scope is recalled once more, and then no projection is used.      *)
(***************************************************************************)
AllDone(a) == \A s \in Scopes : Scope(a, s).step = "done"
ReadyScopes(a) == {s \in Scopes : Scope(a, s).ready}
EpochsAgree(a) == Cardinality({Epochs(Scope(a, s).front) : s \in ReadyScopes(a)}) = 1

SecondRound(a) ==
    /\ attempt[a].step = "recall"
    /\ AllDone(a)
    /\ ~EpochsAgree(a)
    /\ attempt[a].round = 1
    /\ attempt' = [attempt EXCEPT ![a].round = 2, ![a].ever = Eligible, ![a].always = Eligible,
                     ![a].scope = [s \in Scopes |-> StartRead(attempt[a].lanes)]]
    /\ UNCHANGED <<Stored, bounds>>

Candidates(a) == UNION {Scope(a, s).found : s \in Scopes}
Retained(a) == IF EpochsAgree(a) THEN Candidates(a) ELSE Candidates(a) \ Projected(Candidates(a))

\* The slice's frontier: the newest epochs of the ready scopes, each scope's own.
SliceEpochs(a) ==
    LET counted == IF ReadyScopes(a) = {} THEN Scopes ELSE ReadyScopes(a) IN
    <<Max({Scope(a, s).front[1] : s \in counted}), Max({Scope(a, s).front[2] : s \in counted})>>
Passes(a, i) ==
    i.kind \in {"topic", "relation"} =>
      /\ Epochs(i.at) = SliceEpochs(a)
      /\ \E s \in ScopesOf(i.of) : i.at = Scope(a, s).front

\* A topic stands for the memories it summarises, whether or not it is packed.
Distinct(items) ==
    LET topics == Sources({i \in items : i.kind = "topic"}) IN
    {i \in items : i.kind = "memory" => ~(i.of \subseteq topics)}

Failed(a) ==
    UNION {Scope(a, s).failed : s \in Scopes}
      \cup (IF attempt[a].lanes \subseteq {"memory"} \/ (EpochsAgree(a) /\ ReadyScopes(a) = Scopes)
            THEN {} ELSE {"scopes"})

Packed(a, items, failed) ==
    \E chosen \in SUBSET items :
      /\ Cardinality(chosen) = Min({Budget, Cardinality(items)})
      /\ attempt' = [attempt EXCEPT ![a] =
           [@ EXCEPT !.step = "compiled", !.items = chosen, !.over = items \ chosen,
                     !.failed = failed, !.scope = [s \in Scopes |-> NoRead]]]
      /\ UNCHANGED <<Stored, bounds>>

CompileLayered(a) ==
    /\ attempt[a].step = "recall"
    /\ AllDone(a)
    /\ EpochsAgree(a) \/ attempt[a].round = 2
    /\ Packed(a, Distinct({i \in Retained(a) : Passes(a, i)}), Failed(a))

(***************************************************************************)
(* The walk of legacy contexts and of searches: the evidence of each scope *)
(* in turn, every hit fetched by a call of its own, then the memories of   *)
(* each scope.                                                             *)
(***************************************************************************)
Walks(a, s, step) ==
    /\ attempt[a].step = "search"
    /\ Scope(a, s).step = step

SearchEvidence(a, s) ==
    /\ Walks(a, s, "evidence")
    /\ \A t \in Scopes : t < s => Scope(a, t).step = "memory"
    /\ After(a, s, [NoRead EXCEPT !.step = "fetch", !.hits = EvidenceItems(s)])

EvidenceUnavailable(a, s) ==
    /\ Walks(a, s, "evidence")
    /\ \A t \in Scopes : t < s => Scope(a, t).step = "memory"
    /\ bounds.failures < MaxFailures
    /\ attempt' = [attempt EXCEPT ![a].scope[s] =
                     [NoRead EXCEPT !.step = "memory", !.failed = {"evidence"}]]
    /\ bounds' = [bounds EXCEPT !.failures = @ + 1]
    /\ UNCHANGED Stored

GetEvidence(a, s) ==
    /\ Walks(a, s, "fetch")
    /\ \/ /\ Scope(a, s).hits = {}
          /\ After(a, s, [Scope(a, s) EXCEPT !.step = "memory"])
       \/ \E i \in Scope(a, s).hits :
            /\ i \in EvidenceItems(s)
            /\ After(a, s, [Scope(a, s) EXCEPT !.hits = @ \ {i}, !.found = @ \cup {i}])

SearchMemory(a, s) ==
    /\ Walks(a, s, "memory")
    /\ \A t \in Scopes : Scope(a, t).step = IF t < s THEN "done" ELSE "memory"
    /\ After(a, s, [Scope(a, s) EXCEPT !.step = "done", !.found = @ \cup MemoryItems(EligibleIn(s))])

\* Evidence that a memory found governs is not shown beside it.
Ungoverned(items) ==
    LET governed == {x[1] : x \in Sources({i \in items : i.kind = "memory"})} IN
    {i \in items : i.kind = "evidence" => \A x \in i.of : x[1] \notin governed}

CompileFlat(a) ==
    /\ attempt[a].step = "search"
    /\ AllDone(a)
    /\ Packed(a, Ungoverned(Candidates(a)), UNION {Scope(a, s).failed : s \in Scopes})

\* The automatic context: one listing of all scopes' memories.
ListMemories(a) ==
    /\ attempt[a].step = "listing"
    /\ Packed(a, MemoryItems(Eligible), {})

(***************************************************************************)
(* Recording.  A slice is stored once per request and never again; only    *)
(* its projections are validated first.  A request that has a slice is     *)
(* answered with it, if what it holds may still be shown.                  *)
(***************************************************************************)
Answer(a, items, replayed) ==
    attempt' = [attempt EXCEPT ![a] =
      [NoAttempt EXCEPT !.step = "answered", !.items = items, !.replayed = replayed,
                        !.failed = attempt[a].failed]]
Refuse(a) ==
    /\ attempt' = [attempt EXCEPT ![a] = [NoAttempt EXCEPT !.step = "error"]]
    /\ UNCHANGED kept

ProjectionStands(i) ==
    /\ \A s \in ScopesOf(i.of) : Current(s, i.at)
    /\ i.of \subseteq Eligible

\* Fault: a slice is stored as it was compiled.
ValidUnread(items) == TRUE

Valid(items) == \A i \in Projected(items) : ProjectionStands(i)

Tombstoned(i) == \E x \in i.of : memory[x[1]].life = "purged"

\* Fault: what the slice holds is not looked up again.
ReplaysAnyway(items) == TRUE

Replays(items) ==
    \A i \in items :
      i.text => /\ ~Tombstoned(i)
                /\ i.kind = "memory" => i.of \subseteq Eligible
                /\ i.kind \in {"topic", "relation"} => ProjectionStands(i)

RecordRecall(a) ==
    /\ attempt[a].step = "compiled"
    /\ tool \in {"layered", "legacy"}
    /\ IF ~Valid(attempt[a].items) THEN Refuse(a)
       ELSE IF ~kept.recorded
       THEN /\ kept' = [items |-> attempt[a].items, recorded |-> TRUE]
            /\ Answer(a, attempt[a].items, FALSE)
       ELSE IF Replays(kept.items) THEN Answer(a, kept.items, TRUE) /\ UNCHANGED kept
       ELSE Refuse(a)
    /\ UNCHANGED <<memory, epochs, shelf, tool, bounds>>

\* A search stores the receipt of its first answer; it has no slice.
Named(items) == {[i EXCEPT !.text = FALSE] : i \in items}

RecordAudit(a) ==
    /\ attempt[a].step = "compiled"
    /\ tool = "search"
    /\ kept' = IF kept.recorded THEN kept
               ELSE [items |-> Named(attempt[a].items), recorded |-> TRUE]
    /\ Answer(a, attempt[a].items, kept.recorded)
    /\ UNCHANGED <<memory, epochs, shelf, tool, bounds>>

\* The use of an automatic context: one per request, of the same memories.
RecordUse(a) ==
    /\ attempt[a].step = "compiled"
    /\ tool = "automatic"
    /\ IF kept.recorded /\ kept.items # Named(attempt[a].items) THEN Refuse(a)
       ELSE /\ kept' = [items |-> Named(attempt[a].items), recorded |-> TRUE]
            /\ Answer(a, attempt[a].items, kept.recorded)
    /\ UNCHANGED <<memory, epochs, shelf, tool, bounds>>

ScopeStep(a, s) ==
    \/ RecentL1(a, s) \/ ProjectionFrontier(a, s) \/ ProjectionPage(a, s)
    \/ RelationFrontier(a, s) \/ Traverse(a, s) \/ RelationPage(a, s)
    \/ CheckMemory(a, s) \/ ValidateSources(a, s) \/ ReadFrontier(a, s)
    \/ SearchEvidence(a, s) \/ GetEvidence(a, s) \/ SearchMemory(a, s)
    \/ LaneFails(a, s) \/ EvidenceUnavailable(a, s)

AttemptStep(a) ==
    \/ Begin(a) \/ SecondRound(a) \/ CompileLayered(a) \/ CompileFlat(a) \/ ListMemories(a)
    \/ RecordRecall(a) \/ RecordAudit(a) \/ RecordUse(a) \/ CallFails(a)

RNext ==
    \/ \E a \in Attempts : AttemptStep(a)
    \/ \E a \in Attempts, s \in Scopes : ScopeStep(a, s)
    \/ \E m \in Memories : Correct(m) \/ SetUsage(m) \/ Revoke(m) \/ Delete(m) \/ Purge(m)
    \/ \E s \in Scopes : Project(s)
    \/ HostRestarts

RSpec == RInit /\ [][RNext]_recallVars

(***************************************************************************)
(* Properties.                                                             *)
(***************************************************************************)
RTypeOK ==
    /\ \A m \in Memories : /\ memory[m].life \in {"active", "revoked", "purged"}
                           /\ memory[m].purged => memory[m].life = "purged"
    /\ \A s \in Scopes : shelf[s].status = "ready" => shelf[s].at = Front(s)
    /\ \A a \in Attempts : attempt[a].step \in
         {"idle", "recall", "search", "listing", "compiled", "answered", "error", "lost"}
    /\ ~kept.recorded => kept.items = {}

(* A compiled answer holds no memory and no projection of a memory that    *)
(* was out of use from before its reads began: not one deleted, revoked,   *)
(* corrected or blocked by then, whatever the projections still held       *)
(* (recall-orchestrator.ts #revalidate, hard-filters.ts).                  *)
AnswersAreCurrent ==
    \A a \in Attempts :
      attempt[a].step = "compiled" =>
        Sources({i \in attempt[a].items : i.kind # "evidence"}) \subseteq attempt[a].ever

(* What was eligible during all the reads is in the answer, itself or in a *)
(* projection of it, or was left out for the budget: neither a projection  *)
(* that turns stale under the recall nor scopes that disagree cost it a    *)
(* memory, unless the memory lane itself failed.                           *)
NothingIsMissed ==
    \A a \in Attempts :
      attempt[a].step = "compiled" /\ "memory" \notin attempt[a].failed =>
        attempt[a].always \subseteq Sources(attempt[a].items \cup attempt[a].over)

(* The stored slice holds no text of a memory that has been purged, its    *)
(* own or a projection's, whichever attempt stored it and whenever         *)
(* (purge-repository.ts #purgeContext).                                    *)
PurgedIsRedacted ==
    \A i \in kept.items : i.text => \A x \in i.of : ~memory[x[1]].purged

(* However often the request is sent, all its answers hold the same items: *)
(* those of the one slice, or of the one recorded use.                     *)
Shown(a) == {<<i.kind, i.of>> : i \in attempt[a].items}
AnsweredAlike ==
    tool # "search" =>
      \A a, b \in Attempts :
        attempt[a].step = "answered" /\ attempt[b].step = "answered" => Shown(a) = Shown(b)

(* A slice is stored with projections that stand at that moment, of one    *)
(* pair of epochs; after that it only loses text; and it is replayed only  *)
(* while every memory and projection it shows may still be shown           *)
(* (database.ts #validateRecall, #assertGovernedContextReplayEligible).    *)
Standing(items) ==
    \A i \in items :
      i.text => /\ i.kind = "memory" => i.of \subseteq Eligible
                /\ i.kind \in {"topic", "relation"} => ProjectionStands(i)
                /\ ~Tombstoned(i)
RecallStep ==
    /\ kept'.recorded /\ ~kept.recorded /\ tool = "layered" =>
         /\ \A i \in Projected(kept'.items) : ProjectionStands(i)
         /\ Cardinality({Epochs(i.at) : i \in Projected(kept'.items)}) <= 1
    /\ kept.recorded =>
         /\ kept'.recorded
         /\ Named(kept'.items) = Named(kept.items)
         /\ \A i \in kept'.items : i.text => i \in kept.items
    /\ \A a \in Attempts :
         /\ attempt'[a].step = "answered" /\ attempt[a].step # "answered"
         /\ attempt'[a].replayed /\ tool \in {"layered", "legacy"}
         => Standing(attempt'[a].items)

(* All that holds of every state of a recall.                              *)
RecallSound ==
    RTypeOK /\ AnswersAreCurrent /\ NothingIsMissed /\ PurgedIsRedacted /\ AnsweredAlike

(***************************************************************************)
(* What the documents claim and these steps do not keep.                   *)
(***************************************************************************)
(* memory-governance.md: from the delete's transaction onward new Context  *)
(* compilation excludes the memory.                                        *)
DeletedStaysOut ==
    [][kept'.recorded /\ ~kept.recorded =>
         \A i \in kept'.items : ~Tombstoned(i)]_recallVars

(* g3r-h3-code-review.md: a change in one scope no longer costs another,   *)
(* ready scope its projections.                                            *)
ReadyScopesAreUsed ==
    \A a \in Attempts :
      /\ attempt[a].step = "compiled" /\ attempt[a].lanes = Lanes
      /\ \A s \in Scopes : shelf[s].status = "ready"
      /\ attempt[a].always = attempt[a].ever
      /\ bounds.failures = 0
      => \A s \in Scopes :
           shelf[s].live => Topic(s) \in attempt[a].items \cup attempt[a].over

(* mcp-tools.md: a search returns its results and a retrieval receipt.     *)
ReceiptIsOfAnswer ==
    tool = "search" => \A a \in Attempts :
      attempt[a].step = "answered" => kept.items = Named(attempt[a].items)

(* agent-memory-runtime-h3/design.md: when the source batch fails, the     *)
(* projection lanes are dropped and the memories are still answered.       *)
BatchFailureKeepsMemories ==
    [][\A a \in Attempts :
         attempt[a].step = "recall" /\ attempt'[a].step = "error" =>
           \E s \in Scopes : ~SourcesAreNext(a, s)]_recallVars
=============================================================================
