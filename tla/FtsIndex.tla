------------------------------ MODULE FtsIndex ------------------------------
(***************************************************************************)
(* The full-text lane of governed memory: memory_fts, the outbox jobs that *)
(* maintain it and the projection state a search reads first               *)
(* (storage-sqlite/src/fts-index.ts).                                      *)
(*                                                                         *)
(* A mutation writes jobs and marks the projection pending in its own      *)
(* transaction.  drain() runs one transaction per job, oldest first, and   *)
(* settles the state at its end; a process that dies in between leaves     *)
(* exactly the state of a prefix of that work, so one job is one step and  *)
(* the settlement another.  A job that fails becomes available later, so   *)
(* it may run after jobs that are younger.                                 *)
(***************************************************************************)
EXTENDS Naturals, FiniteSets

CONSTANTS
    MaxFtsAttempts,   \* MAX_FTS_PROJECTION_ATTEMPTS
    MaxFtsFailures    \* bound on failing index transactions

ASSUME FtsAssumption ==
    /\ MaxFtsAttempts \in Nat \ {0}
    /\ MaxFtsFailures \in Nat

VARIABLES
    rows,      \* memory_fts: the revisions indexed
    fjobs,     \* outbox_jobs of the three memory kinds
    fts,       \* projection_state.status of memory_fts
    failures   \* failing transactions so far

ftsVars == <<rows, fjobs, fts, failures>>

FtsInit ==
    /\ rows = {}
    /\ fjobs = << >>
    /\ fts = "ready"
    /\ failures = 0

\* A job is named by its kind, what it is about and the request's time.
\* The primary key is that name: a second job of one name is refused, and the
\* mutation with it.
Nameable(names) == names \cap DOMAIN fjobs = {}

Enqueue(names) ==
    /\ fjobs' = [n \in DOMAIN fjobs \cup names |->
                   IF n \in names THEN [st |-> "pending", tries |-> 0] ELSE fjobs[n]]
    /\ fts' = IF names = {} THEN fts ELSE "pending"
    /\ UNCHANGED <<rows, failures>>

Outstanding == {n \in DOMAIN fjobs : fjobs[n].st \in {"pending", "failed"}}
Runnable == {n \in Outstanding : fjobs[n].tries < MaxFtsAttempts}
Terminal == {n \in DOMAIN fjobs : fjobs[n].st = "failed" /\ n \notin Runnable}

\* Jobs that never failed run in the order of the requests' times.
Due(n) ==
    /\ n \in Runnable
    /\ fjobs[n].st = "pending" =>
         \A m \in Runnable : fjobs[m].st = "pending" => n.at <= m.at

RowsOf(memory) == {r \in rows : r[1] = memory}

\* Fault: an upsert does not ask whether the revision may still be indexed.
IndexedUnchecked(n, indexable) ==
    CASE n.kind = "upsert" -> (rows \ RowsOf(n.about[1])) \cup {n.about}
      [] n.kind = "invalidate" -> rows \ RowsOf(n.about[1])
      [] OTHER -> rows \ {n.about}

\* What one job makes of the index, given the revisions that may be indexed.
Indexed(n, indexable) ==
    CASE n.kind = "upsert" /\ n.about \in indexable ->
           (rows \ RowsOf(n.about[1])) \cup {n.about}
      [] n.kind = "invalidate" -> rows \ RowsOf(n.about[1])
      [] OTHER -> rows \ {n.about}

RunJob(indexable) ==
    /\ \E n \in Runnable :
         /\ Due(n)
         /\ rows' = Indexed(n, indexable)
         /\ fjobs' = [fjobs EXCEPT ![n].st = "processed", ![n].tries = @ + 1]
    /\ UNCHANGED <<fts, failures>>

JobFails ==
    /\ failures < MaxFtsFailures
    /\ \E n \in Runnable :
         /\ Due(n)
         /\ fjobs' = [fjobs EXCEPT ![n].st = "failed", ![n].tries = @ + 1]
    /\ failures' = failures + 1
    /\ UNCHANGED <<rows, fts>>

\* The end of a drain.  A job that failed in this drain makes the lane
\* unavailable; one that failed in an earlier drain leaves it pending.
Settled ==
    IF Terminal # {} THEN {"unavailable"}
    ELSE IF \E n \in Outstanding : fjobs[n].st = "failed"
    THEN {"unavailable", "pending"}
    ELSE IF Outstanding # {} THEN {"pending"} ELSE {"ready"}

Settle ==
    /\ fts' \in Settled
    /\ fts' # fts
    /\ UNCHANGED <<rows, fjobs, failures>>

\* rebuild(): the tables anew from what is eligible, and every job done.  A
\* rebuild that fails leaves this lane as it was.
RebuildFts(indexable) ==
    /\ rows' = indexable
    /\ fjobs' = [n \in DOMAIN fjobs |->
                   IF n \in Outstanding
                   THEN [st |-> "processed", tries |-> fjobs[n].tries + 1]
                   ELSE fjobs[n]]
    /\ fts' = "ready"
    /\ UNCHANGED failures

FtsStep(indexable) == RunJob(indexable) \/ Settle
=============================================================================
