------------------------------ MODULE HeadState ------------------------------
(***************************************************************************)
(* The authenticated value a RecoveryHeadProvider keeps (packages/         *)
(* storage-sqlite, anchor-coordinator.ts) and its operations, as functions *)
(* of the value they find.                                                 *)
(***************************************************************************)
EXTENDS Naturals, Sequences, FiniteSets

CONSTANTS Keys,         \* idempotency keys
          Ids,          \* pending_ids: random, never reused
          MaxPending    \* MAX_ACTIVE_RECOVERY_RESERVATIONS

(* The reservations in terminal records, oldest first, stand for the hash  *)
(* chain of the records: a record is named by the chain that ends in it.   *)
Item == [id : Ids, key : Keys]
Pending == [id : Ids, key : Keys, gen : Nat, st : {"pending", "committed"}]
ProviderState == [cur : Nat, pending : SUBSET Pending, frontier : Seq(Item)]

ZeroState == [cur |-> 0, pending |-> {}, frontier |-> <<>>]

ItemOf(r) == [id |-> r.id, key |-> r.key]
KeysOf(f) == {f[i].key : i \in 1 .. Len(f)}
IdsOf(s)  == {r.id : r \in s.pending} \cup {s.frontier[i].id : i \in 1 .. Len(s.frontier)}

(* The operations, as functions of the state they find. *)
CanBootstrap(s) == s.cur = 0 /\ s.pending = {}
Bootstrapped(s) == [s EXCEPT !.cur = 1]

CanBackup(s) == s.cur > 0 /\ s.pending = {}
BackedUp(s) == [s EXCEPT !.cur = @ + 1]

CanReserve(s, k) ==
  /\ s.cur > 0
  /\ \A r \in s.pending : r.key # k
  /\ k \notin KeysOf(s.frontier)
  /\ Cardinality(s.pending) < MaxPending
Reserved(s, k, id) ==
  [s EXCEPT !.pending =
     @ \cup {[id |-> id, key |-> k, gen |-> s.cur, st |-> "pending"]}]

CanCommit(s, r) == r \in s.pending /\ r.st = "pending" /\ r.gen = s.cur
Committed(s, r) ==
  [s EXCEPT !.cur = @ + 1,
            !.pending = (@ \ {r}) \cup {[r EXCEPT !.st = "committed"]}]

CanReconcile(s, r) == r \in s.pending /\ r.st = "committed"
Reconciled(s, r) ==
  [s EXCEPT !.pending = @ \ {r}, !.frontier = Append(@, ItemOf(r))]

CanAbort(s, r) == r \in s.pending /\ r.st = "pending"
Aborted(s, r) == [s EXCEPT !.pending = @ \ {r}]
=============================================================================
