---------------------------- MODULE HeadProvider ----------------------------
(***************************************************************************)
(* What a RecoveryHeadProvider (packages/storage-sqlite,                   *)
(* anchor-coordinator.ts) is to its caller: one authenticated value,       *)
(* changed by whole operations.  MemoryRecoveryHeadProvider is just this;  *)
(* RecoveryJournal implements it with files and crashes.                   *)
(***************************************************************************)
EXTENDS HeadState

VARIABLE value          \* ProviderState: anchor generation, reservations,
                        \* terminal frontier

-----------------------------------------------------------------------------
HPInit == value = ZeroState

Bootstrap    == CanBootstrap(value) /\ value' = Bootstrapped(value)
Backup       == CanBackup(value) /\ value' = BackedUp(value)
Reserve(k)   == /\ CanReserve(value, k)
                /\ \E id \in Ids \ IdsOf(value) : value' = Reserved(value, k, id)
Commit(r)    == CanCommit(value, r) /\ value' = Committed(value, r)
Reconcile(r) == CanReconcile(value, r) /\ value' = Reconciled(value, r)
Abort(r)     == CanAbort(value, r) /\ value' = Aborted(value, r)

HPNext ==
  \/ Bootstrap \/ Backup
  \/ \E k \in Keys : Reserve(k)
  \/ \E r \in value.pending : Commit(r) \/ Reconcile(r) \/ Abort(r)

HPSpec == HPInit /\ [][HPNext]_value
=============================================================================
