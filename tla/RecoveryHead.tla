---------------------------- MODULE RecoveryHead ----------------------------
(***************************************************************************)
(* The recovery-protection protocol of packages/storage-sqlite: how one    *)
(* protected operation is carried out across                               *)
(*                                                                         *)
(*   - the external recovery head (anchor-coordinator.ts), outside the     *)
(*     data root: current anchor, unresolved reservations, terminal        *)
(*     records of the reconciled ones;                                     *)
(*   - the SQLite database (database.ts, in a worker thread): governed     *)
(*     state, recovery_anchored_effects, recovery_anchor_checkpoint;       *)
(*   - the storage client (client.ts), which runs                          *)
(*                                                                         *)
(*       reserve -> effect -> commit head -> reconcile row -> reconcile    *)
(*                                                                         *)
(*     one operation at a time (every entry point, those of the secret     *)
(*     store included, runs inside one entry of the writer queue),         *)
(*     recovers from a lost answer, and at startup resolves what a crash   *)
(*     left behind.                                                        *)
(*                                                                         *)
(* An anchor is identified with its generation: the provider extends one   *)
(* chain by compare-and-swap, so prior_head_hash is a generation here.     *)
(* A state commitment is a counter, advanced by an effect that changes the *)
(* governed state.  Signatures, root and principal identity never differ   *)
(* in one installation and are left out.                                   *)
(***************************************************************************)
EXTENDS Naturals, FiniteSets

CONSTANTS Keys,         \* idempotency keys of protected operations
          Volatile,     \* keys invented per call, whose re-execution answers
                        \* differently (drains, claims): never resubmitted
          Deltas,       \* how far an effect may move the state commitment
          MaxPending,   \* MAX_ACTIVE_RECOVERY_RESERVATIONS
          MaxIds,       \* bound: reservations ever made
          MaxFaults,    \* bound: lost worker answers and provider failures
          MaxCrashes,   \* bound: process crashes
          MaxBackups    \* bound: backup anchors ever issued

ASSUME KeysAssumption == Volatile \subseteq Keys
ASSUME DeltasAssumption == Deltas \subseteq {0, 1}
ASSUME BoundsAssumption ==
  MaxPending \in Nat /\ MaxIds \in Nat /\ MaxFaults \in Nat
  /\ MaxCrashes \in Nat /\ MaxBackups \in Nat

VARIABLES head,         \* provider: the current anchor; generation 0 is null
          resv,         \* provider: unresolved reservations
          terminal,     \* provider: reconciled reservations
          nextId,       \* next pending_id
          version,      \* database: state commitment
          effects,      \* database: recovery_anchored_effects
          cp,           \* database: recovery_anchor_checkpoint
          up,           \* client: down, opening, ready
          pc,           \* client: what it does next for the current task
          mode,         \* client: the task, and whether it is in its catch
          auth,         \* client: reservation the task works under
          todo,         \* client: reservations startup has yet to resolve
          acked,        \* keys whose caller holds the durable receipt
          faults, crashes, backups,     \* budgets used
          relapsed      \* has a failure hit the handling of a failure?

provider == <<head, resv, terminal, nextId>>
database == <<version, effects, cp>>
client   == <<up, pc, mode, auth, todo>>
budgets  == <<faults, crashes, backups, relapsed>>
vars     == <<provider, database, client, acked, budgets>>

Reservation ==
  [id : Nat, key : Keys, gen : Nat, ver : Nat,
   st : {"pending", "committed", "reconciled"}]
Effect ==
  [id : Nat, key : Keys, gen : Nat, ver : Nat, to : Nat,
   st : {"effect_committed", "reconciled"}]

NoAuth == [id |-> 0]

TypeOK ==
  /\ head \in [gen : Nat, ver : Nat, backup : BOOLEAN]
  /\ resv \subseteq {r \in Reservation : r.st # "reconciled"}
  /\ terminal \subseteq {r \in Reservation : r.st = "reconciled"}
  /\ nextId \in Nat
  /\ version \in Nat
  /\ effects \subseteq Effect
  /\ cp \in [gen : Nat, ver : Nat]
  /\ up \in {"down", "opening", "ready"}
  /\ pc \in {"idle", "read", "install", "next", "check", "exec", "lookup",
             "commit", "row", "reconcile", "replay"}
  /\ mode \in {"none", "open", "main", "catch", "backup"}
  /\ auth \in Reservation \cup {NoAuth}
  /\ todo \subseteq {r \in Reservation : r.st # "reconciled"}
  /\ acked \subseteq Keys
  /\ faults \in Nat /\ crashes \in Nat /\ backups \in Nat
  /\ relapsed \in BOOLEAN

Init ==
  /\ head = [gen |-> 0, ver |-> 0, backup |-> FALSE]
  /\ resv = {} /\ terminal = {} /\ nextId = 1
  /\ version = 0 /\ effects = {} /\ cp = [gen |-> 0, ver |-> 0]
  /\ up = "down" /\ pc = "idle" /\ mode = "none" /\ auth = NoAuth /\ todo = {}
  /\ acked = {}
  /\ faults = 0 /\ crashes = 0 /\ backups = 0 /\ relapsed = FALSE

-----------------------------------------------------------------------------
(* Outcomes shared by the steps. *)

(* The task is over: the client waits for the next one, or has given up.   *)
Settle(u) ==
  /\ up' = u /\ pc' = "idle" /\ mode' = "none"
  /\ auth' = NoAuth /\ todo' = {}

ThrowGivesUp ==                           \* mutation: effect not looked up
  Settle(IF mode = "open" THEN "down" ELSE "ready")

(* An exception: the first one of an operation is caught and answered by   *)
(* asking the database whether the effect is there; one more rejects the   *)
(* operation; one during startup aborts the client.                        *)
Throw ==
  \/ /\ mode = "main"
     /\ pc' = "lookup" /\ mode' = "catch"
     /\ UNCHANGED <<up, auth, todo>>
  \/ mode \in {"catch", "backup"} /\ Settle("ready")
  \/ mode = "open" /\ Settle("down")

Goto(step) == pc' = step /\ UNCHANGED <<up, mode, auth, todo>>

(* A step that takes effect may still be reported as failed: the worker    *)
(* exits before it answers, or the provider fails after its journal fsync. *)
Spend(lost) ==
  /\ lost => faults < MaxFaults
  /\ faults' = IF lost THEN faults + 1 ELSE faults
  /\ relapsed' = (relapsed \/ (lost /\ mode = "catch"))
  /\ UNCHANGED <<crashes, backups>>

Answer(lost, step) == IF lost THEN Throw ELSE Goto(step)

EffectOf(id) == {e \in effects : e.id = id}
Live(id)     == {r \in resv : r.id = id}

AbsentUnproved(id) == TRUE                \* mutation: abort without looking
Absent(id) == EffectOf(id) = {}

(* Every key ever reserved is found, unresolved or in the terminal record. *)
KnownWhilePending(k) ==                   \* mutation: no terminal registry
  \E r \in resv : r.key = k
Known(k) == \E r \in resv \cup terminal : r.key = k

-----------------------------------------------------------------------------
(* Reserving.  readCurrent and reserve run in one turn of the event loop.  *)

(* #executeProtectedRequest, first half: a key nobody has used.  The       *)
(* reservation may be durable although reserve threw.                      *)
SubmitNew(k, lost) ==
  /\ up = "ready" /\ pc = "idle" /\ head.gen > 0
  /\ ~Known(k)
  /\ Cardinality(resv) < MaxPending
  /\ nextId <= MaxIds
  /\ LET r == [id |-> nextId, key |-> k, gen |-> head.gen, ver |-> head.ver,
               st |-> "pending"]
     IN  /\ resv' = resv \cup {r}
         /\ IF lost THEN UNCHANGED client
            ELSE /\ pc' = "exec" /\ mode' = "main" /\ auth' = r
                 /\ UNCHANGED <<up, todo>>
  /\ nextId' = nextId + 1
  /\ Spend(lost)
  /\ UNCHANGED <<head, terminal, database, acked>>

(* A retry that finds its reservation unresolved goes on under it, unless  *)
(* it is committed or was made against another state (then it conflicts).  *)
SubmitRetry(r) ==
  /\ up = "ready" /\ pc = "idle"
  /\ r.key \notin Volatile
  /\ r.st = "pending" /\ r.ver = head.ver
  /\ pc' = "exec" /\ mode' = "main" /\ auth' = r
  /\ UNCHANGED <<up, todo, provider, database, acked, budgets>>

(* A retry of what is reconciled works under the terminal record.          *)
SubmitReplay(r) ==
  /\ up = "ready" /\ pc = "idle"
  /\ r.key \notin Volatile
  /\ pc' = "exec" /\ mode' = "main" /\ auth' = r
  /\ UNCHANGED <<up, todo, provider, database, acked, budgets>>

-----------------------------------------------------------------------------
(* The worker: runRecoveryProtectedEffect, one transaction. *)

PriorCheckpointOnly ==                    \* mutation: live state not compared
  cp.gen = auth.gen /\ cp.ver = auth.ver
PriorHolds ==
  /\ cp.gen = auth.gen /\ cp.ver = auth.ver /\ version = auth.ver

ExecApply(d, lost) ==
  /\ pc = "exec" /\ auth.st = "pending"
  /\ PriorHolds
  /\ EffectOf(auth.id) = {}                \* pending_id is the primary key
  /\ version' = version + d
  /\ effects' = effects \cup
       {[id |-> auth.id, key |-> auth.key, gen |-> auth.gen, ver |-> auth.ver,
         to |-> version + d, st |-> "effect_committed"]}
  /\ Answer(lost, "commit")
  /\ Spend(lost)
  /\ UNCHANGED <<provider, cp, acked>>

(* The prior state does not hold (STALE_RECOVERY_HEAD), or the operation   *)
(* itself is refused and rolled back.                                      *)
ExecRefuse ==
  /\ pc = "exec" /\ auth.st = "pending"
  /\ Throw
  /\ UNCHANGED <<provider, database, acked, budgets>>

Replayable ==
  /\ auth.key \notin Volatile
  /\ \E e \in EffectOf(auth.id) : e.st = "reconciled"
  /\ cp.gen > 0 /\ cp.ver = version

(* Under a terminal record the worker runs the operation again and keeps   *)
(* the answer only if it is the recorded one and nothing moved.            *)
ExecReplay ==
  /\ pc \in {"exec", "replay"} /\ auth.st = "reconciled"
  /\ Replayable
  /\ acked' = acked \cup {auth.key}
  /\ Settle("ready")
  /\ UNCHANGED <<provider, database, budgets>>

ExecReplayRefuse ==
  /\ pc \in {"exec", "replay"} /\ auth.st = "reconciled"
  /\ ~Replayable
  /\ Throw
  /\ UNCHANGED <<provider, database, acked, budgets>>

(* The worker dies with the request unexecuted. *)
RequestLost ==
  /\ pc \in {"exec", "replay", "lookup", "row", "install"}
  /\ Throw
  /\ Spend(TRUE)
  /\ UNCHANGED <<provider, database, acked>>

-----------------------------------------------------------------------------
(* recovery_effect: the answer decides between abort and reconciliation.   *)

LookupAbsent ==
  /\ pc = "lookup" /\ Absent(auth.id)
  /\ auth.st = "pending" /\ \E r \in Live(auth.id) : r.st = "pending"
  /\ resv' = resv \ Live(auth.id)                              \* abort
  /\ IF mode = "open" THEN Goto("next") ELSE Settle("ready")
  /\ UNCHANGED <<head, terminal, nextId, database, acked, budgets>>

LookupPresent ==
  /\ pc = "lookup" /\ EffectOf(auth.id) # {}
  /\ Goto(IF auth.st = "reconciled" THEN "replay" ELSE "commit")
  /\ UNCHANGED <<provider, database, acked, budgets>>

-----------------------------------------------------------------------------
(* #reconcileRecoveryEffect: commit the head, the row, the reservation.    *)

CommitAllowed(r) == r.gen = head.gen /\ r.ver = head.ver

CommitHead(lost) ==
  /\ pc = "commit"
  /\ \E r \in Live(auth.id), e \in EffectOf(auth.id) :
       /\ r.st = "pending" /\ CommitAllowed(r)
       /\ head' = [gen |-> head.gen + 1, ver |-> e.to, backup |-> FALSE]
       /\ resv' = (resv \ {r}) \cup {[r EXCEPT !.st = "committed"]}
  /\ Answer(lost, "row")
  /\ Spend(lost)
  /\ UNCHANGED <<terminal, nextId, database, acked>>

CommitRefuse ==
  /\ pc = "commit"
  /\ \E r \in Live(auth.id) : r.st = "pending" /\ ~CommitAllowed(r)
  /\ Throw
  /\ UNCHANGED <<provider, database, acked, budgets>>

(* Committed before, or reconciled: the current head must be its anchor.   *)
IsCurrentAnchor(e) == head.gen = e.gen + 1 /\ head.ver = e.to

AdoptHead ==
  /\ pc = "commit"
  /\ \A r \in Live(auth.id) : r.st = "committed"
  /\ \E e \in EffectOf(auth.id) : IsCurrentAnchor(e)
  /\ Goto("row")
  /\ UNCHANGED <<provider, database, acked, budgets>>

AdoptRefuse ==
  /\ pc = "commit"
  /\ \A r \in Live(auth.id) : r.st = "committed"
  /\ \E e \in EffectOf(auth.id) : ~IsCurrentAnchor(e)
  /\ Throw
  /\ UNCHANGED <<provider, database, acked, budgets>>

(* The provider throws with nothing persisted (head lock held elsewhere,   *)
(* I/O error).                                                             *)
ProviderThrows ==
  /\ pc \in {"commit", "reconcile"}
  /\ Throw
  /\ Spend(TRUE)
  /\ UNCHANGED <<provider, database, acked>>

ReconciledRow(e) == [e EXCEPT !.st = "reconciled"]

(* reconcile_recovery_effect: row and checkpoint in one transaction; the   *)
(* current head is the anchor the client sends.                            *)
ReconcileRow(lost) ==
  /\ pc = "row"
  /\ \E e \in EffectOf(auth.id) :
       /\ IsCurrentAnchor(e)
       /\ \/ /\ e.st = "effect_committed" /\ cp.gen + 1 = head.gen
             /\ effects' = (effects \ {e}) \cup {ReconciledRow(e)}
             /\ cp' = [gen |-> head.gen, ver |-> head.ver]
          \/ /\ e.st = "reconciled"
             /\ UNCHANGED <<effects, cp>>
  /\ Answer(lost, "reconcile")
  /\ Spend(lost)
  /\ UNCHANGED <<provider, version, acked>>

(* What follows a reconciliation: the receipt, the replay, the next one.   *)
Reconciled ==
  \/ /\ mode = "main"
     /\ acked' = acked \cup {auth.key}
     /\ Settle("ready")
  \/ /\ mode = "catch"
     /\ pc' = "replay" /\ auth' = [auth EXCEPT !.st = "reconciled"]
     /\ UNCHANGED <<up, mode, todo, acked>>
  \/ mode = "open" /\ Goto("next") /\ UNCHANGED acked

TerminalRecord(r) == [r EXCEPT !.st = "reconciled"]

ReconcileHead(lost) ==
  /\ pc = "reconcile"
  /\ \E r \in Live(auth.id) :
       /\ r.st = "committed"
       /\ resv' = resv \ {r}
       /\ terminal' = terminal \cup {TerminalRecord(r)}
  /\ IF lost THEN Throw /\ UNCHANGED acked ELSE Reconciled
  /\ Spend(lost)
  /\ UNCHANGED <<head, nextId, database>>

TakenAsReconciled ==                      \* mutation: reservation not read
  /\ pc = "reconcile"
  /\ Reconciled
  /\ UNCHANGED <<provider, database, budgets>>
AlreadyReconciled ==
  /\ pc = "reconcile" /\ Live(auth.id) = {}
  /\ Reconciled
  /\ UNCHANGED <<provider, database, budgets>>

-----------------------------------------------------------------------------
(* Backup: issueBackupAnchor on the drafted snapshot, then the checkpoint. *)

BackupIssue(lost) ==
  /\ up = "ready" /\ pc = "idle"
  /\ backups < MaxBackups
  /\ resv = {}                                  \* unresolvedPending() empty
  /\ head.ver = version                         \* minimums of the snapshot
  /\ head' = [gen |-> head.gen + 1, ver |-> head.ver, backup |-> TRUE]
  /\ IF lost THEN UNCHANGED client
     ELSE /\ pc' = "install" /\ mode' = "backup"
          /\ UNCHANGED <<up, auth, todo>>
  /\ lost => faults < MaxFaults
  /\ faults' = IF lost THEN faults + 1 ELSE faults
  /\ backups' = backups + 1
  /\ UNCHANGED <<resv, terminal, nextId, database, acked, crashes, relapsed>>


(* installRecoveryCheckpoint's conditions on the current head.             *)
Installable ==
  /\ head.ver = version
  /\ \/ head.gen = cp.gen /\ head.ver = cp.ver
     \/ cp.gen = 0 /\ head.gen = 1 /\ ~head.backup
     \/ /\ cp.gen > 0 /\ head.backup
        /\ head.gen = cp.gen + 1 /\ head.ver = cp.ver

Install(lost) ==
  /\ pc = "install" /\ Installable
  /\ cp' = [gen |-> head.gen, ver |-> head.ver]
  /\ IF lost THEN Throw
     ELSE IF mode = "open" THEN Goto("next") ELSE Settle("ready")
  /\ Spend(lost)
  /\ UNCHANGED <<provider, version, effects, acked>>

InstallRefuse ==
  /\ pc = "install" /\ ~Installable
  /\ Throw
  /\ UNCHANGED <<provider, database, acked, budgets>>

-----------------------------------------------------------------------------
(* Startup: #initializeRecoveryAuthority. *)

Open ==
  /\ up = "down"
  /\ up' = "opening" /\ pc' = "read" /\ mode' = "open"
  /\ UNCHANGED <<auth, todo, provider, database, acked, budgets>>

NothingPending == resv = {}               \* mutation: bootstrap if idle
NoHead == head.gen = 0

StillPending == {r \in resv : r.st = "pending"}  \* mutation: committed skipped
Unresolved == resv

OpenRead ==
  /\ pc = "read"
  /\ head' = IF NoHead                                         \* bootstrap
             THEN [gen |-> 1, ver |-> version, backup |-> FALSE] ELSE head
  /\ todo' = Unresolved
  /\ pc' = IF Unresolved = {} THEN "install" ELSE "next"
  /\ UNCHANGED <<up, mode, auth, resv, terminal, nextId, database, acked,
                 budgets>>

(* Reservations are resolved in the order they were made. *)
OpenNext ==
  /\ pc = "next"
  /\ IF todo = {} THEN Goto("check")
     ELSE \E r \in todo :
            /\ \A s \in todo : r.id <= s.id
            /\ auth' = r /\ todo' = todo \ {r} /\ pc' = "lookup"
            /\ UNCHANGED <<up, mode>>
  /\ UNCHANGED <<provider, database, acked, budgets>>

OpenCheck ==
  /\ pc = "check"
  /\ Settle(IF head.ver = version THEN "ready" ELSE "down")
  /\ UNCHANGED <<provider, database, acked, budgets>>

(* close() between two tasks. *)
Close ==
  /\ up = "ready" /\ pc = "idle"
  /\ Settle("down")
  /\ UNCHANGED <<provider, database, acked, budgets>>

(* The process dies: the provider's files and the database remain.         *)
Crash ==
  /\ up # "down"
  /\ crashes < MaxCrashes
  /\ crashes' = crashes + 1
  /\ Settle("down")
  /\ UNCHANGED <<provider, database, acked, faults, backups, relapsed>>

-----------------------------------------------------------------------------
Submit ==
  \/ \E k \in Keys, lost \in BOOLEAN : SubmitNew(k, lost)
  \/ \E r \in resv : SubmitRetry(r)
  \/ \E r \in terminal : SubmitReplay(r)
  \/ \E lost \in BOOLEAN : BackupIssue(lost)

(* Steps of a task under way in which nothing is lost. *)
Progress ==
  \/ \E d \in Deltas : ExecApply(d, FALSE)
  \/ ExecRefuse \/ ExecReplay \/ ExecReplayRefuse
  \/ LookupAbsent \/ LookupPresent
  \/ CommitHead(FALSE) \/ CommitRefuse \/ AdoptHead
  \/ AdoptRefuse
  \/ ReconcileRow(FALSE) \/ ReconcileHead(FALSE) \/ AlreadyReconciled
  \/ Install(FALSE) \/ InstallRefuse
  \/ OpenRead \/ OpenNext \/ OpenCheck

Fault ==
  \/ \E d \in Deltas : ExecApply(d, TRUE)
  \/ CommitHead(TRUE) \/ ReconcileRow(TRUE) \/ ReconcileHead(TRUE)
  \/ Install(TRUE)
  \/ RequestLost \/ ProviderThrows \/ Crash

Next == Submit \/ Progress \/ Fault \/ Open \/ Close

Spec == Init /\ [][Next]_vars

(* A task under way goes on (the event loop runs), and whoever runs the    *)
(* host restarts a process that is down.                                   *)
Fairness == WF_vars(Progress) /\ WF_vars(Open)
FairSpec == Spec /\ Fairness

-----------------------------------------------------------------------------
(* Properties *)

(* A key takes effect at most once, whatever is lost, retried or crashes:  *)
(* a second reservation of a key is never made while its first may still   *)
(* have reached the database (reserve, abort, the terminal registry).      *)
AtMostOnce ==
  \A e, f \in effects : e.key = f.key => e = f

(* An effect in the database always has its reservation, unresolved or     *)
(* terminal, in the head: abort is only ever used on a provably absent     *)
(* effect, and reconciling keeps the terminal record.                      *)
NoOrphanedEffect ==
  \A e \in effects :
    \E r \in resv \cup terminal :
      r.id = e.id /\ r.key = e.key /\ r.gen = e.gen /\ r.ver = e.ver

(* A delivered receipt stands for an effect reconciled on both sides.      *)
AckedIsAnchored ==
  \A k \in acked :
    \E r \in terminal, e \in effects :
      r.key = k /\ e.id = r.id /\ e.st = "reconciled"

(* The head never vouches for a state the database has not reached, the    *)
(* checkpoint never for one the head has not, and the head is never more   *)
(* than one effect behind.                                                 *)
HeadFollowsDatabase ==
  /\ cp.ver <= head.ver /\ head.ver <= version
  /\ version <= head.ver + 1

(* No two effects are counted by the same generation of the head.          *)
OneEffectPerGeneration ==
  \A r, s \in terminal \cup {q \in resv : q.st = "committed"} :
    r.gen = s.gen => r.id = s.id

(* A terminal record without its reconciled row would make every replay    *)
(* fail: the row is reconciled before the record is written.               *)
TerminalHasRow ==
  \A r \in terminal : \E e \in EffectOf(r.id) : e.st = "reconciled"

(* While an effect waits for its anchor nothing else lands: the debt is at *)
(* most one effect.  It rests on the client noticing: once a failure has   *)
(* hit the handling of a failure, an effect that does not move the state   *)
(* commitment is not in the way.                                           *)
SingleDebt ==
  ~relapsed => \A e, f \in effects :
    e.st = "effect_committed" /\ f.st = "effect_committed" => e = f

(* Startup can reconcile every completed effect it finds unresolved: the   *)
(* head it was reserved against, or its own anchor, is still the current   *)
(* unless a failure has hit the handling of a failure.                     *)
StartupReconciles ==
  mode = "open" /\ pc = "commit" /\ ~relapsed =>
    \A r \in Live(auth.id), e \in EffectOf(auth.id) :
      IF r.st = "pending" THEN CommitAllowed(r) ELSE IsCurrentAnchor(e)

(* The database, its checkpoint and the external head agree on what took   *)
(* effect, how often and in which order.                                   *)
AnchorsAgree ==
  TypeOK /\ HeadFollowsDatabase /\ NoOrphanedEffect /\ OneEffectPerGeneration /\ TerminalHasRow

(* The debts a startup meets are ones that it can pay, one at a time.      *)
DebtsAreSmall == SingleDebt /\ StartupReconciles

(* Once written, a row or a terminal record never changes its meaning, and *)
(* the head never steps back.                                              *)
RecoveryIsAppendOnly ==
  [][ /\ terminal \subseteq terminal'
      /\ head.gen <= head'.gen /\ cp.gen <= cp'.gen
      /\ \A e \in effects : e.st = "reconciled" => e \in effects' ]_vars

(* A durable effect that a crash leaves unanchored is reconciled by a      *)
(* later startup, once crashes stop (or a failure's handling has failed).  *)
Unanchored(k) ==
  \E e \in effects : e.key = k /\ e.st = "effect_committed"
CrashDebtIsPaid ==
  \A k \in Keys :
    (up = "down" /\ Unanchored(k)) ~> (~Unanchored(k) \/ relapsed)

(* A process that is down serves again, with the same exception and one    *)
(* more: two backup anchors whose checkpoints were lost leave the head two *)
(* generations ahead, which no startup accepts.                            *)
TwoAhead == head.gen > cp.gen + 1
StartupSucceeds == (up = "down") ~> (up = "ready" \/ relapsed \/ TwoAhead)

(* After every crash the authority recovers: it serves, without debts.     *)
RecoverySettles == CrashDebtIsPaid /\ StartupSucceeds

(* The protocol implements the ledger its callers are promised.            *)
AL == INSTANCE AnchoredLedger WITH
        anchored  <- head.ver,
        applied   <- {e.key : e \in effects},
        witnessed <- {r.key : r \in {q \in resv : q.st = "committed"}
                                       \cup terminal}
AnchoredLedgerSpec == AL!ASpec

=============================================================================
