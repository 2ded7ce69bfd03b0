------------------------- MODULE RecoveryHeadProofs -------------------------
(***************************************************************************)
(* What RecoveryHead guarantees for every set of keys and every bound.     *)
(*                                                                         *)
(* The invariants are proved in three layers: the types together with the  *)
(* shape of the client's program counter (Shape); what the client knows    *)
(* of the reservation it works under (Bound); the ledger that head and     *)
(* database keep together (Ledger).  On top of them, what is left to be    *)
(* settled while no failure has hit the handling of a failure (Debts).     *)
(***************************************************************************)
EXTENDS RecoveryHead, TLAPS

-----------------------------------------------------------------------------
(* Types and the shape of the client *)

Tasks == {"exec", "lookup", "commit", "row", "reconcile", "replay"}

ClientType ==
  /\ up \in {"down", "opening", "ready"}
  /\ pc \in {"idle", "read", "install", "next", "check"} \cup Tasks
  /\ mode \in {"none", "open", "main", "catch", "backup"}
  /\ auth \in Reservation \cup {NoAuth}
  /\ todo \subseteq {r \in Reservation : r.st # "reconciled"}

(* Which step belongs to which task: work on a reservation has one; only   *)
(* an operation executes, only its handler replays; startup never works    *)
(* under a reservation that is already terminal.                           *)
ClientShape ==
  /\ pc \in Tasks => auth \in Reservation /\ mode \in {"main", "catch", "open"}
  /\ pc = "exec" => mode = "main"
  /\ pc = "lookup" => mode \in {"catch", "open"}
  /\ pc = "replay" => mode = "catch"
  /\ pc = "install" => mode \in {"open", "backup"}
  /\ pc \in {"read", "next", "check"} => mode = "open"
  /\ mode = "open" /\ pc \in Tasks => auth.st # "reconciled"

Client == ClientType /\ ClientShape

LEMMA SettleClient ==
  ASSUME NEW u \in {"down", "ready"}, Settle(u)
  PROVE  Client'
BY DEF Settle, Client, ClientType, ClientShape, Tasks

LEMMA ThrowClient ==
  ASSUME Client, pc \in Tasks \cup {"install"}, Throw
  PROVE  Client'
BY DEF Throw, Settle, Client, ClientType, ClientShape, Tasks

LEMMA GotoClient ==
  ASSUME Client, pc \in Tasks,
         NEW step \in {"commit", "row", "reconcile"},
         Goto(step)
  PROVE  Client'
BY DEF Goto, Client, ClientType, ClientShape, Tasks

LEMMA AnswerClient ==
  ASSUME Client, pc \in Tasks,
         NEW lost \in BOOLEAN,
         NEW step \in {"commit", "row", "reconcile"},
         Answer(lost, step)
  PROVE  Client'
BY ThrowClient, GotoClient DEF Answer

LEMMA NextClient ==
  ASSUME Client, mode = "open", Goto("next")
  PROVE  Client'
BY DEF Goto, Client, ClientType, ClientShape, Tasks

LEMMA ReconciledClient ==
  ASSUME Client, pc = "reconcile", Reconciled
  PROVE  Client'
BY SettleClient, NextClient
   DEF Reconciled, Client, ClientType, ClientShape, Tasks, Reservation, NoAuth

ProviderType ==
  /\ head \in [gen : Nat, ver : Nat, backup : BOOLEAN]
  /\ resv \subseteq {r \in Reservation : r.st # "reconciled"}
  /\ terminal \subseteq {r \in Reservation : r.st = "reconciled"}
  /\ nextId \in Nat

DatabaseType ==
  /\ version \in Nat
  /\ effects \subseteq Effect
  /\ cp \in [gen : Nat, ver : Nat]

BudgetType ==
  /\ faults \in Nat /\ crashes \in Nat /\ backups \in Nat
  /\ relapsed \in BOOLEAN

LEMMA TypeParts ==
  TypeOK <=> /\ ProviderType /\ DatabaseType /\ ClientType
             /\ acked \subseteq Keys /\ BudgetType
BY DEF TypeOK, ProviderType, DatabaseType, ClientType, BudgetType, Tasks

LEMMA SpendType ==
  ASSUME NEW lost \in BOOLEAN, BudgetType, Spend(lost)
  PROVE  BudgetType'
BY DEF BudgetType, Spend

Shape == TypeOK /\ ClientShape

(* Every step keeps every variable in its type and the client in shape.    *)
LEMMA ShapeStep ==
  ASSUME Shape, [Next]_vars
  PROVE  Shape'
<1>1. /\ ProviderType /\ DatabaseType /\ Client /\ BudgetType
      /\ acked \subseteq Keys
  BY TypeParts DEF Shape, Client
<1>2. SUFFICES /\ ProviderType' /\ DatabaseType' /\ Client' /\ BudgetType'
               /\ (acked \subseteq Keys)'
  BY TypeParts, PTL DEF Shape, Client
<1> USE <1>1 DEF provider, database, client, budgets
<1>3. ASSUME NEW k \in Keys, NEW lost \in BOOLEAN, SubmitNew(k, lost)
      PROVE  /\ ProviderType' /\ DatabaseType' /\ Client' /\ BudgetType'
             /\ (acked \subseteq Keys)'
  <2>1. ProviderType' /\ DatabaseType' /\ (acked \subseteq Keys)'
    BY <1>3 DEF SubmitNew, ProviderType, DatabaseType, Reservation
  <2>2. Client'
    BY <1>3 DEF SubmitNew, ProviderType, Client, ClientType, ClientShape,
                Tasks, Reservation
  <2>3. BudgetType'
    BY <1>3, SpendType DEF SubmitNew
  <2> QED
    BY <2>1, <2>2, <2>3
<1>4. ASSUME NEW r \in resv, SubmitRetry(r)
      PROVE  /\ ProviderType' /\ DatabaseType' /\ Client' /\ BudgetType'
             /\ (acked \subseteq Keys)'
  BY <1>4 DEF SubmitRetry, ProviderType, DatabaseType, Client, ClientType,
              ClientShape, Tasks, BudgetType
<1>5. ASSUME NEW r \in terminal, SubmitReplay(r)
      PROVE  /\ ProviderType' /\ DatabaseType' /\ Client' /\ BudgetType'
             /\ (acked \subseteq Keys)'
  BY <1>5 DEF SubmitReplay, ProviderType, DatabaseType, Client, ClientType,
              ClientShape, Tasks, BudgetType
<1>6. ASSUME NEW lost \in BOOLEAN, BackupIssue(lost)
      PROVE  /\ ProviderType' /\ DatabaseType' /\ Client' /\ BudgetType'
             /\ (acked \subseteq Keys)'
  BY <1>6 DEF BackupIssue, ProviderType, DatabaseType, Client, ClientType,
              ClientShape, Tasks, BudgetType
<1>7. ASSUME NEW d \in Deltas, NEW lost \in BOOLEAN, ExecApply(d, lost)
      PROVE  /\ ProviderType' /\ DatabaseType' /\ Client' /\ BudgetType'
             /\ (acked \subseteq Keys)'
  <2>1. Client' /\ BudgetType'
    BY <1>7, AnswerClient, SpendType DEF ExecApply, Tasks
  <2>2. auth \in Reservation
    BY <1>7 DEF ExecApply, Client, ClientShape, Tasks
  <2>3. ProviderType' /\ DatabaseType' /\ (acked \subseteq Keys)'
    BY <1>7, <2>2, DeltasAssumption
       DEF ExecApply, ProviderType, DatabaseType, Effect, Reservation
  <2> QED
    BY <2>1, <2>3
<1>8. CASE ExecRefuse \/ ExecReplayRefuse \/ CommitRefuse \/ AdoptRefuse
           \/ InstallRefuse
  BY <1>8, ThrowClient
     DEF ExecRefuse, ExecReplayRefuse, CommitRefuse, AdoptRefuse,
         InstallRefuse, ProviderType, DatabaseType, BudgetType, Tasks
<1>9. CASE ExecReplay
  BY <1>9, SettleClient
     DEF ExecReplay, ProviderType, DatabaseType, BudgetType, Client,
         ClientShape, Tasks, Reservation
<1>10. CASE RequestLost \/ ProviderThrows
  BY <1>10, ThrowClient, SpendType
     DEF RequestLost, ProviderThrows, ProviderType, DatabaseType, Tasks
<1>11. CASE LookupAbsent
  <2>1. Client'
    BY <1>11, SettleClient, NextClient DEF LookupAbsent
  <2> QED
    BY <1>11, <2>1 DEF LookupAbsent, ProviderType, DatabaseType, BudgetType
<1>12. CASE LookupPresent
  <2>1. Client'
    BY <1>12 DEF LookupPresent, Goto, Client, ClientType, ClientShape, Tasks
  <2> QED
    BY <1>12, <2>1 DEF LookupPresent, ProviderType, DatabaseType, BudgetType
<1>13. ASSUME NEW lost \in BOOLEAN, CommitHead(lost)
       PROVE  /\ ProviderType' /\ DatabaseType' /\ Client' /\ BudgetType'
              /\ (acked \subseteq Keys)'
  <2>1. Client' /\ BudgetType'
    BY <1>13, AnswerClient, SpendType DEF CommitHead, Tasks
  <2>2. ProviderType' /\ DatabaseType' /\ (acked \subseteq Keys)'
    BY <1>13 DEF CommitHead, ProviderType, DatabaseType, Effect, Reservation,
                 EffectOf, Live
  <2> QED
    BY <2>1, <2>2
<1>14. CASE AdoptHead
  BY <1>14, GotoClient
     DEF AdoptHead, ProviderType, DatabaseType, BudgetType, Tasks
<1>15. ASSUME NEW lost \in BOOLEAN, ReconcileRow(lost)
       PROVE  /\ ProviderType' /\ DatabaseType' /\ Client' /\ BudgetType'
              /\ (acked \subseteq Keys)'
  <2>1. Client' /\ BudgetType'
    BY <1>15, AnswerClient, SpendType DEF ReconcileRow, Tasks
  <2>2. ProviderType' /\ DatabaseType' /\ (acked \subseteq Keys)'
    BY <1>15 DEF ReconcileRow, ReconciledRow, ProviderType, DatabaseType,
                 Effect, EffectOf
  <2> QED
    BY <2>1, <2>2
<1>16. ASSUME NEW lost \in BOOLEAN, ReconcileHead(lost)
       PROVE  /\ ProviderType' /\ DatabaseType' /\ Client' /\ BudgetType'
              /\ (acked \subseteq Keys)'
  <2>1. Client'
    BY <1>16, ThrowClient, ReconciledClient DEF ReconcileHead, Tasks
  <2>2. BudgetType'
    BY <1>16, SpendType DEF ReconcileHead
  <2>3. ProviderType' /\ DatabaseType'
    BY <1>16 DEF ReconcileHead, TerminalRecord, ProviderType, DatabaseType,
                 Reservation, Live
  <2>4. (acked \subseteq Keys)'
    BY <1>16 DEF ReconcileHead, Reconciled, Client, ClientShape, Tasks,
                 Reservation
  <2> QED
    BY <2>1, <2>2, <2>3, <2>4
<1>17. CASE AlreadyReconciled
  <2>1. Client'
    BY <1>17, ReconciledClient DEF AlreadyReconciled
  <2> QED
    BY <1>17, <2>1
       DEF AlreadyReconciled, Reconciled, ProviderType, DatabaseType,
           BudgetType, Client, ClientShape, Tasks, Reservation
<1>18. ASSUME NEW lost \in BOOLEAN, Install(lost)
       PROVE  /\ ProviderType' /\ DatabaseType' /\ Client' /\ BudgetType'
              /\ (acked \subseteq Keys)'
  <2>1. Client'
    BY <1>18, ThrowClient, NextClient, SettleClient DEF Install
  <2> QED
    BY <1>18, <2>1, SpendType DEF Install, ProviderType, DatabaseType
<1>19. CASE Open
  <2>1. Client'
    BY <1>19 DEF Open, Client, ClientType, ClientShape, Tasks
  <2> QED
    BY <1>19, <2>1 DEF Open, ProviderType, DatabaseType, BudgetType
<1>20. CASE OpenRead
  <2>1. Client'
    BY <1>20 DEF OpenRead, Unresolved, ProviderType, Client, ClientType,
                 ClientShape, Tasks
  <2> QED
    BY <1>20, <2>1 DEF OpenRead, NoHead, ProviderType, DatabaseType, BudgetType
<1>21. CASE OpenNext
  <2>1. Client'
    BY <1>21 DEF OpenNext, Goto, Client, ClientType, ClientShape, Tasks
  <2> QED
    BY <1>21, <2>1 DEF OpenNext, ProviderType, DatabaseType, BudgetType
<1>22. CASE OpenCheck \/ Close \/ Crash
  BY <1>22, SettleClient
     DEF OpenCheck, Close, Crash, ProviderType, DatabaseType, BudgetType
<1>23. CASE UNCHANGED vars
  BY <1>23 DEF vars, ProviderType, DatabaseType, BudgetType, Client,
               ClientType, ClientShape
<1> QED
  BY <1>3, <1>4, <1>5, <1>6, <1>7, <1>8, <1>9, <1>10, <1>11, <1>12, <1>13,
     <1>14, <1>15, <1>16, <1>17, <1>18, <1>19, <1>20, <1>21, <1>22, <1>23
     DEF Next, Submit, Progress, Fault

LEMMA StartsFresh == Init => relapsed \in BOOLEAN
BY Zenon DEF Init

(* Every variable keeps its type.                                          *)
THEOREM TypeCorrect == Spec => []TypeOK
<1>1. Init => Shape
  BY StartsFresh DEF Init, Shape, TypeOK, ClientShape, Tasks, NoAuth
<1>2. Shape /\ [Next]_vars => Shape'
  BY ShapeStep
<1>3. Shape => TypeOK
  BY DEF Shape
<1> QED
  BY <1>1, <1>2, <1>3, PTL DEF Spec

-----------------------------------------------------------------------------
(* The ledger: what head and database say of each other *)

Held    == resv \cup terminal
Counted == terminal \cup {r \in resv : r.st = "committed"}

(* An id and a key name one reservation; ids are never reused.             *)
UniqueReservations ==
  \A r, s \in Held : r.id = s.id \/ r.key = s.key => r = s
FreshIds == \A r \in Held : r.id < nextId

UniqueEffects == \A e, f \in effects : e.id = f.id => e = f

(* An effect moves the state commitment by at most one, to a state the     *)
(* database has reached.                                                   *)
EffectMoves ==
  \A e \in effects : e.to \in {e.ver, e.ver + 1} /\ e.to <= version

(* What a generation has counted lies behind the current head.             *)
CountedBehind == \A r \in Counted : r.gen < head.gen

(* Before its first startup the installation is blank.                     *)
Blank ==
  head.gen = 0 => version = 0 /\ head.ver = 0 /\ resv = {} /\ terminal = {}

Ledger ==
  /\ UniqueReservations /\ FreshIds
  /\ UniqueEffects /\ EffectMoves
  /\ NoOrphanedEffect
  /\ HeadFollowsDatabase
  /\ CountedBehind /\ OneEffectPerGeneration
  /\ TerminalHasRow
  /\ Blank

(* The provider holds reservation a, and as terminal if a is.              *)
HeldBy(a) ==
  \E r \in Held :
    /\ r.id = a.id /\ r.key = a.key /\ r.gen = a.gen /\ r.ver = a.ver
    /\ a.st = "reconciled" => r \in terminal

(* An operation works under a reservation the provider holds, a replay     *)
(* under a terminal one; the reservation is reconciled after the row.      *)
AuthHeld == mode \in {"main", "catch"} => HeldBy(auth)
RowFirst ==
  pc = "reconcile" => \E e \in EffectOf(auth.id) : e.st = "reconciled"

IInv == Shape /\ Ledger /\ AuthHeld /\ RowFirst /\ AckedIsAnchored

LEMMA LedgerFrame ==
  ASSUME Ledger, UNCHANGED <<provider, database>>
  PROVE  Ledger'
BY DEF provider, database, Ledger, UniqueReservations, FreshIds,
       UniqueEffects, EffectMoves, NoOrphanedEffect, HeadFollowsDatabase,
       CountedBehind, OneEffectPerGeneration, TerminalHasRow, Blank, Held,
       Counted, EffectOf

LEMMA SubmitNewLedger ==
  ASSUME IInv, NEW k \in Keys, NEW lost \in BOOLEAN, SubmitNew(k, lost)
  PROVE  Ledger'
<1> DEFINE r == [id |-> nextId, key |-> k, gen |-> head.gen,
                 ver |-> head.ver, st |-> "pending"]
<1>1. /\ resv' = resv \cup {r} /\ nextId' = nextId + 1
      /\ UNCHANGED <<head, terminal, database>>
      /\ head.gen > 0
      /\ \A s \in Held : s.key # k
  BY DEF SubmitNew, Known, Held
<1>2. TypeOK /\ Ledger
  BY DEF IInv, Shape
<1>3. UniqueReservations' /\ FreshIds'
  BY <1>1, <1>2
     DEF TypeOK, Reservation, Ledger, UniqueReservations, FreshIds, Held
<1>4. Counted' = Counted
  BY <1>1 DEF Counted
<1>5. CountedBehind' /\ OneEffectPerGeneration' /\ TerminalHasRow' /\ Blank'
  BY <1>1, <1>2, <1>4
     DEF Ledger, CountedBehind, OneEffectPerGeneration, TerminalHasRow, Blank,
         Counted, EffectOf, database
<1>6. UniqueEffects' /\ EffectMoves' /\ NoOrphanedEffect'
      /\ HeadFollowsDatabase'
  BY <1>1, <1>2
     DEF Ledger, UniqueEffects, EffectMoves, NoOrphanedEffect,
         HeadFollowsDatabase, database
<1> QED
  BY <1>3, <1>5, <1>6 DEF Ledger

LEMMA ExecApplyLedger ==
  ASSUME IInv, NEW d \in Deltas, NEW lost \in BOOLEAN, ExecApply(d, lost)
  PROVE  Ledger'
<1> DEFINE e == [id |-> auth.id, key |-> auth.key, gen |-> auth.gen,
                 ver |-> auth.ver, to |-> version + d,
                 st |-> "effect_committed"]
<1>1. /\ effects' = effects \cup {e} /\ version' = version + d
      /\ UNCHANGED <<provider, cp>>
      /\ cp.ver = auth.ver /\ version = auth.ver
      /\ \A f \in effects : f.id # auth.id
  BY DEF ExecApply, PriorHolds, EffectOf
<1>2. TypeOK /\ Ledger /\ d \in {0, 1}
  BY DeltasAssumption DEF IInv, Shape
<1>3. PICK r \in Held : /\ r.id = auth.id /\ r.key = auth.key
                        /\ r.gen = auth.gen /\ r.ver = auth.ver
  BY DEF ExecApply, IInv, AuthHeld, HeldBy, Shape, ClientShape
<1>4. UniqueReservations' /\ FreshIds' /\ CountedBehind'
      /\ OneEffectPerGeneration'
  BY <1>1, <1>2
     DEF Ledger, UniqueReservations, FreshIds, CountedBehind,
         OneEffectPerGeneration, Held, Counted, provider
<1>5. UniqueEffects'
  BY <1>1, <1>2 DEF Ledger, UniqueEffects
<1>6. EffectMoves'
  BY <1>1, <1>2 DEF Ledger, EffectMoves, TypeOK, Effect
<1>7. NoOrphanedEffect'
  BY <1>1, <1>2, <1>3 DEF Ledger, NoOrphanedEffect, Held, provider
<1>8. HeadFollowsDatabase'
  BY <1>1, <1>2 DEF Ledger, HeadFollowsDatabase, TypeOK, provider
<1>9. TerminalHasRow'
  BY <1>1, <1>2 DEF Ledger, TerminalHasRow, EffectOf, provider
<1>10. Blank'
  BY <1>1, <1>2, <1>3 DEF Ledger, Blank, Held, provider
<1> QED
  BY <1>4, <1>5, <1>6, <1>7, <1>8, <1>9, <1>10 DEF Ledger

LEMMA LookupAbsentLedger ==
  ASSUME IInv, LookupAbsent
  PROVE  Ledger'
<1>1. /\ resv' = {r \in resv : r.id # auth.id}
      /\ UNCHANGED <<head, terminal, nextId, database>>
      /\ \A e \in effects : e.id # auth.id
  BY DEF LookupAbsent, Absent, EffectOf, Live
<1>2. Ledger
  BY DEF IInv
<1>3. Held' \subseteq Held /\ Counted' \subseteq Counted
  BY <1>1 DEF Held, Counted
<1>4. UniqueReservations' /\ FreshIds' /\ CountedBehind'
      /\ OneEffectPerGeneration'
  BY <1>1, <1>2, <1>3
     DEF Ledger, UniqueReservations, FreshIds, CountedBehind,
         OneEffectPerGeneration, Counted
<1>5. NoOrphanedEffect'
  BY <1>1, <1>2 DEF Ledger, NoOrphanedEffect, database
<1>6. UniqueEffects' /\ EffectMoves' /\ HeadFollowsDatabase'
      /\ TerminalHasRow' /\ Blank'
  BY <1>1, <1>2
     DEF Ledger, UniqueEffects, EffectMoves, HeadFollowsDatabase,
         TerminalHasRow, Blank, EffectOf, database
<1> QED
  BY <1>4, <1>5, <1>6 DEF Ledger

(* The effect and the reservation of one id agree.                         *)
LEMMA EffectMatches ==
  ASSUME Ledger, NEW r \in Held, NEW e \in effects, e.id = r.id
  PROVE  e.key = r.key /\ e.gen = r.gen /\ e.ver = r.ver
BY DEF Ledger, NoOrphanedEffect, UniqueReservations, Held

LEMMA CommitHeadLedger ==
  ASSUME IInv, NEW lost \in BOOLEAN, CommitHead(lost)
  PROVE  Ledger'
<1>1. PICK r \in resv, e \in effects :
        /\ r.id = auth.id /\ e.id = auth.id
        /\ r.st = "pending" /\ r.gen = head.gen /\ r.ver = head.ver
        /\ head' = [gen |-> head.gen + 1, ver |-> e.to, backup |-> FALSE]
        /\ resv' = (resv \ {r}) \cup {[r EXCEPT !.st = "committed"]}
  BY DEF CommitHead, CommitAllowed, Live, EffectOf
<1> DEFINE c == [r EXCEPT !.st = "committed"]
<1>2. UNCHANGED <<terminal, nextId, version, effects, cp>>
  BY DEF CommitHead, database
<1>3. TypeOK /\ Ledger
  BY DEF IInv, Shape
<1>4. /\ r \in Reservation
      /\ c \in Reservation /\ c.id = r.id /\ c.key = r.key /\ c.gen = r.gen
      /\ c.ver = r.ver /\ c.st = "committed"
  BY <1>3 DEF TypeOK, Reservation
<1>a. resv' = (resv \ {r}) \cup {c}
  BY <1>1
<1> HIDE DEF c
<1>5. UniqueReservations' /\ FreshIds'
  <2>a. \A q \in terminal : q.st # r.st
    BY <1>1, <1>3 DEF TypeOK
  <2>b. r \in resv /\ resv' = (resv \ {r}) \cup {c} /\ terminal' = terminal
    BY <1>1, <1>2, <1>a
  <2>1. r \in Held /\ \A q \in Held' : q = c \/ (q \in Held /\ q # r)
    BY <2>a, <2>b DEF Held
  <2>2. \A q \in Held : q # r => q.id # r.id /\ q.key # r.key
    BY <1>3, <2>1 DEF Ledger, UniqueReservations
  <2>3. UniqueReservations'
    BY <1>3, <1>4, <2>1, <2>2 DEF Ledger, UniqueReservations
  <2>4. FreshIds'
    BY <1>2, <1>3, <1>4, <2>1 DEF Ledger, FreshIds
  <2> QED
    BY <2>3, <2>4
<1>6. Counted' = Counted \cup {c}
  BY <1>1, <1>2, <1>4, <1>a DEF Counted
<1>7. CountedBehind' /\ OneEffectPerGeneration'
  <2>1. \A s \in Counted : s.gen < head.gen /\ s.gen \in Nat
    BY <1>3 DEF Ledger, CountedBehind, Counted, TypeOK, Reservation
  <2>2. head.gen \in Nat /\ head'.gen = head.gen + 1
    BY <1>1, <1>3 DEF TypeOK
  <2>3. CountedBehind'
    BY <1>1, <1>4, <1>6, <2>1, <2>2 DEF CountedBehind
  <2>4. \A s, t \in Counted \cup {c} : s.gen = t.gen => s.id = t.id
    BY <1>1, <1>3, <1>4, <2>1, <2>2
       DEF Ledger, OneEffectPerGeneration, Counted
  <2> QED
    BY <1>6, <2>3, <2>4 DEF OneEffectPerGeneration, Counted
<1>8. NoOrphanedEffect'
  BY <1>2, <1>3, <1>4, <1>a DEF Ledger, NoOrphanedEffect
<1>9. HeadFollowsDatabase'
  <2>1. e.ver = head.ver
    BY <1>1, <1>3, EffectMatches DEF Held
  <2> QED
    BY <1>1, <1>2, <1>3, <2>1
       DEF Ledger, EffectMoves, HeadFollowsDatabase, TypeOK, Effect
<1>10. UniqueEffects' /\ EffectMoves' /\ TerminalHasRow' /\ Blank'
  BY <1>1, <1>2, <1>3
     DEF Ledger, UniqueEffects, EffectMoves, TerminalHasRow, Blank, EffectOf,
         TypeOK
<1> QED
  BY <1>5, <1>7, <1>8, <1>9, <1>10 DEF Ledger

LEMMA ReconcileRowLedger ==
  ASSUME IInv, NEW lost \in BOOLEAN, ReconcileRow(lost)
  PROVE  Ledger'
<1>1. UNCHANGED <<head, resv, terminal, nextId, version>>
  BY DEF ReconcileRow, provider
<1>2. TypeOK /\ Ledger
  BY DEF IInv, Shape
<1>3. UniqueReservations' /\ FreshIds' /\ CountedBehind'
      /\ OneEffectPerGeneration' /\ Blank'
  BY <1>1, <1>2
     DEF Ledger, UniqueReservations, FreshIds, CountedBehind,
         OneEffectPerGeneration, Blank, Held, Counted
<1>4. HeadFollowsDatabase'
  BY <1>1, <1>2 DEF ReconcileRow, Ledger, HeadFollowsDatabase, TypeOK
<1>5. CASE effects' = effects
  BY <1>1, <1>2, <1>3, <1>4, <1>5
     DEF Ledger, UniqueEffects, EffectMoves, NoOrphanedEffect,
         TerminalHasRow, EffectOf
<1>6. CASE effects' # effects
  <2>1. PICK e \in effects :
          /\ e.id = auth.id
          /\ effects' = (effects \ {e}) \cup {[e EXCEPT !.st = "reconciled"]}
    BY <1>6 DEF ReconcileRow, ReconciledRow, EffectOf
  <2> DEFINE f == [e EXCEPT !.st = "reconciled"]
  <2>2. /\ f.id = e.id /\ f.key = e.key /\ f.gen = e.gen /\ f.ver = e.ver
        /\ f.to = e.to /\ f.st = "reconciled"
    BY <1>2 DEF TypeOK, Effect
  <2>a. effects' = (effects \ {e}) \cup {f}
    BY <2>1
  <2> HIDE DEF f
  <2>3. UniqueEffects' /\ EffectMoves' /\ NoOrphanedEffect'
    BY <1>1, <1>2, <2>2, <2>a
       DEF Ledger, UniqueEffects, EffectMoves, NoOrphanedEffect
  <2>4. TerminalHasRow'
    BY <1>1, <1>2, <2>2, <2>a DEF Ledger, TerminalHasRow, EffectOf
  <2> QED
    BY <1>3, <1>4, <2>3, <2>4 DEF Ledger
<1> QED
  BY <1>5, <1>6

LEMMA ReconcileHeadLedger ==
  ASSUME IInv, NEW lost \in BOOLEAN, ReconcileHead(lost)
  PROVE  Ledger'
<1>1. PICK r \in resv :
        /\ r.id = auth.id /\ r.st = "committed"
        /\ resv' = resv \ {r}
        /\ terminal' = terminal \cup {[r EXCEPT !.st = "reconciled"]}
  BY DEF ReconcileHead, TerminalRecord, Live
<1> DEFINE t == [r EXCEPT !.st = "reconciled"]
<1>2. UNCHANGED <<head, nextId, version, effects, cp>> /\ pc = "reconcile"
  BY DEF ReconcileHead, database
<1>3. TypeOK /\ Ledger
  BY DEF IInv, Shape
<1>4. /\ t.id = r.id /\ t.key = r.key /\ t.gen = r.gen /\ t.ver = r.ver
      /\ t.st = "reconciled"
  BY <1>3 DEF TypeOK, Reservation
<1>a. terminal' = terminal \cup {t}
  BY <1>1
<1> HIDE DEF t
<1>5. UniqueReservations' /\ FreshIds'
  <2>a. \A q \in terminal : q.st # r.st
    BY <1>1, <1>3 DEF TypeOK
  <2>b. r \in resv /\ resv' = resv \ {r} /\ terminal' = terminal \cup {t}
    BY <1>1, <1>2, <1>a
  <2>1. r \in Held /\ \A q \in Held' : q = t \/ (q \in Held /\ q # r)
    BY <2>a, <2>b DEF Held
  <2>2. \A q \in Held : q # r => q.id # r.id /\ q.key # r.key
    BY <1>3, <2>1 DEF Ledger, UniqueReservations
  <2>3. UniqueReservations'
    BY <1>3, <1>4, <2>1, <2>2 DEF Ledger, UniqueReservations
  <2>4. FreshIds'
    BY <1>2, <1>3, <1>4, <2>1 DEF Ledger, FreshIds
  <2> QED
    BY <2>3, <2>4
<1>6. Counted' = (Counted \ {r}) \cup {t} /\ r \in Counted
  BY <1>1, <1>3, <1>4, <1>a DEF Counted, TypeOK
<1>7. CountedBehind' /\ OneEffectPerGeneration'
  <2>1. \A s, q \in Counted : s.gen = q.gen => s.id = q.id
    BY <1>3 DEF Ledger, OneEffectPerGeneration, Counted
  <2>2. \A s, q \in Counted' : s.gen = q.gen => s.id = q.id
    BY <1>4, <1>6, <2>1
  <2> QED
    BY <1>2, <1>3, <1>4, <1>6, <2>2
       DEF Ledger, CountedBehind, OneEffectPerGeneration, Counted
<1>8. NoOrphanedEffect'
  BY <1>1, <1>2, <1>3, <1>4, <1>a DEF Ledger, NoOrphanedEffect
<1>9. TerminalHasRow'
  BY <1>1, <1>2, <1>3, <1>4, <1>a
     DEF IInv, RowFirst, Ledger, TerminalHasRow, EffectOf
<1>10. UniqueEffects' /\ EffectMoves' /\ HeadFollowsDatabase' /\ Blank'
  BY <1>1, <1>2, <1>3
     DEF Ledger, UniqueEffects, EffectMoves, HeadFollowsDatabase, Blank
<1> QED
  BY <1>5, <1>7, <1>8, <1>9, <1>10 DEF Ledger

(* Backup anchors, checkpoints and the bootstrap move head or checkpoint   *)
(* and leave reservations and effects alone.                               *)
LEMMA AnchorLedger ==
  ASSUME IInv,
         \/ \E lost \in BOOLEAN : BackupIssue(lost) \/ Install(lost)
         \/ OpenRead
  PROVE  Ledger'
<1>1. UNCHANGED <<resv, terminal, nextId, version, effects>>
  BY DEF BackupIssue, Install, OpenRead, provider, database
<1>2. TypeOK /\ Ledger
  BY DEF IInv, Shape
<1>3. /\ head'.gen >= head.gen /\ head'.gen \in Nat
      /\ head.gen # 0 => head'.ver = head.ver
      /\ head.gen = 0 => head'.ver \in {head.ver, version}
      /\ cp'.ver \in {cp.ver, head.ver}
      /\ head.gen = 0 => cp'.ver = cp.ver \/ head'.ver = head.ver
  BY <1>2
     DEF BackupIssue, Install, OpenRead, NoHead, Installable, TypeOK,
         provider, database
<1>4. UniqueReservations' /\ FreshIds' /\ UniqueEffects' /\ EffectMoves'
      /\ NoOrphanedEffect' /\ OneEffectPerGeneration' /\ TerminalHasRow'
  BY <1>1, <1>2
     DEF Ledger, UniqueReservations, FreshIds, UniqueEffects, EffectMoves,
         NoOrphanedEffect, OneEffectPerGeneration, TerminalHasRow, Held,
         EffectOf
<1>5. CountedBehind'
  <2>1. Counted' = Counted /\ \A r \in Counted : r.gen \in Nat
    BY <1>1, <1>2 DEF Counted, TypeOK, Reservation
  <2> QED
    BY <1>2, <1>3, <2>1 DEF Ledger, CountedBehind, TypeOK
<1>6. HeadFollowsDatabase' /\ Blank'
  BY <1>1, <1>2, <1>3 DEF Ledger, HeadFollowsDatabase, Blank, TypeOK
<1> QED
  BY <1>4, <1>5, <1>6 DEF Ledger

(* Nothing else touches what the provider or the database holds.           *)
LEMMA OtherSteps ==
  ASSUME \/ ExecRefuse \/ ExecReplay \/ ExecReplayRefuse \/ RequestLost
         \/ LookupPresent \/ CommitRefuse \/ AdoptHead \/ AdoptRefuse
         \/ ProviderThrows \/ AlreadyReconciled \/ InstallRefuse
         \/ Open \/ OpenNext \/ OpenCheck \/ Close \/ Crash
         \/ (\E r \in resv : SubmitRetry(r))
         \/ (\E r \in terminal : SubmitReplay(r))
         \/ UNCHANGED vars
  PROVE  UNCHANGED <<provider, database>>
BY DEF ExecRefuse, ExecReplay, ExecReplayRefuse, RequestLost, LookupPresent,
       CommitRefuse, AdoptHead, AdoptRefuse, ProviderThrows,
       AlreadyReconciled, InstallRefuse, Open, OpenNext, OpenCheck, Close,
       Crash, SubmitRetry, SubmitReplay, vars

(* Next, sorted by what a step does to the ledger.                         *)
LEMMA NextCases ==
  ASSUME [Next]_vars
  PROVE  \/ \E k \in Keys, lost \in BOOLEAN : SubmitNew(k, lost)
         \/ \E d \in Deltas, lost \in BOOLEAN : ExecApply(d, lost)
         \/ LookupAbsent
         \/ \E lost \in BOOLEAN : CommitHead(lost)
         \/ \E lost \in BOOLEAN : ReconcileRow(lost)
         \/ \E lost \in BOOLEAN : ReconcileHead(lost)
         \/ \E lost \in BOOLEAN : BackupIssue(lost) \/ Install(lost)
         \/ OpenRead
         \/ \/ ExecRefuse \/ ExecReplay \/ ExecReplayRefuse \/ RequestLost
            \/ LookupPresent \/ CommitRefuse \/ AdoptHead \/ AdoptRefuse
            \/ ProviderThrows \/ AlreadyReconciled \/ InstallRefuse
            \/ Open \/ OpenNext \/ OpenCheck \/ Close \/ Crash
            \/ (\E r \in resv : SubmitRetry(r))
            \/ (\E r \in terminal : SubmitReplay(r))
            \/ UNCHANGED vars
BY DEF Next, Submit, Progress, Fault

LEMMA LedgerStep ==
  ASSUME IInv, [Next]_vars
  PROVE  Ledger'
<1> Ledger
  BY DEF IInv
<1> QED
  BY NextCases, SubmitNewLedger, ExecApplyLedger, LookupAbsentLedger,
     CommitHeadLedger, ReconcileRowLedger, ReconcileHeadLedger, AnchorLedger,
     OtherSteps, LedgerFrame

-----------------------------------------------------------------------------
(* What the client knows of its reservation *)

(* A reservation stays where it is, is committed, or becomes terminal; only *)
(* an abort, which ends its task, removes one.                             *)
LEMMA HeldStays ==
  ASSUME IInv, [Next]_vars, ~LookupAbsent, NEW a, HeldBy(a)
  PROVE  HeldBy(a)'
<1>1. TypeOK
  BY DEF IInv, Shape
<1>2. ASSUME NEW lost \in BOOLEAN, CommitHead(lost)
      PROVE  HeldBy(a)'
  <2>1. PICK r \in resv :
          resv' = (resv \ {r}) \cup {[r EXCEPT !.st = "committed"]}
    BY <1>2 DEF CommitHead, Live
  <2> DEFINE c == [r EXCEPT !.st = "committed"]
  <2>2. c.id = r.id /\ c.key = r.key /\ c.gen = r.gen /\ c.ver = r.ver
    BY <1>1 DEF TypeOK, Reservation
  <2>3. terminal' = terminal /\ resv' = (resv \ {r}) \cup {c}
    BY <1>2, <2>1 DEF CommitHead
  <2>4. r \notin terminal
    BY <1>1 DEF TypeOK
  <2> HIDE DEF c
  <2> QED
    BY <2>2, <2>3, <2>4 DEF HeldBy, Held
<1>3. ASSUME NEW lost \in BOOLEAN, ReconcileHead(lost)
      PROVE  HeldBy(a)'
  <2>1. PICK r \in resv :
          /\ resv' = resv \ {r}
          /\ terminal' = terminal \cup {[r EXCEPT !.st = "reconciled"]}
    BY <1>3 DEF ReconcileHead, TerminalRecord, Live
  <2> DEFINE t == [r EXCEPT !.st = "reconciled"]
  <2>2. t.id = r.id /\ t.key = r.key /\ t.gen = r.gen /\ t.ver = r.ver
    BY <1>1 DEF TypeOK, Reservation
  <2>3. resv' = resv \ {r} /\ terminal' = terminal \cup {t}
    BY <2>1
  <2> HIDE DEF t
  <2> QED
    BY <2>2, <2>3 DEF HeldBy, Held
<1>4. CASE UNCHANGED terminal /\ resv \subseteq resv'
  BY <1>4 DEF HeldBy, Held
<1>5. ASSUME NEW k \in Keys, NEW lost \in BOOLEAN, SubmitNew(k, lost)
      PROVE  UNCHANGED terminal /\ resv \subseteq resv'
  BY <1>5 DEF SubmitNew
<1>6. ASSUME \/ \E d \in Deltas, lost \in BOOLEAN : ExecApply(d, lost)
             \/ \E lost \in BOOLEAN : ReconcileRow(lost)
             \/ \E lost \in BOOLEAN : BackupIssue(lost) \/ Install(lost)
             \/ OpenRead
             \/ UNCHANGED <<provider, database>>
      PROVE  UNCHANGED terminal /\ resv \subseteq resv'
  BY <1>6 DEF ExecApply, ReconcileRow, BackupIssue, Install, OpenRead,
              provider
<1> QED
  BY NextCases, OtherSteps, <1>2, <1>3, <1>4, <1>5, <1>6

(* A task in main or catch was there before, under the same reservation,   *)
(* or has just been submitted; it is a replay only once it is terminal.    *)
LEMMA AuthChanges ==
  ASSUME IInv, [Next]_vars, (mode \in {"main", "catch"})'
  PROVE  \/ mode \in {"main", "catch"} /\ auth' = auth
         \/ /\ mode \in {"main", "catch"} /\ pc = "reconcile"
            /\ auth' = [auth EXCEPT !.st = "reconciled"]
            /\ (ReconcileHead(FALSE) \/ AlreadyReconciled)
         \/ \E k \in Keys, lost \in BOOLEAN :
              SubmitNew(k, lost) /\ auth' \in resv'
         \/ auth' \in Held /\ UNCHANGED provider
<1> USE DEF client
<1>1. ASSUME NEW k \in Keys, NEW lost \in BOOLEAN, SubmitNew(k, lost)
      PROVE  auth' \in resv' \/ (mode' = mode /\ auth' = auth)
  BY <1>1 DEF SubmitNew
<1>2. CASE \/ \E r \in resv : SubmitRetry(r)
           \/ \E r \in terminal : SubmitReplay(r)
  BY <1>2 DEF SubmitRetry, SubmitReplay, Held
<1>3. ASSUME Throw
      PROVE  mode \in {"main", "catch"} /\ auth' = auth
  BY <1>3 DEF Throw, Settle
<1>4. ASSUME NEW step, Goto(step)
      PROVE  mode \in {"main", "catch"} /\ auth' = auth
  BY <1>4 DEF Goto
<1>5. ASSUME NEW u, Settle(u)
      PROVE  FALSE
  BY <1>5 DEF Settle
<1>6. ASSUME NEW lost, NEW step, Answer(lost, step)
      PROVE  mode \in {"main", "catch"} /\ auth' = auth
  BY <1>3, <1>4, <1>6 DEF Answer
<1>7. CASE (\E lost \in BOOLEAN : ReconcileHead(lost)) \/ AlreadyReconciled
  BY <1>3, <1>4, <1>5, <1>7 DEF ReconcileHead, AlreadyReconciled, Reconciled
<1>8. CASE ExecRefuse \/ ExecReplayRefuse \/ RequestLost \/ CommitRefuse
           \/ AdoptRefuse \/ ProviderThrows \/ InstallRefuse
  BY <1>3, <1>8
     DEF ExecRefuse, ExecReplayRefuse, RequestLost, CommitRefuse, AdoptRefuse,
         ProviderThrows, InstallRefuse
<1>9. CASE \/ \E d \in Deltas, lost \in BOOLEAN : ExecApply(d, lost)
           \/ \E lost \in BOOLEAN : CommitHead(lost) \/ ReconcileRow(lost)
  BY <1>6, <1>9 DEF ExecApply, CommitHead, ReconcileRow
<1>10. CASE LookupAbsent \/ LookupPresent \/ AdoptHead
  BY <1>4, <1>5, <1>10 DEF LookupAbsent, LookupPresent, AdoptHead
<1>11. CASE ExecReplay \/ OpenCheck \/ Close \/ Crash
  BY <1>5, <1>11 DEF ExecReplay, OpenCheck, Close, Crash
<1>12. CASE \E lost \in BOOLEAN : Install(lost)
  BY <1>3, <1>4, <1>5, <1>12 DEF Install
<1>13. CASE \E lost \in BOOLEAN : BackupIssue(lost)
  BY <1>13 DEF BackupIssue
<1>14. CASE Open \/ OpenRead \/ OpenNext
  BY <1>14 DEF Open, OpenRead, OpenNext, Goto, IInv, Shape, ClientShape
<1>15. CASE UNCHANGED vars
  BY <1>15 DEF vars
<1> QED
  BY NextCases, <1>1, <1>2, <1>7, <1>8, <1>9, <1>10, <1>11, <1>12, <1>13,
     <1>14, <1>15

LEMMA AuthStep ==
  ASSUME IInv, [Next]_vars
  PROVE  AuthHeld'
<1> SUFFICES ASSUME (mode \in {"main", "catch"})'
             PROVE  HeldBy(auth)'
  BY DEF AuthHeld
<1> USE DEF IInv
<1>1. TypeOK
  BY DEF Shape
<1>2. CASE mode \in {"main", "catch"} /\ auth' = auth
  <2>1. HeldBy(auth)
    BY <1>2 DEF AuthHeld
  <2>2. CASE LookupAbsent
    BY <1>2, <2>2 DEF LookupAbsent, Goto, Settle
  <2>3. CASE ~LookupAbsent
    BY <1>2, <2>1, <2>3, HeldStays DEF HeldBy
  <2> QED
    BY <2>2, <2>3
<1>3. CASE /\ mode \in {"main", "catch"} /\ pc = "reconcile"
           /\ auth' = [auth EXCEPT !.st = "reconciled"]
           /\ (ReconcileHead(FALSE) \/ AlreadyReconciled)
  <2>1. HeldBy(auth) /\ Ledger /\ auth \in Reservation
    BY <1>3 DEF AuthHeld, Shape, ClientShape, Tasks
  <2>2. auth'.id = auth.id /\ auth'.key = auth.key /\ auth'.gen = auth.gen
        /\ auth'.ver = auth.ver
    BY <1>3, <2>1 DEF Reservation
  <2>3. PICK r \in Held : /\ r.id = auth.id /\ r.key = auth.key
                          /\ r.gen = auth.gen /\ r.ver = auth.ver
    BY <2>1 DEF HeldBy
  <2>4. CASE AlreadyReconciled
    <3>1. r \in terminal /\ terminal' = terminal
      BY <2>3, <2>4 DEF AlreadyReconciled, Live, Held, provider
    <3> QED
      BY <2>2, <2>3, <3>1 DEF HeldBy, Held
  <2>5. CASE ReconcileHead(FALSE)
    <3>1. PICK q \in resv :
            /\ q.id = auth.id
            /\ terminal' = terminal \cup {[q EXCEPT !.st = "reconciled"]}
      BY <2>5 DEF ReconcileHead, TerminalRecord, Live
    <3>2. q = r
      BY <2>1, <2>3, <3>1 DEF Ledger, UniqueReservations, Held
    <3> DEFINE t == [r EXCEPT !.st = "reconciled"]
    <3>3. t.id = r.id /\ t.key = r.key /\ t.gen = r.gen /\ t.ver = r.ver
      BY <1>1, <3>1, <3>2 DEF TypeOK, Reservation
    <3>4. t \in terminal'
      BY <3>1, <3>2
    <3> HIDE DEF t
    <3> QED
      BY <2>2, <2>3, <3>3, <3>4 DEF HeldBy, Held
  <2> QED
    BY <1>3, <2>4, <2>5
<1>4. ASSUME NEW k \in Keys, NEW lost \in BOOLEAN,
             SubmitNew(k, lost), auth' \in resv'
      PROVE  HeldBy(auth)'
  <2>1. auth'.st # "reconciled"
    BY <1>1, <1>4, ShapeStep DEF Shape, TypeOK
  <2> QED
    BY <1>4, <2>1 DEF HeldBy, Held
<1>5. CASE auth' \in Held /\ UNCHANGED provider
  <2>1. auth'.st = "reconciled" => auth' \in terminal
    BY <1>1, <1>5 DEF Held, TypeOK
  <2> QED
    BY <1>5, <2>1 DEF HeldBy, Held, provider
<1> QED
  BY AuthChanges, <1>2, <1>3, <1>4, <1>5

(* The reservation is reconciled only after the row: the one step that     *)
(* leads there has just left the row reconciled.                           *)
LEMMA RowStep ==
  ASSUME IInv, [Next]_vars
  PROVE  RowFirst'
<1>1. ASSUME NEW lost \in BOOLEAN, ReconcileRow(lost), (pc = "reconcile")'
      PROVE  (\E e \in EffectOf(auth.id) : e.st = "reconciled")'
  <2>1. auth' = auth
    BY <1>1 DEF ReconcileRow, Answer, Throw, Settle, Goto
  <2>2. PICK e \in EffectOf(auth.id) :
          \/ effects' = (effects \ {e}) \cup {[e EXCEPT !.st = "reconciled"]}
          \/ e.st = "reconciled" /\ effects' = effects
    BY <1>1 DEF ReconcileRow, ReconciledRow
  <2>3. e \in Effect
    BY <2>2 DEF IInv, Shape, TypeOK, EffectOf
  <2> DEFINE f == [e EXCEPT !.st = "reconciled"]
  <2>4. f.id = e.id /\ f.st = "reconciled"
    BY <2>3 DEF Effect
  <2>5. f \in effects' \/ (e \in effects' /\ e.st = "reconciled")
    BY <2>2 DEF EffectOf
  <2> HIDE DEF f
  <2> QED
    BY <2>1, <2>2, <2>4, <2>5 DEF EffectOf
<1>2. CASE UNCHANGED vars
  BY <1>2 DEF vars, client, database, IInv, RowFirst, EffectOf
<1>3. ASSUME ~ (\E lost \in BOOLEAN : ReconcileRow(lost)), ~ UNCHANGED vars
      PROVE  (pc # "reconcile")'
  <2> USE DEF client
  <2>1. ASSUME Throw PROVE pc' # "reconcile"
    BY <2>1 DEF Throw, Settle
  <2>2. ASSUME Reconciled PROVE pc' # "reconcile"
    BY <2>2 DEF Reconciled, Settle, Goto
  <2>3. CASE \/ ExecRefuse \/ ExecReplay \/ ExecReplayRefuse \/ RequestLost
             \/ CommitRefuse \/ AdoptRefuse \/ ProviderThrows \/ InstallRefuse
    BY <2>1, <2>3
       DEF ExecRefuse, ExecReplay, ExecReplayRefuse, RequestLost,
           CommitRefuse, AdoptRefuse, ProviderThrows, InstallRefuse, Settle
  <2>4. CASE \/ \E d \in Deltas, lost \in BOOLEAN : ExecApply(d, lost)
             \/ \E lost \in BOOLEAN : CommitHead(lost)
             \/ \E lost \in BOOLEAN : Install(lost)
    BY <2>1, <2>4 DEF ExecApply, CommitHead, Install, Answer, Goto, Settle
  <2>5. CASE (\E lost \in BOOLEAN : ReconcileHead(lost)) \/ AlreadyReconciled
    BY <2>1, <2>2, <2>5 DEF ReconcileHead, AlreadyReconciled
  <2>6. CASE LookupAbsent \/ LookupPresent \/ AdoptHead \/ OpenNext
    BY <2>6 DEF LookupAbsent, LookupPresent, AdoptHead, OpenNext, Goto, Settle
  <2>7. CASE \/ \E k \in Keys, lost \in BOOLEAN : SubmitNew(k, lost)
             \/ \E lost \in BOOLEAN : BackupIssue(lost)
    BY <2>7 DEF SubmitNew, BackupIssue
  <2>8. CASE \/ Open \/ OpenRead \/ OpenCheck \/ Close \/ Crash
             \/ \E r \in resv : SubmitRetry(r)
             \/ \E r \in terminal : SubmitReplay(r)
    BY <2>8 DEF Open, OpenRead, OpenCheck, Close, Crash, SubmitRetry,
                SubmitReplay, Settle
  <2> QED
    BY NextCases, <1>3, <2>3, <2>4, <2>5, <2>6, <2>7, <2>8
<1> QED
  BY <1>1, <1>2, <1>3 DEF RowFirst

-----------------------------------------------------------------------------
(* What is written stays written *)

AppendOnly ==
  /\ terminal \subseteq terminal'
  /\ head.gen <= head'.gen /\ cp.gen <= cp'.gen
  /\ \A e \in effects : e.st = "reconciled" => e \in effects'

LEMMA AppendStep ==
  ASSUME IInv, [Next]_vars
  PROVE  AppendOnly
<1>1. TypeOK
  BY DEF IInv, Shape
<1> USE DEF AppendOnly, provider, database
<1>2. ASSUME NEW k \in Keys, NEW lost \in BOOLEAN, SubmitNew(k, lost)
      PROVE  AppendOnly
  BY <1>1, <1>2 DEF SubmitNew, TypeOK
<1>3. ASSUME NEW d \in Deltas, NEW lost \in BOOLEAN, ExecApply(d, lost)
      PROVE  AppendOnly
  BY <1>1, <1>3 DEF ExecApply, TypeOK
<1>4. CASE LookupAbsent
  BY <1>1, <1>4 DEF LookupAbsent, TypeOK
<1>5. ASSUME NEW lost \in BOOLEAN, CommitHead(lost)
      PROVE  AppendOnly
  BY <1>1, <1>5 DEF CommitHead, TypeOK
<1>6. ASSUME NEW lost \in BOOLEAN, ReconcileRow(lost)
      PROVE  AppendOnly
  BY <1>1, <1>6 DEF ReconcileRow, TypeOK
<1>7. ASSUME NEW lost \in BOOLEAN, ReconcileHead(lost)
      PROVE  AppendOnly
  BY <1>1, <1>7 DEF ReconcileHead, TypeOK
<1>8. ASSUME NEW lost \in BOOLEAN, BackupIssue(lost) \/ Install(lost)
      PROVE  AppendOnly
  BY <1>1, <1>8 DEF BackupIssue, Install, Installable, TypeOK
<1>9. CASE OpenRead
  BY <1>1, <1>9 DEF OpenRead, NoHead, TypeOK
<1>10. CASE UNCHANGED <<provider, database>>
  BY <1>1, <1>10 DEF TypeOK
<1> QED
  BY NextCases, OtherSteps, <1>2, <1>3, <1>4, <1>5, <1>6, <1>7, <1>8, <1>9,
     <1>10

LEMMA AckedStep ==
  ASSUME IInv, [Next]_vars
  PROVE  AckedIsAnchored'
<1>1. AppendOnly /\ TypeOK /\ AckedIsAnchored /\ Ledger
  BY AppendStep DEF IInv, Shape
<1>2. ASSUME acked' = acked
      PROVE  AckedIsAnchored'
  BY <1>1, <1>2 DEF AckedIsAnchored, AppendOnly
<1>3. ASSUME acked' = acked \cup {auth.key},
             NEW r \in terminal', r.id = auth.id, r.key = auth.key,
             NEW e \in effects', e.id = auth.id, e.st = "reconciled"
      PROVE  AckedIsAnchored'
  BY <1>1, <1>3 DEF AckedIsAnchored, AppendOnly
<1>4. CASE ExecReplay
  <2>1. HeldBy(auth) /\ auth.st = "reconciled"
    BY <1>4 DEF ExecReplay, IInv, AuthHeld, Shape, ClientShape
  <2>2. PICK r \in terminal : r.id = auth.id /\ r.key = auth.key
    BY <2>1 DEF HeldBy
  <2>3. PICK e \in effects : e.id = auth.id /\ e.st = "reconciled"
    BY <1>4 DEF ExecReplay, Replayable, EffectOf
  <2> QED
    BY <1>3, <1>4, <2>2, <2>3 DEF ExecReplay, provider, database
<1>5. ASSUME pc = "reconcile", mode = "main", Reconciled,
             UNCHANGED database,
             \E r \in terminal' : r.id = auth.id /\ r.key = auth.key
      PROVE  AckedIsAnchored'
  <2>1. PICK e \in effects : e.id = auth.id /\ e.st = "reconciled"
    BY <1>5 DEF IInv, RowFirst, EffectOf
  <2> QED
    BY <1>3, <1>5, <2>1 DEF Reconciled, database
<1>6. ASSUME NEW lost \in BOOLEAN, ReconcileHead(lost)
      PROVE  AckedIsAnchored'
  <2>1. CASE lost \/ mode # "main"
    BY <1>2, <1>6, <2>1 DEF ReconcileHead, Reconciled
  <2>2. CASE ~lost /\ mode = "main"
    <3>1. PICK q \in resv :
            /\ q.id = auth.id
            /\ terminal' = terminal \cup {[q EXCEPT !.st = "reconciled"]}
      BY <1>6 DEF ReconcileHead, TerminalRecord, Live
    <3>2. PICK r \in Held : r.id = auth.id /\ r.key = auth.key
      BY <2>2 DEF IInv, AuthHeld, HeldBy
    <3>3. q.key = auth.key
      BY <1>1, <3>1, <3>2 DEF Ledger, UniqueReservations, Held
    <3> DEFINE t == [q EXCEPT !.st = "reconciled"]
    <3>4. t.id = auth.id /\ t.key = auth.key
      BY <1>1, <3>1, <3>3 DEF TypeOK, Reservation
    <3>5. t \in terminal'
      BY <3>1
    <3> HIDE DEF t
    <3> QED
      BY <1>5, <1>6, <2>2, <3>4, <3>5 DEF ReconcileHead
  <2> QED
    BY <2>1, <2>2
<1>7. CASE AlreadyReconciled
  <2>1. CASE mode # "main"
    BY <1>2, <1>7, <2>1 DEF AlreadyReconciled, Reconciled
  <2>2. CASE mode = "main"
    <3>1. PICK r \in Held : r.id = auth.id /\ r.key = auth.key
      BY <2>2 DEF IInv, AuthHeld, HeldBy
    <3>2. r \in terminal
      BY <1>7, <3>1 DEF AlreadyReconciled, Live, Held
    <3> QED
      BY <1>5, <1>7, <2>2, <3>1, <3>2 DEF AlreadyReconciled, provider
  <2> QED
    BY <2>1, <2>2
<1>8. ASSUME ~ExecReplay, ~AlreadyReconciled,
             ~ \E lost \in BOOLEAN : ReconcileHead(lost)
      PROVE  acked' = acked
  BY NextCases, <1>8
     DEF SubmitNew, SubmitRetry, SubmitReplay, BackupIssue, ExecApply,
         ExecRefuse, ExecReplayRefuse, RequestLost, LookupAbsent,
         LookupPresent, CommitHead, CommitRefuse, AdoptHead, AdoptRefuse,
         ProviderThrows, ReconcileRow, Install, InstallRefuse, Open, OpenRead,
         OpenNext, OpenCheck, Close, Crash, vars
<1> QED
  BY <1>2, <1>4, <1>6, <1>7, <1>8

-----------------------------------------------------------------------------
(* The invariants *)

LEMMA Initial == Init => IInv
BY StartsFresh DEF Init, IInv, Shape, TypeOK, ClientShape, Tasks, NoAuth, Ledger,
       UniqueReservations, FreshIds, UniqueEffects, EffectMoves,
       NoOrphanedEffect, HeadFollowsDatabase, CountedBehind,
       OneEffectPerGeneration, TerminalHasRow, Blank, AuthHeld, RowFirst,
       AckedIsAnchored, Held, Counted

LEMMA Inductive == IInv /\ [Next]_vars => IInv'
BY ShapeStep, LedgerStep, AuthStep, RowStep, AckedStep DEF IInv

THEOREM Invariance == Spec => []IInv
BY Initial, Inductive, PTL DEF Spec

(* A key takes effect at most once, for any number of keys, retries,       *)
(* crashes and failures, also when failures hit the handling of failures.  *)
THEOREM EffectsAtMostOnce == Spec => []AtMostOnce
<1>1. ASSUME Ledger, NEW e \in effects, NEW f \in effects, e.key = f.key
      PROVE  e = f
  <2>1. PICK r \in Held : r.id = e.id /\ r.key = e.key
    BY <1>1 DEF Ledger, NoOrphanedEffect, Held
  <2>2. PICK s \in Held : s.id = f.id /\ s.key = f.key
    BY <1>1 DEF Ledger, NoOrphanedEffect, Held
  <2>3. r = s
    BY <1>1, <2>1, <2>2 DEF Ledger, UniqueReservations
  <2> QED
    BY <1>1, <2>1, <2>2, <2>3 DEF Ledger, UniqueEffects
<1>2. IInv => AtMostOnce
  BY <1>1 DEF IInv, AtMostOnce
<1> QED
  BY <1>2, Invariance, PTL

(* No effect in the database is ever without its reservation in the head.  *)
THEOREM EffectsAreHeld == Spec => []NoOrphanedEffect
<1>1. IInv => NoOrphanedEffect
  BY DEF IInv, Ledger
<1> QED
  BY <1>1, Invariance, PTL

(* A receipt a caller holds is reconciled in head and database.            *)
THEOREM ReceiptsAreAnchored == Spec => []AckedIsAnchored
<1>1. IInv => AckedIsAnchored
  BY DEF IInv
<1> QED
  BY <1>1, Invariance, PTL

(* Checkpoint, head and database advance in that order, the head at most   *)
(* one effect behind.                                                      *)
THEOREM HeadFollows == Spec => []HeadFollowsDatabase
<1>1. IInv => HeadFollowsDatabase
  BY DEF IInv, Ledger
<1> QED
  BY <1>1, Invariance, PTL

(* No generation of the head counts two effects, and a terminal record has *)
(* its reconciled row.                                                     *)
THEOREM HeadCountsOnce == Spec => [](OneEffectPerGeneration /\ TerminalHasRow)
<1>1. IInv => OneEffectPerGeneration /\ TerminalHasRow
  BY DEF IInv, Ledger
<1> QED
  BY <1>1, Invariance, PTL

(* All of it: database, checkpoint and head agree on what took effect.     *)
THEOREM AuthorityAgrees == Spec => []AnchorsAgree
<1>1. AnchorsAgree <=>
        TypeOK /\ HeadFollowsDatabase /\ NoOrphanedEffect /\ (OneEffectPerGeneration /\ TerminalHasRow)
  BY DEF AnchorsAgree
<1> QED
  BY <1>1, TypeCorrect, HeadFollows, EffectsAreHeld, HeadCountsOnce, PTL

(* Rows and terminal records are never rewritten, generations never step   *)
(* back.                                                                   *)
THEOREM AppendsOnly == Spec => RecoveryIsAppendOnly
<1>1. IInv /\ [Next]_vars => [AppendOnly]_vars
  BY AppendStep
<1>2. RecoveryIsAppendOnly <=> [][AppendOnly]_vars
  BY DEF RecoveryIsAppendOnly, AppendOnly
<1> QED
  BY <1>1, <1>2, Invariance, PTL DEF Spec

-----------------------------------------------------------------------------
(* The protocol implements the ledger *)

Applied   == {e.key : e \in effects}
Witnessed == {r.key : r \in Counted}

LEMMA Mapped ==
  AL!aVars = <<version, head.ver, Applied, Witnessed, acked>>
BY DEF AL!aVars, Applied, Witnessed, Counted

LEMMA ApplyStep ==
  ASSUME IInv, NEW d \in Deltas, NEW lost \in BOOLEAN, ExecApply(d, lost)
  PROVE  AL!ANext
<1>1. TypeOK /\ Ledger /\ d \in {0, 1}
  BY DeltasAssumption DEF IInv, Shape
<1>2. PICK r \in Held : r.id = auth.id /\ r.key = auth.key
  BY DEF ExecApply, IInv, AuthHeld, HeldBy, Shape, ClientShape
<1>3. r.key \in Keys
  BY <1>1, <1>2 DEF TypeOK, Reservation, Held
<1>4. \A e \in effects : e.key # r.key
  <2>1. \A e \in effects : e.id # auth.id
    BY DEF ExecApply, EffectOf
  <2>2. \A e \in effects : \E q \in Held : q.id = e.id /\ q.key = e.key
    BY <1>1 DEF Ledger, NoOrphanedEffect, Held
  <2> QED
    BY <1>1, <1>2, <2>1, <2>2 DEF Ledger, UniqueReservations
<1>5. head.ver = version /\ version' \in {version, version + 1}
  BY <1>1 DEF ExecApply, PriorHolds, Ledger, HeadFollowsDatabase, TypeOK
<1> DEFINE f == [id |-> auth.id, key |-> auth.key, gen |-> auth.gen,
                 ver |-> auth.ver, to |-> version + d,
                 st |-> "effect_committed"]
<1>a. f.key = r.key /\ effects' = effects \cup {f}
  BY <1>2 DEF ExecApply
<1> HIDE DEF f
<1>6. Applied' = Applied \cup {r.key}
  BY <1>a DEF Applied
<1>7. UNCHANGED <<head.ver, Witnessed, acked>>
  BY DEF ExecApply, provider, Witnessed, Counted
<1>8. AL!Apply(r.key)
  BY <1>3, <1>4, <1>5, <1>6, <1>7
     DEF AL!Apply, Applied, Witnessed, Counted
<1> QED
  BY <1>3, <1>8 DEF AL!ANext

LEMMA CommitStep ==
  ASSUME IInv, NEW lost \in BOOLEAN, CommitHead(lost)
  PROVE  AL!ANext
<1>1. PICK r \in resv, e \in effects :
        /\ r.id = auth.id /\ e.id = auth.id
        /\ r.st = "pending" /\ r.ver = head.ver
        /\ head' = [gen |-> head.gen + 1, ver |-> e.to, backup |-> FALSE]
        /\ resv' = (resv \ {r}) \cup {[r EXCEPT !.st = "committed"]}
  BY DEF CommitHead, CommitAllowed, Live, EffectOf
<1>2. TypeOK /\ Ledger
  BY DEF IInv, Shape
<1> DEFINE c == [r EXCEPT !.st = "committed"]
<1>3. c.key = r.key /\ c.st = "committed" /\ r.key \in Keys
  BY <1>2 DEF TypeOK, Reservation
<1>4. UNCHANGED <<terminal, version, effects, acked>>
  BY DEF CommitHead, database
<1>5. resv' = (resv \ {r}) \cup {c}
  BY <1>1
<1> HIDE DEF c
<1>6. Counted' = Counted \cup {c}
  BY <1>1, <1>3, <1>4, <1>5 DEF Counted
<1>7. Witnessed' = Witnessed \cup {r.key}
  BY <1>3, <1>6 DEF Witnessed
<1>8. \A q \in Counted : q.key # r.key
  <2>1. r \in Held /\ r \notin Counted /\ Counted \subseteq Held
    BY <1>1, <1>2 DEF Held, Counted, TypeOK
  <2> QED
    BY <1>2, <2>1 DEF Ledger, UniqueReservations
<1>9. e.key = r.key /\ e.ver = r.ver
  BY <1>1, <1>2, EffectMatches DEF Held
<1>10. /\ head'.ver \in {head.ver, head.ver + 1}
       /\ head'.ver <= version
  BY <1>1, <1>2, <1>9 DEF Ledger, EffectMoves
<1>11. r.key \in Applied /\ r.key \notin Witnessed
  BY <1>8, <1>9 DEF Applied, Witnessed
<1>12. UNCHANGED <<version, Applied, acked>>
  BY <1>4 DEF Applied
<1>13. AL!Anchor(r.key)
  BY <1>7, <1>10, <1>11, <1>12 DEF AL!Anchor, Applied, Witnessed, Counted
<1> QED
  BY <1>3, <1>13 DEF AL!ANext

(* The steps that keep the ledger's state, up to a receipt.                *)
LEMMA DeliverStep ==
  ASSUME IInv, NEW k \in Keys,
         UNCHANGED <<version, head.ver, Applied, Witnessed>>,
         acked' = acked \cup {k}, k \in Witnessed
  PROVE  AL!ANext
<1>1. AL!Deliver(k)
  BY DEF AL!Deliver, Applied, Witnessed, Counted
<1> QED
  BY <1>1 DEF AL!ANext

LEMMA RefineStep ==
  ASSUME IInv, [Next]_vars
  PROVE  AL!ANext \/ UNCHANGED <<version, head.ver, Applied, Witnessed, acked>>
<1>1. TypeOK /\ Ledger /\ AckedIsAnchored' /\ TypeOK'
  BY AckedStep, ShapeStep DEF IInv, Shape
<1> USE DEF provider, database
<1>2. ASSUME NEW k \in Keys, NEW lost \in BOOLEAN, SubmitNew(k, lost)
      PROVE  UNCHANGED <<version, head.ver, Applied, Witnessed, acked>>
  BY <1>2 DEF SubmitNew, Applied, Witnessed, Counted
<1>3. CASE LookupAbsent
  <2>1. PICK r \in resv : r.id = auth.id /\ r.st = "pending"
    BY <1>3 DEF LookupAbsent, Live
  <2>2. \A q \in resv : q.id = auth.id => q = r
    BY <1>1, <2>1 DEF Ledger, UniqueReservations, Held
  <2>3. resv' = resv \ {r}
    BY <1>3, <2>1, <2>2 DEF LookupAbsent, Live
  <2>4. Counted' = Counted
    BY <1>3, <2>1, <2>3 DEF Counted, LookupAbsent
  <2> QED
    BY <1>3, <2>4 DEF LookupAbsent, Applied, Witnessed
<1>4. ASSUME NEW lost \in BOOLEAN, ReconcileRow(lost)
      PROVE  UNCHANGED <<version, head.ver, Applied, Witnessed, acked>>
  <2>1. CASE effects' = effects
    BY <1>4, <2>1 DEF ReconcileRow, Applied, Witnessed, Counted
  <2>2. CASE effects' # effects
    <3>1. PICK e \in effects :
            effects' = (effects \ {e}) \cup {[e EXCEPT !.st = "reconciled"]}
      BY <1>4, <2>2 DEF ReconcileRow, ReconciledRow, EffectOf
    <3> DEFINE f == [e EXCEPT !.st = "reconciled"]
    <3>2. f.key = e.key /\ effects' = (effects \ {e}) \cup {f}
      BY <1>1, <3>1 DEF TypeOK, Effect
    <3> HIDE DEF f
    <3>3. Applied' = Applied
      BY <3>2 DEF Applied
    <3> QED
      BY <1>4, <3>3 DEF ReconcileRow, Witnessed, Counted
  <2> QED
    BY <2>1, <2>2
<1>5. ASSUME NEW lost \in BOOLEAN, ReconcileHead(lost)
      PROVE  \/ AL!ANext
             \/ UNCHANGED <<version, head.ver, Applied, Witnessed, acked>>
  <2>1. PICK r \in resv :
          /\ r.id = auth.id /\ r.st = "committed"
          /\ resv' = resv \ {r}
          /\ terminal' = terminal \cup {[r EXCEPT !.st = "reconciled"]}
    BY <1>5 DEF ReconcileHead, TerminalRecord, Live
  <2> DEFINE t == [r EXCEPT !.st = "reconciled"]
  <2>2. t.key = r.key /\ terminal' = terminal \cup {t}
    BY <1>1, <2>1 DEF TypeOK, Reservation
  <2> HIDE DEF t
  <2>3. Counted' = (Counted \ {r}) \cup {t} /\ r \in Counted
    BY <1>1, <2>1, <2>2 DEF Counted, TypeOK
  <2>4. Witnessed' = Witnessed
    BY <2>2, <2>3 DEF Witnessed
  <2>5. UNCHANGED <<version, head.ver, Applied, Witnessed>>
    BY <1>5, <2>4 DEF ReconcileHead, Applied
  <2>6. CASE acked' = acked
    BY <2>5, <2>6
  <2>7. CASE acked' = acked \cup {auth.key}
    <3>1. PICK q \in terminal' : q.key = auth.key
      BY <1>1, <2>7 DEF AckedIsAnchored
    <3>2. auth.key \in Witnessed' /\ auth.key \in Keys
      BY <1>1, <2>7, <3>1 DEF Witnessed, Counted, TypeOK
    <3> QED
      BY <2>4, <2>5, <2>7, <3>2, DeliverStep
  <2> QED
    BY <1>5, <2>6, <2>7 DEF ReconcileHead, Reconciled
<1>6. ASSUME NEW lost \in BOOLEAN, BackupIssue(lost) \/ Install(lost)
      PROVE  UNCHANGED <<version, head.ver, Applied, Witnessed, acked>>
  BY <1>6 DEF BackupIssue, Install, Applied, Witnessed, Counted
<1>7. CASE OpenRead
  <2>1. head'.ver = head.ver
    BY <1>1, <1>7 DEF OpenRead, NoHead, Ledger, Blank
  <2> QED
    BY <1>7, <2>1 DEF OpenRead, Applied, Witnessed, Counted
<1>8. CASE UNCHANGED <<provider, database>> /\ acked' = acked
  BY <1>8 DEF Applied, Witnessed, Counted
<1>9. CASE ExecReplay \/ AlreadyReconciled
  <2>1. UNCHANGED <<version, head.ver, Applied, Witnessed>>
    BY <1>9 DEF ExecReplay, AlreadyReconciled, Applied, Witnessed, Counted
  <2>2. CASE acked' = acked
    BY <2>1, <2>2
  <2>3. CASE acked' = acked \cup {auth.key}
    <3>1. PICK q \in terminal' : q.key = auth.key
      BY <1>1, <2>3 DEF AckedIsAnchored
    <3>2. auth.key \in Witnessed' /\ auth.key \in Keys
      BY <1>1, <2>3, <3>1 DEF Witnessed, Counted, TypeOK
    <3> QED
      BY <2>1, <2>3, <3>2, DeliverStep
  <2> QED
    BY <1>9, <2>2, <2>3 DEF ExecReplay, AlreadyReconciled, Reconciled
<1>10. CASE \/ ExecRefuse \/ ExecReplayRefuse \/ RequestLost
            \/ LookupPresent \/ CommitRefuse \/ AdoptHead \/ AdoptRefuse
            \/ ProviderThrows \/ InstallRefuse
            \/ Open \/ OpenNext \/ OpenCheck \/ Close \/ Crash
            \/ (\E r \in resv : SubmitRetry(r))
            \/ (\E r \in terminal : SubmitReplay(r))
            \/ UNCHANGED vars
  <2>1. acked' = acked
    BY <1>10
       DEF ExecRefuse, ExecReplayRefuse, RequestLost, LookupPresent,
           CommitRefuse, AdoptHead, AdoptRefuse, ProviderThrows,
           InstallRefuse, Open, OpenNext, OpenCheck, Close, Crash,
           SubmitRetry, SubmitReplay, vars
  <2> QED
    BY <1>8, <1>10, <2>1, OtherSteps
<1> QED
  BY NextCases, <1>2, <1>3, <1>4, <1>5, <1>6, <1>7, <1>9, <1>10, ApplyStep,
     CommitStep

(* Every behaviour of the protocol, with its crashes, lost answers and     *)
(* retries, is a behaviour of the ledger its callers are promised.         *)
THEOREM ImplementsLedger == Spec => AnchoredLedgerSpec
<1>1. Init => AL!AInit
  BY DEF Init, AL!AInit
<1>2. IInv /\ [Next]_vars => [AL!ANext]_AL!aVars
  BY RefineStep, Mapped DEF AL!aVars, Applied, Witnessed, Counted
<1>3. Spec => AL!AInit /\ [][AL!ANext]_AL!aVars
  BY <1>1, <1>2, Invariance, PTL DEF Spec
<1> QED
  BY <1>3 DEF AnchoredLedgerSpec, AL!ASpec

-----------------------------------------------------------------------------
(* Debts: what a failure leaves to be settled                              *)

(* An effect is unsettled while its reservation is unresolved.             *)
Unsettled(e) == Live(e.id) # {}
AllSettled   == \A e \in effects : ~Unsettled(e)

(* The client serves while it works on an operation or a backup.           *)
Serving ==
  /\ mode \in {"main", "catch", "backup"} => up = "ready"
  /\ mode = "open" <=> up = "opening"

CommittedHasEffect ==
  \A r \in resv : r.st = "committed" => EffectOf(r.id) # {}
CheckpointFollows == cp.gen <= head.gen

(* Work on an id is under way, or startup has it before it.                *)
At(id)      == auth.id = id /\ pc \in {"lookup", "commit", "row", "reconcile"}
Awaits(id)  == \E t \in todo : t.id = id
Handled(id) ==
  /\ up = "ready" => mode \in {"main", "catch"} /\ At(id)
  /\ mode = "open" => pc = "read" \/ At(id) \/ (pc # "check" /\ Awaits(id))

(* While no failure has hit the handling of a failure: at most one effect  *)
(* is unsettled; the head is still where it was reserved, or at its        *)
(* anchor; and the client is at it, or startup is or will be.  A pending   *)
(* reservation that the head has left behind is behind the checkpoint too, *)
(* or the unsettled effect is in between: it cannot be executed any more.  *)
OneUnsettled ==
  \A e, f \in effects : Unsettled(e) /\ Unsettled(f) => e = f
UnsettledIsCurrent ==
  \A e \in effects : \A r \in Live(e.id) :
    IF r.st = "pending" THEN CommitAllowed(r) /\ e.st = "effect_committed"
                        ELSE IsCurrentAnchor(e)
UnsettledIsHandled == \A e \in effects : Unsettled(e) => Handled(e.id)
Between ==
  \E e \in effects : /\ e.st = "effect_committed"
                     /\ \E q \in Live(e.id) : q.st = "committed"
LeftBehind ==
  \A r \in resv : r.st = "pending" /\ r.gen < head.gen =>
    r.gen < cp.gen \/ Between
Debts ==
  OneUnsettled /\ UnsettledIsCurrent /\ UnsettledIsHandled /\ LeftBehind

Basis == IInv /\ Serving /\ CommittedHasEffect /\ CheckpointFollows
DInv  == Basis /\ (~relapsed => Debts)

LEMMA BasisParts ==
  ASSUME Basis
  PROVE  /\ TypeOK /\ ClientShape /\ Ledger /\ Serving
         /\ Held = resv \cup terminal
BY DEF Basis, IInv, Shape, Held

(* Whether the client serves.                                              *)
LEMMA ServingStep ==
  ASSUME Basis, [Next]_vars
  PROVE  Serving'
<1>1. ClientShape /\ Serving
  BY BasisParts
<1>2. ASSUME Throw PROVE Serving'
  BY <1>1, <1>2 DEF Throw, Settle, Serving
<1>3. ASSUME NEW step, Goto(step) PROVE Serving'
  BY <1>1, <1>3 DEF Goto, Serving
<1>4. ASSUME NEW u \in {"ready", "down"}, Settle(u) PROVE Serving'
  BY <1>4 DEF Settle, Serving
<1>5. ASSUME NEW lost \in BOOLEAN, NEW step, Answer(lost, step) PROVE Serving'
  BY <1>2, <1>3, <1>5 DEF Answer
<1>6. ASSUME UNCHANGED client PROVE Serving'
  BY <1>1, <1>6 DEF client, Serving
<1>7. ASSUME Reconciled PROVE Serving'
  BY <1>1, <1>3, <1>4, <1>7 DEF Reconciled, Serving
<1>8. ASSUME NEW k \in Keys, NEW lost \in BOOLEAN, SubmitNew(k, lost)
      PROVE  Serving'
  BY <1>1, <1>6, <1>8 DEF SubmitNew, Serving
<1>9. ASSUME NEW lost \in BOOLEAN, BackupIssue(lost)
      PROVE  Serving'
  BY <1>1, <1>6, <1>9 DEF BackupIssue, Serving
<1>10. ASSUME NEW lost \in BOOLEAN, ReconcileHead(lost)
       PROVE  Serving'
  BY <1>2, <1>7, <1>10 DEF ReconcileHead
<1>11. ASSUME NEW lost \in BOOLEAN,
              \/ \E d \in Deltas : ExecApply(d, lost)
              \/ CommitHead(lost) \/ ReconcileRow(lost)
       PROVE  Serving'
  BY <1>5, <1>11 DEF ExecApply, CommitHead, ReconcileRow
<1>12. ASSUME NEW lost \in BOOLEAN, Install(lost)
       PROVE  Serving'
  BY <1>2, <1>3, <1>4, <1>12 DEF Install
<1>13. CASE \/ ExecRefuse \/ ExecReplayRefuse \/ RequestLost \/ CommitRefuse
            \/ AdoptRefuse \/ ProviderThrows \/ InstallRefuse
  BY <1>2, <1>13 DEF ExecRefuse, ExecReplayRefuse, RequestLost, CommitRefuse,
     AdoptRefuse, ProviderThrows, InstallRefuse
<1>14. CASE \/ ExecReplay \/ LookupAbsent \/ LookupPresent \/ AdoptHead
            \/ AlreadyReconciled \/ OpenCheck \/ Close \/ Crash
  BY <1>3, <1>4, <1>7, <1>14 DEF ExecReplay, LookupAbsent, LookupPresent,
     AdoptHead, AlreadyReconciled, OpenCheck, Close, Crash
<1>15. CASE Open \/ OpenRead \/ OpenNext
  BY <1>1, <1>3, <1>15 DEF Open, OpenRead, OpenNext, Serving
<1>16. CASE (\E r \in resv : SubmitRetry(r)) \/ (\E r \in terminal : SubmitReplay(r))
  BY <1>1, <1>16 DEF SubmitRetry, SubmitReplay, Serving
<1>17. CASE UNCHANGED vars
  BY <1>6, <1>17 DEF vars
<1> QED
  BY NextCases, <1>8, <1>9, <1>10, <1>11, <1>12, <1>13, <1>14, <1>15, <1>16,
     <1>17

(* A generation is counted for an effect; the checkpoint stays behind.     *)
LEMMA BasisStep ==
  ASSUME Basis, [Next]_vars
  PROVE  Basis'
<1>1. TypeOK /\ IInv' /\ Serving'
  BY BasisParts, Inductive, ServingStep DEF Basis
<1>2. CheckpointFollows'
  <2>1. ASSUME NEW lost \in BOOLEAN,
               ReconcileRow(lost) \/ Install(lost) \/ CommitHead(lost)
               \/ BackupIssue(lost)
        PROVE  CheckpointFollows'
    BY <1>1, <2>1 DEF Basis, CheckpointFollows, TypeOK, ReconcileRow, Install,
       CommitHead, BackupIssue, provider, database
  <2>2. CASE OpenRead
    BY <1>1, <2>2 DEF Basis, CheckpointFollows, TypeOK, OpenRead, NoHead, database
  <2>3. CASE UNCHANGED <<head, cp>>
    BY <2>3 DEF Basis, CheckpointFollows
  <2> QED
    BY NextCases, OtherSteps, <2>1, <2>2, <2>3
       DEF SubmitNew, ExecApply, LookupAbsent, ReconcileHead, provider, database
<1>3. CommittedHasEffect'
  <2>1. ASSUME NEW lost \in BOOLEAN, CommitHead(lost) PROVE CommittedHasEffect'
    <3>1. PICK r \in resv :
            /\ r.id = auth.id /\ EffectOf(r.id) # {}
            /\ resv' = (resv \ {r}) \cup {[r EXCEPT !.st = "committed"]}
      BY <2>1 DEF CommitHead, Live
    <3> DEFINE c == [r EXCEPT !.st = "committed"]
    <3>2. c.id = r.id /\ resv' = (resv \ {r}) \cup {c}
      BY <1>1, <3>1 DEF TypeOK, Reservation
    <3> HIDE DEF c
    <3>3. effects' = effects
      BY <2>1 DEF CommitHead, database
    <3>4. ASSUME NEW q \in resv', q.st = "committed"
          PROVE  EffectOf(q.id) # {}
      BY <3>1, <3>2, <3>4 DEF Basis, CommittedHasEffect
    <3> QED
      BY <3>3, <3>4 DEF CommittedHasEffect, EffectOf
  <2>2. ASSUME NEW lost \in BOOLEAN, ReconcileRow(lost) PROVE CommittedHasEffect'
    <3>1. resv' = resv
      BY <2>2 DEF ReconcileRow, provider
    <3>2. CASE effects' = effects
      BY <3>1, <3>2 DEF Basis, CommittedHasEffect, EffectOf
    <3>3. CASE effects' # effects
      <4>1. PICK e \in effects : effects' = (effects \ {e}) \cup {ReconciledRow(e)}
        BY <2>2, <3>3 DEF ReconcileRow, EffectOf
      <4>2. ReconciledRow(e).id = e.id
        BY <1>1 DEF ReconciledRow, TypeOK, Effect
      <4> QED
        BY <3>1, <4>1, <4>2 DEF Basis, CommittedHasEffect, EffectOf
    <3> QED
      BY <3>2, <3>3
  <2>3. ASSUME \A r \in resv' : r \in resv \/ r.st = "pending",
               effects \subseteq effects'
        PROVE CommittedHasEffect'
    BY <2>3 DEF Basis, CommittedHasEffect, EffectOf
  <2> QED
    BY NextCases, OtherSteps, <2>1, <2>2, <2>3
       DEF SubmitNew, ExecApply, LookupAbsent, ReconcileHead, BackupIssue,
           Install, OpenRead, Unresolved, provider, database
<1> QED
  BY <1>1, <1>2, <1>3 DEF Basis

-----------------------------------------------------------------------------
(* What the client is at. *)

Tasked(id) == auth.id = id \/ (mode = "open" /\ Awaits(id))

LEMMA HandledTask ==
  ASSUME Basis, NEW id, Handled(id), pc \in Tasks
  PROVE  Tasked(id) /\ (mode \in {"main", "catch"} => At(id))
BY BasisParts DEF Serving, ClientShape, Tasks, Handled, Tasked, At

LEMMA GotoHandles ==
  ASSUME Basis, NEW id, Tasked(id), pc \in Tasks,
         NEW step \in {"commit", "row", "reconcile"}, Goto(step)
  PROVE  Handled(id)'
BY BasisParts DEF Serving, ClientShape, Tasks, Handled, Tasked, At, Awaits, Goto

LEMMA ThrowHandles ==
  ASSUME Basis, NEW id, Tasked(id), pc \in Tasks, mode # "catch", Throw
  PROVE  Handled(id)'
BY BasisParts
   DEF Serving, ClientShape, Tasks, Handled, Tasked, At, Awaits, Throw, Settle

LEMMA AnswerHandles ==
  ASSUME Basis, NEW id, Tasked(id), pc \in Tasks,
         NEW lost \in BOOLEAN, lost => mode # "catch",
         NEW step \in {"commit", "row", "reconcile"}, Answer(lost, step)
  PROVE  Handled(id)'
BY GotoHandles, ThrowHandles DEF Answer

(* A client that is idle, executes or replays has nothing unsettled.       *)
LEMMA IdleIsSettled ==
  ASSUME Basis, UnsettledIsHandled, up = "ready",
         pc \notin {"lookup", "commit", "row", "reconcile"}
  PROVE  AllSettled
BY DEF AllSettled, UnsettledIsHandled, Handled, At

LEMMA SettledDebts ==
  ASSUME AllSettled, LeftBehind
  PROVE  Debts
BY DEF AllSettled, Unsettled, Debts, OneUnsettled, UnsettledIsCurrent,
       UnsettledIsHandled

LEMMA SameDebts ==
  ASSUME Debts, UNCHANGED <<provider, database>>, UnsettledIsHandled'
  PROVE  Debts'
BY DEF Debts, OneUnsettled, UnsettledIsCurrent, LeftBehind, Between,
       CommitAllowed, IsCurrentAnchor, Unsettled, Live, provider, database

(* The effect of an id and its reservation.                                *)
LEMMA UnsettledOf ==
  ASSUME Basis, NEW e \in effects, NEW r \in Live(e.id)
  PROVE  /\ r.id = e.id /\ r.gen = e.gen /\ r.ver = e.ver /\ Live(e.id) = {r}
         /\ EffectOf(e.id) = {e}
BY BasisParts, EffectMatches
   DEF Live, EffectOf, Ledger, UniqueReservations, UniqueEffects

-----------------------------------------------------------------------------
(* The steps, as long as no failure has hit the handling of a failure.     *)

LEMMA DebtSubmit ==
  ASSUME Basis, Debts, NEW k \in Keys, NEW lost \in BOOLEAN, SubmitNew(k, lost)
  PROVE  Debts'
<1> DEFINE new == [id |-> nextId, key |-> k, gen |-> head.gen,
                   ver |-> head.ver, st |-> "pending"]
<1>1. PICK r : /\ resv' = resv \cup {r}
               /\ r.id = nextId /\ r.gen = head.gen /\ r.st = "pending"
  <2>1. resv' = resv \cup {new}
    BY DEF SubmitNew
  <2>2. new.id = nextId /\ new.gen = head.gen /\ new.st = "pending"
    OBVIOUS
  <2> HIDE DEF new
  <2> QED
    BY <2>1, <2>2
<1>2. UNCHANGED <<head, version, effects, cp>>
  BY DEF SubmitNew, database
<1>3. AllSettled
  BY IdleIsSettled DEF SubmitNew, Debts
<1>4. \A e \in effects : e.id # nextId
  BY BasisParts DEF Ledger, NoOrphanedEffect, FreshIds, Held, TypeOK, Reservation
<1>5. AllSettled'
  BY <1>1, <1>2, <1>3, <1>4 DEF AllSettled, Unsettled, Live
<1>6. ~Between
  BY <1>3 DEF AllSettled, Unsettled, Between
<1>7. LeftBehind'
  BY <1>1, <1>2, <1>6, BasisParts DEF Debts, LeftBehind, TypeOK
<1> QED
  BY <1>5, <1>7, SettledDebts, PTL

LEMMA DebtBackup ==
  ASSUME Basis, Debts, NEW lost \in BOOLEAN, BackupIssue(lost)
  PROVE  Debts'
<1>1. resv' = {}
  BY DEF BackupIssue
<1> QED
  BY <1>1 DEF Debts, OneUnsettled, UnsettledIsCurrent, UnsettledIsHandled,
     LeftBehind, Unsettled, Live

LEMMA DebtRead ==
  ASSUME Basis, Debts, OpenRead
  PROVE  Debts'
<1>1. CASE resv = {}
  <2>1. resv' = {}
    BY <1>1 DEF OpenRead
  <2> QED
    BY <2>1 DEF Debts, OneUnsettled, UnsettledIsCurrent, UnsettledIsHandled,
       LeftBehind, Unsettled, Live
<1>2. CASE resv # {}
  <2>1. UNCHANGED <<provider, database>> /\ pc' = "next" /\ todo' = resv /\ up' = up
    BY <1>2, BasisParts DEF OpenRead, Unresolved, NoHead, Ledger, Blank, provider
  <2>2. up = "opening"
    BY BasisParts DEF OpenRead, ClientShape, Serving
  <2>3. UnsettledIsHandled'
    BY <2>1, <2>2 DEF UnsettledIsHandled, Unsettled, Live, Handled, Awaits,
       provider, database
  <2> QED
    BY <2>1, <2>3, SameDebts
<1> QED
  BY <1>1, <1>2

LEMMA DebtExec ==
  ASSUME Basis, Debts, NEW d \in Deltas, NEW lost \in BOOLEAN, ExecApply(d, lost)
  PROVE  Debts'
<1>1. PICK e :
      /\ effects' = effects \cup {e}
      /\ e.id = auth.id /\ e.st = "effect_committed"
      /\ UNCHANGED <<head, resv, terminal, cp>>
      /\ cp.gen = auth.gen /\ cp.ver = auth.ver /\ version = auth.ver
      /\ pc = "exec" /\ EffectOf(auth.id) = {}
  BY DEF ExecApply, PriorHolds, provider
<1>2. TypeOK /\ Ledger /\ mode = "main" /\ up = "ready"
  BY <1>1, BasisParts DEF ClientShape, Serving, Tasks
<1>3. AllSettled
  BY <1>1, <1>2, IdleIsSettled DEF Debts
<1>4. PICK r \in Held : /\ r.id = auth.id /\ r.key = auth.key
                        /\ r.gen = auth.gen /\ r.ver = auth.ver
  BY <1>2 DEF Basis, IInv, AuthHeld, HeldBy
<1>5. r \in resv /\ r.st = "pending"
  BY <1>1, <1>2, <1>4
     DEF Held, Ledger, TerminalHasRow, Basis, CommittedHasEffect, TypeOK, Reservation
<1>6. CommitAllowed(r)
  <2>1. ~Between
    BY <1>3 DEF AllSettled, Unsettled, Between
  <2>2. ~(r.gen < head.gen)
    BY <1>1, <1>2, <1>4, <1>5, <2>1 DEF Debts, LeftBehind, TypeOK
  <2>3. r.gen = head.gen
    BY <1>1, <1>2, <1>4, <2>2 DEF Basis, CheckpointFollows, TypeOK
  <2>4. r.ver = head.ver
    BY <1>1, <1>2, <1>4 DEF Ledger, HeadFollowsDatabase, TypeOK
  <2> QED
    BY <2>3, <2>4 DEF CommitAllowed
<1>8. \A f \in effects' : f = e \/ (f \in effects /\ Live(f.id)' = {})
  BY <1>1, <1>3 DEF AllSettled, Unsettled, Live
<1>9. \A q \in Live(e.id)' : q = r
  BY <1>1, <1>2, <1>4, <1>5 DEF Live, Ledger, UniqueReservations, Held
<1>10. OneUnsettled'
  BY <1>8 DEF OneUnsettled, Unsettled, Live
<1>11. UnsettledIsCurrent'
  BY <1>1, <1>5, <1>6, <1>8, <1>9 DEF UnsettledIsCurrent, CommitAllowed, Live
<1>12. Handled(e.id)'
  BY <1>2, <1>1, AnswerHandles DEF ExecApply, Tasked, Tasks
<1>13. UnsettledIsHandled'
  BY <1>8, <1>12 DEF UnsettledIsHandled, Unsettled, Live
<1>14. LeftBehind'
  BY <1>1, <1>3 DEF Debts, LeftBehind, Between, AllSettled, Unsettled, Live
<1> QED
  BY <1>10, <1>11, <1>13, <1>14 DEF Debts

LEMMA DebtAbsent ==
  ASSUME Basis, Debts, LookupAbsent
  PROVE  Debts'
<1>1. /\ resv' = resv \ Live(auth.id) /\ pc = "lookup"
      /\ UNCHANGED <<head, effects, cp>> /\ EffectOf(auth.id) = {}
  BY DEF LookupAbsent, Absent, database
<1>2. \A e \in effects : Live(e.id)' = Live(e.id) /\ e.id # auth.id
  BY <1>1 DEF Live, EffectOf
<1>3. OneUnsettled' /\ UnsettledIsCurrent' /\ LeftBehind'
  BY <1>1, <1>2 DEF Debts, OneUnsettled, UnsettledIsCurrent, LeftBehind, Between,
     Unsettled, Live, CommitAllowed, IsCurrentAnchor
<1>4. ASSUME NEW e \in effects, Live(e.id) # {}
      PROVE  Handled(e.id)'
  <2>1. Handled(e.id) /\ ~At(e.id)
    BY <1>2, <1>4 DEF Debts, UnsettledIsHandled, Unsettled, At
  <2>2. mode = "open" /\ up = "opening" /\ Awaits(e.id)
    BY <1>1, <2>1, BasisParts DEF Handled, ClientShape, Serving, Tasks
  <2> QED
    BY <2>2 DEF LookupAbsent, Goto, Handled, Awaits
<1>5. UnsettledIsHandled'
  BY <1>1, <1>4 DEF UnsettledIsHandled, Unsettled, Live
<1> QED
  BY <1>3, <1>5 DEF Debts

LEMMA DebtCommit ==
  ASSUME Basis, Debts, NEW lost \in BOOLEAN, lost => mode # "catch",
         CommitHead(lost)
  PROVE  Debts'
<1>1. PICK r \in resv, e \in effects, c \in {[x EXCEPT !.st = "committed"] : x \in resv} :
        /\ r.id = auth.id /\ e.id = auth.id /\ r.st = "pending"
        /\ r.gen = head.gen
        /\ head'.gen = head.gen + 1 /\ head'.ver = e.to
        /\ resv' = (resv \ {r}) \cup {c}
        /\ c.id = r.id /\ c.st = "committed" /\ c.gen = r.gen
  <2>1. PICK r \in resv, e \in effects :
          /\ r.id = auth.id /\ e.id = auth.id /\ r.st = "pending"
          /\ r.gen = head.gen
          /\ head' = [gen |-> head.gen + 1, ver |-> e.to, backup |-> FALSE]
          /\ resv' = (resv \ {r}) \cup {[r EXCEPT !.st = "committed"]}
    BY DEF CommitHead, CommitAllowed, Live, EffectOf
  <2> DEFINE c == [r EXCEPT !.st = "committed"]
  <2>2. resv' = (resv \ {r}) \cup {c}
    BY <2>1
  <2>3. c.id = r.id /\ c.st = "committed" /\ c.gen = r.gen
    BY BasisParts DEF TypeOK, Reservation
  <2>4. c \in {[x EXCEPT !.st = "committed"] : x \in resv}
    OBVIOUS
  <2> HIDE DEF c
  <2> QED
    BY <2>1, <2>2, <2>3, <2>4
<1>2. UNCHANGED <<version, effects, cp>> /\ pc = "commit"
  BY DEF CommitHead, database
<1>3. /\ r \in Live(e.id) /\ Live(e.id) = {r} /\ e.gen = r.gen
  BY <1>1, UnsettledOf DEF Live
<1>4. \A f \in effects : Unsettled(f) => f = e
  BY <1>3 DEF Debts, OneUnsettled, Unsettled
<1>5. \A f \in effects : Live(f.id)' # {} => f = e
  <2> SUFFICES ASSUME NEW f \in effects, Live(f.id)' # {}
               PROVE  Live(f.id) # {}
    BY <1>4 DEF Unsettled
  <2> QED
    BY <1>1 DEF Live
<1>6. Live(e.id)' = {c}
  <2>1. \A q \in resv : q.id = e.id => q = r
    BY <1>3 DEF Live
  <2> QED
    BY <1>1, <2>1 DEF Live
<1>7. OneUnsettled'
  BY <1>2, <1>5 DEF OneUnsettled, Unsettled, Live
<1>8. UnsettledIsCurrent'
  BY <1>1, <1>2, <1>3, <1>5, <1>6 DEF UnsettledIsCurrent, IsCurrentAnchor, Live
<1>9. e.st = "effect_committed"
  BY <1>1, <1>3 DEF Debts, UnsettledIsCurrent
<1>10. LeftBehind'
  BY <1>1, <1>2, <1>6, <1>9 DEF LeftBehind, Between, Live
<1>11. Handled(e.id)'
  BY <1>1, <1>2, AnswerHandles DEF CommitHead, Tasked, Tasks
<1>12. UnsettledIsHandled'
  BY <1>2, <1>5, <1>11 DEF UnsettledIsHandled, Unsettled, Live
<1> QED
  BY <1>7, <1>8, <1>10, <1>12 DEF Debts

LEMMA DebtRow ==
  ASSUME Basis, Debts, NEW lost \in BOOLEAN, lost => mode # "catch",
         ReconcileRow(lost)
  PROVE  Debts'
<1>1. UNCHANGED <<head, resv>> /\ pc = "row" /\ Answer(lost, "reconcile")
  BY DEF ReconcileRow, provider
<1>2. ASSUME NEW id, Handled(id)
      PROVE  Handled(id)'
  BY <1>1, <1>2, HandledTask, AnswerHandles DEF Tasks
<1>3. CASE UNCHANGED <<effects, cp>>
  <2>1. UnsettledIsHandled'
    BY <1>1, <1>2, <1>3 DEF Debts, UnsettledIsHandled, Unsettled, Live
  <2> QED
    BY <1>1, <1>3, <2>1 DEF Debts, OneUnsettled, UnsettledIsCurrent, LeftBehind, Between,
     Unsettled, Live, CommitAllowed, IsCurrentAnchor
<1>4. CASE ~UNCHANGED <<effects, cp>>
  <2>1. PICK e \in effects, f \in {ReconciledRow(x) : x \in effects} :
          /\ IsCurrentAnchor(e)
          /\ effects' = (effects \ {e}) \cup {f}
          /\ f.id = e.id /\ f.gen = e.gen /\ f.to = e.to
          /\ cp' = [gen |-> head.gen, ver |-> head.ver]
    <3>1. PICK e \in effects :
            /\ IsCurrentAnchor(e)
            /\ effects' = (effects \ {e}) \cup {ReconciledRow(e)}
            /\ cp' = [gen |-> head.gen, ver |-> head.ver]
      BY <1>4 DEF ReconcileRow, EffectOf
    <3>2. /\ ReconciledRow(e).id = e.id /\ ReconciledRow(e).gen = e.gen
          /\ ReconciledRow(e).to = e.to
      BY BasisParts DEF ReconciledRow, TypeOK, Effect
    <3> QED
      BY <3>1, <3>2
  <2>2. LeftBehind'
    BY <1>1, <2>1 DEF LeftBehind
  <2>3. \A r \in Live(e.id) : r.st # "pending"
    BY <2>1, UnsettledOf, BasisParts
       DEF Debts, UnsettledIsCurrent, CommitAllowed, IsCurrentAnchor, TypeOK
  <2>4. \A g \in effects' : \E h \in effects :
          /\ g.id = h.id /\ (g = h \/ (g = f /\ h = e))
    BY <2>1
  <2>5. OneUnsettled'
    BY <1>1, <2>1, <2>4 DEF Debts, OneUnsettled, Unsettled, Live
  <2>6. UnsettledIsCurrent'
    BY <1>1, <2>1, <2>3, <2>4
       DEF Debts, UnsettledIsCurrent, CommitAllowed, IsCurrentAnchor, Live
  <2>7. UnsettledIsHandled'
    BY <1>1, <1>2, <2>4 DEF Debts, UnsettledIsHandled, Unsettled, Live
  <2> QED
    BY <2>2, <2>5, <2>6, <2>7 DEF Debts
<1> QED
  BY <1>3, <1>4

(* A reconciliation is over: what startup has before it remains.           *)
LEMMA ReconciledHandles ==
  ASSUME Basis, NEW id, Handled(id), ~At(id), pc = "reconcile",
         Reconciled \/ Throw
  PROVE  Handled(id)'
<1>1. mode = "open" /\ up = "opening" /\ Awaits(id)
  BY BasisParts DEF Handled, ClientShape, Serving, Tasks
<1> QED
  BY <1>1 DEF Reconciled, Throw, Settle, Goto, Handled, Awaits

LEMMA DebtReconcile ==
  ASSUME Basis, Debts, NEW lost \in BOOLEAN, ReconcileHead(lost)
  PROVE  Debts'
<1>1. PICK r \in resv : r.id = auth.id /\ resv' = resv \ {r}
  BY DEF ReconcileHead, Live
<1>2. UNCHANGED <<head, effects, cp>> /\ pc = "reconcile"
  BY DEF ReconcileHead, database
<1>3. \A q \in resv' : q \in resv /\ q.id # auth.id
  BY <1>1, BasisParts DEF Ledger, UniqueReservations, Held
<1>4. \A e \in effects : Live(e.id)' # {} =>
         e.id # auth.id /\ Live(e.id)' = Live(e.id)
  BY <1>1, <1>3 DEF Live
<1>5. OneUnsettled' /\ UnsettledIsCurrent'
  BY <1>1, <1>2 DEF Debts, OneUnsettled, UnsettledIsCurrent, Unsettled, Live,
     CommitAllowed, IsCurrentAnchor
<1>6. LeftBehind'
  <2>1. \A e \in effects : e.id = auth.id => e.st = "reconciled"
    BY <1>2, BasisParts DEF Basis, IInv, RowFirst, EffectOf, Ledger, UniqueEffects
  <2>2. Between => Between'
    <3> SUFFICES ASSUME NEW e \in effects, e.st = "effect_committed",
                        NEW q \in Live(e.id), q.st = "committed"
                 PROVE  Between'
      BY DEF Between
    <3>1. q \in resv' /\ q.id = e.id
      BY <1>1, <2>1 DEF Live
    <3> QED
      BY <1>2, <3>1 DEF Between, Live
  <2> QED
    BY <1>1, <1>2, <2>2 DEF Debts, LeftBehind
<1>7. ASSUME NEW e \in effects, Live(e.id)' # {}
      PROVE  Handled(e.id)'
  <2>1. Handled(e.id) /\ ~At(e.id)
    BY <1>4, <1>7 DEF Debts, UnsettledIsHandled, Unsettled, At
  <2> QED
    BY <1>2, <2>1, ReconciledHandles DEF ReconcileHead
<1>8. UnsettledIsHandled'
  BY <1>2, <1>7 DEF UnsettledIsHandled, Unsettled, Live
<1> QED
  BY <1>5, <1>6, <1>8 DEF Debts

LEMMA DebtReconciled ==
  ASSUME Basis, Debts, AlreadyReconciled
  PROVE  Debts'
<1>1. UNCHANGED <<provider, database>> /\ pc = "reconcile" /\ Live(auth.id) = {}
  BY DEF AlreadyReconciled
<1>2. ASSUME NEW e \in effects, Unsettled(e)
      PROVE  Handled(e.id)'
  <2>1. Handled(e.id) /\ ~At(e.id)
    BY <1>1, <1>2 DEF Debts, UnsettledIsHandled, Unsettled, At
  <2> QED
    BY <1>1, <2>1, ReconciledHandles DEF AlreadyReconciled
<1>3. UnsettledIsHandled'
  BY <1>1, <1>2 DEF UnsettledIsHandled, Unsettled, Live, provider, database
<1> QED
  BY <1>1, <1>3, SameDebts

LEMMA DebtInstall ==
  ASSUME Basis, Debts, NEW lost \in BOOLEAN, Install(lost)
  PROVE  Debts'
<1>1. /\ UNCHANGED <<head, resv, effects>> /\ pc = "install"
      /\ cp' = [gen |-> head.gen, ver |-> head.ver]
  BY DEF Install, provider
<1>2. LeftBehind'
  BY <1>1 DEF LeftBehind
<1>3. ASSUME NEW e \in effects, Unsettled(e)
      PROVE  Handled(e.id)'
  <2>1. Handled(e.id)
    BY <1>3 DEF Debts, UnsettledIsHandled
  <2>2. mode = "open" /\ up = "opening" /\ Awaits(e.id)
    BY <1>1, <2>1, BasisParts DEF Handled, At, ClientShape, Serving, Tasks
  <2> QED
    BY <2>2 DEF Install, Throw, Settle, Goto, Handled, Awaits
<1>4. UnsettledIsHandled'
  BY <1>1, <1>3 DEF UnsettledIsHandled, Unsettled, Live
<1>5. OneUnsettled' /\ UnsettledIsCurrent'
  BY <1>1 DEF Debts, OneUnsettled, UnsettledIsCurrent, Unsettled, Live,
     CommitAllowed, IsCurrentAnchor
<1> QED
  BY <1>2, <1>4, <1>5 DEF Debts

(* The other steps move only the client.                                   *)
LEMMA DebtClient ==
  ASSUME Basis, Debts, ~relapsed',
         \/ ExecRefuse \/ ExecReplay \/ ExecReplayRefuse \/ RequestLost
         \/ LookupPresent \/ CommitRefuse \/ AdoptHead \/ AdoptRefuse
         \/ ProviderThrows \/ InstallRefuse
         \/ Open \/ OpenNext \/ OpenCheck \/ Close \/ Crash
         \/ (\E r \in resv : SubmitRetry(r))
         \/ (\E r \in terminal : SubmitReplay(r))
         \/ UNCHANGED vars
  PROVE  Debts'
<1>1. UNCHANGED <<provider, database>>
  BY OtherSteps
<1> SUFFICES ASSUME NEW e \in effects, Unsettled(e)
             PROVE  Handled(e.id)'
  BY <1>1, SameDebts DEF UnsettledIsHandled, Unsettled, Live, provider, database
<1>2. Handled(e.id) /\ TypeOK /\ ClientShape /\ Serving
  BY BasisParts DEF Debts, UnsettledIsHandled
<1>3. CASE ExecRefuse \/ InstallRefuse
  BY <1>2, <1>3 DEF ExecRefuse, InstallRefuse, Throw, Settle, Handled, At,
     ClientShape, Serving, Tasks
<1>4. CASE ExecReplay \/ ExecReplayRefuse
  BY <1>2, <1>4 DEF ExecReplay, ExecReplayRefuse, Handled, At, ClientShape,
     Serving, Tasks
<1>5. CASE RequestLost \/ ProviderThrows
  <2>1. mode # "catch" /\ Throw /\ pc \in Tasks \cup {"install"}
    BY <1>5 DEF RequestLost, ProviderThrows, Spend, Tasks
  <2>2. CASE pc \in Tasks
    BY <1>2, <2>1, <2>2, HandledTask, ThrowHandles
  <2>3. CASE pc = "install"
    BY <1>2, <2>1, <2>3 DEF Throw, Settle, Handled, At, ClientShape, Serving
  <2> QED
    BY <2>1, <2>2, <2>3
<1>6. CASE LookupPresent
  <2>1. ASSUME auth.st = "reconciled", e.id = auth.id PROVE FALSE
    <3>1. mode \in {"main", "catch"}
      BY <1>2, <1>6, <2>1 DEF LookupPresent, ClientShape, Tasks
    <3>2. PICK r \in terminal : r.id = e.id
      BY <2>1, <3>1 DEF Basis, IInv, AuthHeld, HeldBy
    <3>3. PICK q \in resv : q.id = e.id
      BY DEF Unsettled, Live
    <3> QED
      BY <1>2, <3>2, <3>3, BasisParts DEF Ledger, UniqueReservations, TypeOK
  <2> QED
    BY <1>2, <1>6, <2>1 DEF LookupPresent, Goto, Handled, At, Awaits, ClientShape,
       Serving, Tasks
<1>7. CASE CommitRefuse \/ AdoptRefuse
  <2>1. ASSUME At(e.id) PROVE FALSE
    BY <1>7, <2>1, UnsettledOf
       DEF CommitRefuse, AdoptRefuse, At, Debts, UnsettledIsCurrent, Unsettled,
           Live, EffectOf
  <2> QED
    BY <1>2, <1>7, <2>1
       DEF CommitRefuse, AdoptRefuse, Throw, Settle, Handled, At, ClientShape,
           Serving, Tasks
<1>8. CASE AdoptHead
  BY <1>2, <1>8, HandledTask, GotoHandles DEF AdoptHead, Tasks
<1>9. CASE Open \/ Crash
  BY <1>2, <1>9 DEF Open, Crash, Settle, Handled, Serving
<1>10. CASE OpenNext
  BY <1>2, <1>10 DEF OpenNext, Goto, Handled, At, Awaits, ClientShape, Serving
<1>11. CASE OpenCheck \/ Close
  BY <1>2, <1>11 DEF OpenCheck, Close, Settle, Handled, At, ClientShape, Serving
<1>12. CASE (\E r \in resv : SubmitRetry(r)) \/ (\E r \in terminal : SubmitReplay(r))
  BY <1>2, <1>12 DEF SubmitRetry, SubmitReplay, Handled, At
<1>13. CASE UNCHANGED vars
  BY <1>2, <1>13 DEF vars, client, Handled, At, Awaits
<1> QED
  BY <1>3, <1>4, <1>5, <1>6, <1>7, <1>8, <1>9, <1>10, <1>11, <1>12, <1>13

LEMMA DebtStep ==
  ASSUME DInv, [Next]_vars
  PROVE  DInv'
<1>1. Basis /\ Basis'
  BY BasisStep DEF DInv
<1> SUFFICES ASSUME ~relapsed' PROVE Debts'
  BY <1>1 DEF DInv
<1>2. ~relapsed /\ relapsed \in BOOLEAN
  BY <1>1, BasisParts, NextCases
     DEF TypeOK, SubmitNew, ExecApply, LookupAbsent, CommitHead, ReconcileRow,
         ReconcileHead, AlreadyReconciled, BackupIssue, Install, OpenRead,
         ExecRefuse, ExecReplay, ExecReplayRefuse, RequestLost, LookupPresent,
         CommitRefuse, AdoptHead, AdoptRefuse, ProviderThrows, InstallRefuse,
         Open, OpenNext, OpenCheck, Close, Crash, SubmitRetry, SubmitReplay,
         Spend, budgets, vars
<1>3. Debts
  BY <1>2 DEF DInv
<1>4. ASSUME NEW lost \in BOOLEAN, Spend(lost)
      PROVE  lost => mode # "catch"
  BY <1>4 DEF Spend
<1>5. ASSUME NEW lost \in BOOLEAN, CommitHead(lost) \/ ReconcileRow(lost)
      PROVE  Debts'
  BY <1>1, <1>3, <1>4, <1>5, DebtCommit, DebtRow DEF CommitHead, ReconcileRow
<1> QED
  BY <1>1, <1>3, <1>5, NextCases, DebtSubmit, DebtExec, DebtAbsent,
     DebtReconcile, DebtReconciled, DebtBackup, DebtInstall, DebtRead,
     DebtClient

(* While no failure has hit the handling of a failure, at most one effect  *)
(* waits for its anchor, and every startup that finds it can reconcile it. *)
THEOREM DebtsStaySmall == Spec => []DebtsAreSmall
<1>1. Init => DInv
  BY Initial DEF Init, DInv, Basis, Serving, CommittedHasEffect,
     CheckpointFollows, Debts, OneUnsettled, UnsettledIsCurrent,
     UnsettledIsHandled, LeftBehind
<1>2. DInv => DebtsAreSmall
  <2> SUFFICES ASSUME Basis, Debts PROVE SingleDebt /\ StartupReconciles
    BY DEF DInv, DebtsAreSmall, SingleDebt, StartupReconciles
  <2>1. ASSUME NEW e \in effects, e.st = "effect_committed"
        PROVE  Unsettled(e)
    <3>1. PICK r \in Held : r.id = e.id
      BY BasisParts DEF Ledger, NoOrphanedEffect
    <3>2. r \notin terminal
      BY <2>1, <3>1, BasisParts DEF Ledger, TerminalHasRow, EffectOf, UniqueEffects
    <3> QED
      BY <3>1, <3>2 DEF Held, Unsettled, Live
  <2>2. SingleDebt
    BY <2>1 DEF SingleDebt, Debts, OneUnsettled
  <2>3. StartupReconciles
    BY DEF StartupReconciles, Debts, UnsettledIsCurrent, EffectOf
  <2> QED
    BY <2>2, <2>3
<1> QED
  BY <1>1, <1>2, DebtStep, PTL DEF Spec
=============================================================================
