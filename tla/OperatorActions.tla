---------------------------- MODULE OperatorActions ----------------------------
(* One destructive operation of the operator's command line, from the      *)
(* signed confirmation to the receipt (operator-action-ledger.ts and the   *)
(* commands that use it).  Everything is in files that outlive the process *)
(* which carries the operation out: two locks, the consumption of the      *)
(* confirmation, and the record of the operation, which advances           *)
(*   1 authorized, 2 effect_prepared, 3 effect_committed,                  *)
(*   4 receipt_committed, 5 responded                                      *)
(* around the effect in the storage and its receipt there.  A process may  *)
(* die between any two of these steps; the operator starts the operation   *)
(* again with the same confirmation, or with another one of the same       *)
(* intent, after the locks of the dead one have been recovered.            *)
(*                                                                         *)
(* The effects of the five commands differ in what a process that dies in  *)
(* them leaves, and in what a later one recognises:                        *)
(*   rollback  one transaction, found again under its idempotency key;     *)
(*   rebuild   prepared and completed under a hash of the request, which   *)
(*             includes the instant of the execution;                      *)
(*   purge     many transactions, of which the last has the operation's id;*)
(*   rotate    begun, resumed and completed; the inventory that should     *)
(*             show the completed rotation lists only the open ones;       *)
(*   restore   a directory, found again under the current recovery head.   *)
(* Signatures, hashes and the binding of the payload to the intent are     *)
(* taken as they should be: a confirmation is of this operation.           *)
EXTENDS Integers, FiniteSets

CONSTANTS Processes,        \* executions of `operator execute`
          Confirmations,    \* signed confirmations of the one intent
          Issued,           \* the instant each was signed
          Recoverers,       \* executions of `operator recover-lock`
          Commands,         \* the commands the operation may be of
          Ttl,              \* max_ttl_seconds: the validity of a confirmation
          MaxTime,          \* bound on the clock
          MaxFaults         \* bound on deaths, failing calls and lost answers

OperatorAssumption ==
  /\ Issued \in [Confirmations -> Nat]
  /\ Commands \subseteq {"rollback", "rebuild", "purge", "rotate", "restore"}
  /\ {Ttl, MaxTime, MaxFaults} \subseteq Nat
  /\ Processes \cap {"none", "gone", "earlier"} = {}
  /\ Confirmations \cap {"none", "operation"} = {}

VARIABLES command,      \* the operation's
          locks,        \* lock file of each confirmation, and of the operation
          temps,        \* temporary files left in the ledger's directory
          consumed,     \* confirmations with a consumption record
          record,       \* the operation's record: sequence, confirmation, instant of its receipt
          effect,       \* of the operation: "none", "begun", "done", and the instant it began
          receipt,      \* operator_action_receipts: its instant, or None
          moved,        \* the state is not the one the intent describes, by others' writes
          lease,        \* the process that has the storage open, or None
          proc,         \* each process: where it is, its confirmation, instant and next write
          recoverer,    \* each recoverer: where it is, and the confirmation
          time, faults, runs
operatorVars == <<command, locks, temps, consumed, record, effect, receipt, moved, lease,
                  proc, recoverer, time, faults, runs>>

None == "none"
Gone == "gone"                      \* the pid of a process that has ended
Earlier == "earlier"                \* the instant of an execution that has ended
Op == "operation"
Names == Confirmations \cup {Op}
\* A lock file: absent, created and still empty, or with its owner and instant.
NoLock == [owner |-> None, at |-> 0, empty |-> FALSE]
Binding == 0                        \* the write of the consumption record
Files == (Confirmations \X {Binding}) \cup ({Op} \X (1 .. 5))

Idle == [pc |-> "idle", conf |-> None, now |-> 0, write |-> 0]
Resting == [pc |-> "idle", conf |-> None]

OInit ==
  /\ command \in Commands
  /\ locks = [n \in Names |-> NoLock] /\ temps = {} /\ consumed = {}
  /\ record = [seq |-> 0, by |-> None, stamp |-> None]
  /\ effect = [stage |-> "none", at |-> None] /\ receipt = None
  /\ moved = FALSE /\ lease = None
  /\ proc = [p \in Processes |-> Idle] /\ recoverer = [r \in Recoverers |-> Resting]
  /\ time = 0 /\ faults = 0 /\ runs = 0

At(p, pc) == proc[p].pc = pc
Goto(p, pc) == proc' = [proc EXCEPT ![p].pc = pc]
File(p) == IF proc[p].write = Binding THEN <<proc[p].conf, Binding>> ELSE <<Op, proc[p].write>>
Kept(n) == {f \in temps : f[1] # n}
Writing(p, seq) == proc' = [proc EXCEPT ![p].pc = "write", ![p].write = seq]
ledgerVars == <<locks, temps, consumed, record>>
worldVars == <<effect, receipt, moved, runs>>
elseVars == <<command, recoverer, time, faults>>

-----------------------------------------------------------------------------
(* verifyPinnedOperatorConfirmation, whose only varying input is the clock. *)
Valid(c, t) == Issued[c] <= t /\ t < Issued[c] + Ttl
Unexpired(p) == Valid(proc[p].conf, proc[p].now)

\* The instant the confirmation is checked at first.
VerifiedNow(p) == proc[p].now
VerifiedAt(p) == IF proc[p].conf \in consumed THEN Issued[proc[p].conf] ELSE proc[p].now

(* validateCurrentState: nothing has changed, except by a repair or a      *)
(* rotation this operation has itself begun.                               *)
Current ==
  /\ ~moved
  /\ \/ effect.stage = "none"
     \/ effect.stage = "begun" /\ command \in {"rebuild", "rotate"}

MayActUnvalidated(p) == Unexpired(p)
MayAct(p) == Unexpired(p) /\ Current

(* reconcileEffect: a completed rotation is looked for among the open ones, *)
(* and a restore by the current recovery head.                             *)
RotationIsListed == effect.stage # "done"
HeadIsCurrent == ~moved
Reconciled ==
  /\ effect.stage = "done"
  /\ command = "rotate" => RotationIsListed
  /\ command = "restore" => HeadIsCurrent

-----------------------------------------------------------------------------
(* runOperatorCli: the execution reads the clock once.  All commands but   *)
(* the restore open the storage first, under its root lease.               *)
Start(p, c) ==
  /\ At(p, "idle") /\ Issued[c] <= time
  /\ \/ command = "restore" /\ UNCHANGED lease
     \/ command # "restore" /\ lease = None /\ lease' = p
  /\ proc' = [proc EXCEPT ![p] = [pc |-> "conf", conf |-> c, now |-> time, write |-> 0]]
  /\ UNCHANGED <<ledgerVars, worldVars, elseVars>>

(* The process ends: its storage is closed, and its locks, if any, stay.   *)
(* The instant of an execution is its own: no later one has it.            *)
Past(at, p) == IF at = p THEN Earlier ELSE at
Ended(p) ==
  /\ proc' = [proc EXCEPT ![p] = Idle]
  /\ receipt' = Past(receipt, p) /\ effect' = [effect EXCEPT !.at = Past(@, p)]
  /\ record' = [record EXCEPT !.stamp = Past(@, p)]
  /\ lease' = IF lease = p THEN None ELSE lease
  /\ locks' = [n \in Names |->
       IF locks[n].owner = p THEN [locks[n] EXCEPT !.owner = Gone] ELSE locks[n]]

(* withConfirmationLock: an existing lock ends the execution.              *)
LockConfirmation(p) == LET c == proc[p].conf IN
  /\ At(p, "conf")
  /\ \/ /\ locks[c] # NoLock /\ Ended(p)
     \/ /\ locks[c] = NoLock /\ Goto(p, "confLocked")
        /\ locks' = [locks EXCEPT ![c] = [owner |-> p, at |-> time, empty |-> TRUE]]
        /\ UNCHANGED <<lease, receipt, effect, record>>
  /\ UNCHANGED <<temps, consumed, moved, runs, elseVars>>

\* The lock is written, and what a dead execution left half-written removed.
NameConfirmation(p) ==
  /\ At(p, "confLocked") /\ Goto(p, "op")
  /\ locks' = [locks EXCEPT ![proc[p].conf].empty = FALSE] /\ temps' = Kept(proc[p].conf)
  /\ UNCHANGED <<consumed, record, lease, worldVars, elseVars>>

(* withLock: an existing lock makes it throw before there is a promise, so *)
(* that nothing removes the lock of the confirmation.                      *)
LockOperation(p) ==
  /\ At(p, "op")
  /\ \/ /\ locks[Op] # NoLock /\ Ended(p)
     \/ /\ locks[Op] = NoLock /\ Goto(p, "opLocked")
        /\ locks' = [locks EXCEPT ![Op] = [owner |-> p, at |-> time, empty |-> TRUE]]
        /\ UNCHANGED <<lease, receipt, effect, record>>
  /\ UNCHANGED <<temps, consumed, moved, runs, elseVars>>

NameOperation(p) ==
  /\ At(p, "opLocked") /\ Goto(p, "check")
  /\ locks' = [locks EXCEPT ![Op].empty = FALSE] /\ temps' = Kept(Op)
  /\ UNCHANGED <<consumed, record, lease, worldVars, elseVars>>

(* The records are read and compared.  An operation without a record needs *)
(* a confirmation that is valid now.                                       *)
Admissible(p) == LET c == proc[p].conf IN
  /\ record.seq > 0 => record.by = c /\ c \in consumed
  /\ Valid(c, VerifiedAt(p))
  /\ c \in consumed /\ record.seq = 0 => Unexpired(p)

Check(p) ==
  /\ At(p, "check")
  /\ \/ ~Admissible(p) /\ Goto(p, "unlockOp")
     \/ /\ Admissible(p)
        /\ \/ proc[p].conf \notin consumed /\ Writing(p, Binding)
           \/ proc[p].conf \in consumed /\ record.seq = 0 /\ Writing(p, 1)
           \/ record.seq > 0 /\ Goto(p, "decide")
  /\ UNCHANGED <<ledgerVars, worldVars, lease, elseVars>>

(* A write is a temporary file, created exclusively, and its rename.       *)
Prepare(p) ==
  /\ At(p, "write") /\ temps' = temps \cup {File(p)}
  /\ Goto(p, IF File(p) \in temps THEN "unlockOp" ELSE "rename")
  /\ UNCHANGED <<locks, consumed, record, worldVars, lease, elseVars>>

Rename(p) == LET w == proc[p].write IN
  /\ At(p, "rename") /\ temps' = temps \ {File(p)}
  /\ \/ /\ w = Binding /\ consumed' = consumed \cup {proc[p].conf}
        /\ Writing(p, 1) /\ UNCHANGED record
     \/ /\ w > 0 /\ Goto(p, "decide") /\ UNCHANGED consumed
        /\ record' = [seq |-> w, by |-> proc[p].conf,
                      stamp |-> IF w = 4 THEN p ELSE record.stamp]
  /\ UNCHANGED <<locks, worldVars, lease, elseVars>>

-----------------------------------------------------------------------------
(* What the record's state asks for.                                       *)
Decide(p) ==
  /\ At(p, "decide")
  /\ \/ record.seq = 1 /\ MayAct(p) /\ Writing(p, 2)
     \/ record.seq = 1 /\ ~MayAct(p) /\ Goto(p, "unlockOp")
     \/ record.seq = 2 /\ Reconciled /\ Writing(p, 3)
     \/ record.seq = 2 /\ ~Reconciled /\ MayAct(p) /\ Goto(p, "effect")
     \/ record.seq = 2 /\ ~Reconciled /\ ~MayAct(p) /\ Goto(p, "unlockOp")
     \/ record.seq = 3 /\ Goto(p, "receipt")
     \/ record.seq = 4 /\ Writing(p, 5)
     \/ record.seq = 5 /\ Goto(p, "unlockOp")
  /\ UNCHANGED <<ledgerVars, worldVars, lease, elseVars>>

(* The effect.  A rebuild that was begun at another instant is another     *)
(* request; a rollback and a restore look again at the state they are for. *)
BeginPurge(p) == /\ command = "purge" /\ effect.stage = "none"
                 /\ effect' = [stage |-> "begun", at |-> p] /\ Goto(p, "finish")
BeginRotation(p) == /\ command = "rotate" /\ Goto(p, "finish")
                    /\ effect' = IF effect.stage = "begun" THEN effect
                                 ELSE [stage |-> "begun", at |-> p]
BeginRepair(p) == /\ command = "rebuild"
                  /\ \/ /\ effect.stage = "none" /\ Goto(p, "finish")
                        /\ effect' = [stage |-> "begun", at |-> p]
                     \/ /\ effect.stage = "begun" /\ UNCHANGED effect
                        /\ Goto(p, IF effect.at = p THEN "finish" ELSE "unlockOp")
BeginChecked(p) == /\ command \in {"rollback", "restore"} /\ UNCHANGED effect
                   /\ Goto(p, IF moved THEN "unlockOp" ELSE "finish")

Begin(p) ==
  /\ At(p, "effect") /\ effect.stage \in {"none", "begun"}
  /\ BeginPurge(p) \/ BeginRotation(p) \/ BeginRepair(p) \/ BeginChecked(p)
  /\ UNCHANGED <<ledgerVars, receipt, moved, runs, lease, elseVars>>

Finish(p) ==
  /\ At(p, "finish")
  /\ effect' = [effect EXCEPT !.stage = "done"] /\ runs' = runs + 1 /\ Writing(p, 3)
  /\ UNCHANGED <<ledgerVars, receipt, moved, lease, elseVars>>

(* recordReceipt: the receipt carries the instant of this execution, and   *)
(* another receipt of the operation is a conflict.                         *)
RecordReceipt(p) ==
  /\ At(p, "receipt")
  /\ \/ receipt \in {None, p} /\ receipt' = p /\ Writing(p, 4)
     \/ receipt \notin {None, p} /\ Goto(p, "unlockOp") /\ UNCHANGED receipt
  /\ UNCHANGED <<ledgerVars, effect, moved, runs, lease, elseVars>>

\* The two `finally`s, and the end of the execution.
UnlockOperation(p) ==
  /\ At(p, "unlockOp") /\ Goto(p, "unlockConf")
  /\ locks' = [locks EXCEPT ![Op] = NoLock]
  /\ UNCHANGED <<temps, consumed, record, worldVars, lease, elseVars>>

UnlockConfirmation(p) ==
  /\ At(p, "unlockConf") /\ Goto(p, "end") /\ locks' = [locks EXCEPT ![proc[p].conf] = NoLock]
  /\ UNCHANGED <<temps, consumed, record, worldVars, lease, elseVars>>

End(p) ==
  /\ At(p, "end") /\ Ended(p)
  /\ UNCHANGED <<temps, consumed, moved, runs, elseVars>>

-----------------------------------------------------------------------------
(* operator recover-lock: each lock is read, and removed when it is old    *)
(* enough and of a process that has ended; one that cannot be read, or is  *)
(* of another process, ends the recovery.  (The last instant of the model, *)
(* when every confirmation has expired, stands for all later ones.)        *)
Recoverable(n) ==
  /\ ~locks[n].empty /\ locks[n].owner = Gone
  /\ time - locks[n].at >= Ttl \/ time = MaxTime

Sees(r, n, found, absent) == recoverer' = [recoverer EXCEPT ![r] =
  IF locks[n] = NoLock THEN absent
  ELSE IF Recoverable(n) THEN [@ EXCEPT !.pc = found] ELSE Resting]

Recover(r, c) ==
  /\ recoverer[r].pc = "idle"
  /\ locks[c].owner = Gone \/ locks[Op].owner = Gone
  /\ recoverer' = [recoverer EXCEPT ![r] = [pc |-> "conf", conf |-> c]]
  /\ UNCHANGED <<ledgerVars, worldVars, command, lease, proc, time, faults>>

Look(r) ==
  /\ \/ /\ recoverer[r].pc = "conf"
        /\ Sees(r, recoverer[r].conf, "removeConf", [recoverer[r] EXCEPT !.pc = "op"])
     \/ recoverer[r].pc = "op" /\ Sees(r, Op, "removeOp", Resting)
  /\ UNCHANGED <<ledgerVars, worldVars, command, lease, proc, time, faults>>

\* unlinkSync removes whatever has the name by now.
Remove(r) ==
  /\ \/ /\ recoverer[r].pc = "removeConf"
        /\ locks' = [locks EXCEPT ![recoverer[r].conf] = NoLock]
        /\ temps' = Kept(recoverer[r].conf)
        /\ recoverer' = [recoverer EXCEPT ![r].pc = "op"]
     \/ /\ recoverer[r].pc = "removeOp"
        /\ locks' = [locks EXCEPT ![Op] = NoLock] /\ temps' = Kept(Op)
        /\ recoverer' = [recoverer EXCEPT ![r] = Resting]
  /\ UNCHANGED <<consumed, record, worldVars, command, lease, proc, time, faults>>

-----------------------------------------------------------------------------
Die(p) ==
  /\ ~At(p, "idle") /\ faults < MaxFaults /\ faults' = faults + 1 /\ Ended(p)
  /\ UNCHANGED <<temps, consumed, moved, runs, command, recoverer, time>>

(* A call to the storage fails, without or after its effect.               *)
Refused(p) ==
  /\ proc[p].pc \in {"finish", "receipt"} /\ faults < MaxFaults /\ faults' = faults + 1
  /\ Goto(p, "unlockOp")
  /\ UNCHANGED <<ledgerVars, worldVars, command, lease, recoverer, time>>

Lost(p) ==
  /\ faults < MaxFaults /\ faults' = faults + 1 /\ Goto(p, "unlockOp")
  /\ \/ At(p, "finish") /\ UNCHANGED receipt
        /\ effect' = [effect EXCEPT !.stage = "done"] /\ runs' = runs + 1
     \/ At(p, "receipt") /\ receipt = None /\ receipt' = p
        /\ UNCHANGED <<effect, runs>>
  /\ UNCHANGED <<ledgerVars, moved, command, lease, recoverer, time>>

Tick ==
  /\ time < MaxTime /\ time' = time + 1
  /\ UNCHANGED <<ledgerVars, worldVars, command, lease, proc, recoverer, faults>>

(* Others write while the storage is not this operation's: at any time     *)
(* when the operation is a restore.                                        *)
Move ==
  /\ lease = None /\ ~moved /\ moved' = TRUE
  /\ UNCHANGED <<ledgerVars, effect, receipt, runs, lease, proc, elseVars>>

Step(p) ==
  \/ LockConfirmation(p) \/ NameConfirmation(p) \/ LockOperation(p) \/ NameOperation(p)
  \/ Check(p) \/ Prepare(p) \/ Rename(p) \/ Decide(p) \/ Begin(p) \/ Finish(p)
  \/ RecordReceipt(p) \/ UnlockOperation(p) \/ UnlockConfirmation(p) \/ End(p)

ONext ==
  \/ \E p \in Processes :
       (\E c \in Confirmations : Start(p, c)) \/ Step(p) \/ Die(p) \/ Refused(p) \/ Lost(p)
  \/ \E r \in Recoverers :
       (\E c \in Confirmations : Recover(r, c)) \/ Look(r) \/ Remove(r)
  \/ Tick \/ Move

OSpec == OInit /\ [][ONext]_operatorVars

-----------------------------------------------------------------------------
TypeOK ==
  /\ command \in Commands /\ temps \subseteq Files /\ consumed \subseteq Confirmations
  /\ \A n \in Names : locks[n].owner \in Processes \cup {None, Gone}
  /\ record.seq \in 0 .. 5 /\ record.by \in Confirmations \cup {None}
  /\ effect.stage \in {"none", "begun", "done"} /\ lease \in Processes \cup {None}

Carrying == {"check", "write", "rename", "decide", "effect", "finish", "receipt", "unlockOp"}

(* Whoever dies and whoever recovers, one execution at a time carries the  *)
(* operation out, under both of its locks; the files a dead one left half- *)
(* written never stand in the way of a write.                              *)
OneAtATime == \A p \in Processes : proc[p].pc \in Carrying =>
  /\ locks[Op].owner = p /\ locks[proc[p].conf].owner = p
  /\ At(p, "write") => File(p) \notin temps

(* The record, the consumption, the effect and its receipt tell one story: *)
(* the effect is there once it is recorded, once at most, and the receipt  *)
(* the ledger claims is the one the storage has.                           *)
LedgerAgrees ==
  /\ record.seq > 0 => record.by \in consumed
  /\ record.seq >= 3 => effect.stage = "done"
  /\ effect.stage # "none" => record.seq >= 2
  /\ receipt # None => record.seq >= 3
  /\ record.seq >= 4 => receipt = record.stamp
  /\ runs <= 1

ActionsSound == TypeOK /\ OneAtATime /\ LedgerAgrees

(* An effect begins under a consumed confirmation that was valid when the  *)
(* execution began, in the state the intent describes, and the record only *)
(* advances, one state at a time, for the confirmation it began with.      *)
Begins(p) == At(p, "effect") /\ At(p, "finish")'
ActionsStep ==
  /\ \A p \in Processes : Begins(p) =>
       Unexpired(p) /\ ~moved /\ proc[p].conf \in consumed /\ record.by = proc[p].conf
  /\ record.seq <= record'.seq /\ record'.seq <= record.seq + 1
  /\ record.seq > 0 => record'.by = record.by
ActionsAreAuthorised == [][ActionsStep]_operatorVars

-----------------------------------------------------------------------------
(* The operator keeps trying: executions with each confirmation, and       *)
(* recoveries of the locks that dead ones left.  A process runs on.        *)
OFairSpec ==
  /\ OSpec /\ WF_operatorVars(Tick)
  /\ \A p \in Processes : WF_operatorVars(Step(p))
  /\ \A c \in Confirmations : SF_operatorVars(\E p \in Processes : Start(p, c))
  /\ \A r \in Recoverers : WF_operatorVars(Look(r) \/ Remove(r))
  /\ \A c \in Confirmations : SF_operatorVars(\E r \in Recoverers : Recover(r, c))

(* What the code cannot bring to its end: a lock whose owner died before it *)
(* was written; a receipt in the storage which the ledger does not have; a *)
(* rotation that is done but not recorded, and a restore that is not       *)
(* recorded when the recovery head has moved on.                           *)
Stranded ==
  \/ \E n \in Names : locks[n].empty /\ locks[n].owner = Gone
  \/ record.seq = 3 /\ receipt = Earlier
  \/ record.seq = 2 /\ (command = "rotate" \/ (command = "restore" /\ moved))

(* However often it is interrupted, an operation whose effect is there is  *)
(* recorded as done and answered, even long after its confirmation has     *)
(* expired, unless it ends in one of the cases above for good.             *)
EffectIsReported ==
  []<>(effect.stage # "done" \/ record.seq = 5) \/ <>[]Stranded

-----------------------------------------------------------------------------
(* What the documents and the code say, and these behaviours refute.       *)

\* Every effect is recorded and answered.
EffectIsAnswered == (effect.stage = "done") ~> (record.seq = 5)

\* A consumed grant is not stranded while the state is the one it is for.
GrantIsUsed == \A c \in Confirmations :
  (c \in consumed) ~> (record.seq = 5 \/ moved \/ record.by # c)

\* The lock of a dead process is recovered.
LockIsRecovered == \A n \in Names : (locks[n].owner = Gone) ~> (locks[n].owner # Gone)

\* An execution that ends by itself leaves no lock.
EndUnlocks == [][\A p \in Processes :
  ~At(p, "idle") /\ At(p, "idle")' /\ faults' = faults =>
    \A n \in Names : locks[n].owner # p]_operatorVars
=============================================================================
