------------------------------ MODULE FilesProofs ------------------------------
(***************************************************************************)
(* What holds of the components that share files.  First, what RootLease   *)
(* guarantees for every number of hosts, of bootstraps and of              *)
(* acquisitions, when no two bootstraps recover at the same time.  Then,   *)
(* what the launch of the workbench's host guarantees for every number of  *)
(* launchers, what the operator's ledger guarantees of its actions when    *)
(* one recovery runs at a time, and what the restores guarantee for every  *)
(* number of executions.  Last, what the run over MCFiles checks of all of *)
(* them and of the spool and the journal, from the theorems on them.       *)
(*                                                                         *)
(* The lock is created exclusively, so a process on its way through the    *)
(* lease finds the lock its own for as long as nobody else moves it; and a *)
(* bootstrap about to move it knows the owner dead, for as long as nobody  *)
(* else replaced the lock it examined.  Neither holds without the other.   *)
(***************************************************************************)
EXTENDS MCFiles, Integers, TLAPS

(* The steps from the creation of the lock to its removal.                 *)
Busy == Steps \ {"down", "gone"}

OwnsWhileBusy == \A h \in Hosts : host[h] \in Busy => lockOwner = h
WritesWhileBusy == \A h \in writing : host[h] \in {"held", "beat"}
TakesFromTheDead ==
    \A b \in Bootstraps : boots[b] = "take" =>
        lockOwner \in Hosts /\ host[lockOwner] = "gone"
OneRecovery ==
    \A b, c \in Bootstraps : boots[b] = "take" /\ boots[c] = "take" => b = c
LeaseHasOwner == lockFence > 0 => lockOwner \in Hosts
NextToken == \A h \in Hosts : host[h] = "write" => mine[h] = fence + 1

LInv ==
    /\ TypeOK
    /\ OwnsWhileBusy /\ WritesWhileBusy
    /\ TakesFromTheDead /\ OneRecovery
    /\ LeaseHasOwner /\ NextToken

-----------------------------------------------------------------------------
LEMMA ExpiredStep ==
  ASSUME expired \in BOOLEAN, [Next]_vars PROVE expired' \in BOOLEAN
<1>1. expired' \in {expired, TRUE, FALSE}
  <2>1. ASSUME NEW h \in Hosts, HostNext(h)
        PROVE  expired' = expired \/ expired' = FALSE
    BY <2>1, Zenon
       DEF HostNext, Create, ReadFence, WriteFence, Publish, AcquireFails,
           Beat, Beaten, Finish, Close, Release, Unlink, Crash, Restart,
           NoLock, Lock, lock
  <2>2. ASSUME NEW b \in Bootstraps, Examine(b) \/ Take(b) \/ Abandon(b)
        PROVE  expired' = expired \/ expired' = FALSE
    BY <2>2, Zenon DEF Examine, Take, Abandon, NoLock, Lock, lock
  <2>3. Expire => expired' = TRUE
    BY Zenon DEF Expire
  <2>4. UNCHANGED vars => expired' = expired
    BY Zenon DEF vars, lock
  <2> QED
    BY <2>1, <2>2, <2>3, <2>4, Zenon DEF Next
<1> QED
  BY <1>1, Zenon

LEMMA TypeStep == TypeOK /\ [Next]_vars => TypeOK'
<1> SUFFICES ASSUME TypeOK, [Next]_vars PROVE TypeOK'
  OBVIOUS
<1> expired' \in BOOLEAN
  BY ExpiredStep DEF TypeOK
<1>1. ASSUME NEW h \in Hosts, HostNext(h) PROVE TypeOK'
  <2> host[h] \in Steps /\ mine[h] \in Nat /\ fence + 1 \in Nat
    BY DEF TypeOK
  <2>1. CASE Create(h) \/ ReadFence(h) \/ WriteFence(h) \/ Publish(h)
    BY <2>1 DEF TypeOK, Create, ReadFence, WriteFence, Publish, Go, Lock,
                lock, Steps
  <2>2. CASE AcquireFails(h) \/ Beat(h) \/ Finish(h) \/ Close(h)
    BY <2>2 DEF TypeOK, AcquireFails, Beat, Finish, Close, Go, Lock, NoLock,
                lock, Steps
  <2>3. ASSUME NEW starts \in BOOLEAN, Beaten(h, starts) PROVE TypeOK'
    BY <2>3 DEF TypeOK, Beaten, Go, Lock, Steps
  <2>4. CASE Release(h) \/ Unlink(h) \/ Crash(h) \/ Restart(h)
    BY <2>4 DEF TypeOK, Release, Unlink, Crash, Restart, Go, Lock, NoLock,
                lock, Steps
  <2> QED
    BY <1>1, <2>1, <2>2, <2>3, <2>4 DEF HostNext
<1>2. ASSUME NEW b \in Bootstraps, Examine(b) \/ Take(b) \/ Abandon(b)
      PROVE  TypeOK'
  BY <1>2 DEF TypeOK, Examine, Take, Abandon, NoLock, Lock, lock
<1>3. CASE Expire
  BY <1>3 DEF TypeOK, Expire
<1>4. CASE UNCHANGED vars
  BY <1>4 DEF TypeOK, vars, lock
<1> QED
  BY <1>1, <1>2, <1>3, <1>4 DEF Next

(* A step of a host that is on its way moves no other host's lock.         *)
LEMMA HostStep ==
  ASSUME LInv, NEW h \in Hosts, HostNext(h)
  PROVE  /\ \A g \in Hosts \ {h} :
              host'[g] = host[g] /\ mine'[g] = mine[g]
              /\ (g \in writing' <=> g \in writing)
         /\ lockOwner' \in {lockOwner, h, NoHost}
         /\ lockOwner' # lockOwner =>
              \/ host[h] = "down" /\ lockOwner = NoHost
              \/ host[h] \in Busy
         /\ host'[h] \in Busy => lockOwner' = h
         /\ h \in writing' => host'[h] \in {"held", "beat"}
         /\ lockFence' > 0 => lockOwner' \in Hosts
         /\ host'[h] = "write" => mine'[h] = fence' + 1
         /\ fence' # fence => host[h] = "write" /\ fence' = mine[h]
         /\ host[h] = "gone" => lockOwner' = lockOwner /\ lockOwner # h
         /\ UNCHANGED boots
<1> USE DEF LInv, TypeOK, OwnsWhileBusy, WritesWhileBusy, LeaseHasOwner,
            NextToken, Busy, Steps, Go, Lock, NoLock, lock
<1>1. CASE Create(h) \/ ReadFence(h) \/ WriteFence(h)
  BY <1>1 DEF Create, ReadFence, WriteFence
<1>2. CASE Publish(h)
  BY <1>2 DEF Publish
<1>3. CASE AcquireFails(h) \/ Beat(h) \/ Finish(h)
  BY <1>3 DEF AcquireFails, Beat, Finish
<1>4. ASSUME NEW starts \in BOOLEAN, Beaten(h, starts)
      PROVE  /\ \A g \in Hosts \ {h} :
                  host'[g] = host[g] /\ (g \in writing' <=> g \in writing)
             /\ host' = [host EXCEPT ![h] = "held"]
             /\ lockOwner' = h
             /\ UNCHANGED <<fence, mine, boots>>
             /\ host[h] = "beat"
  BY <1>4 DEF Beaten
<1>5. CASE Close(h) \/ Release(h) \/ Unlink(h) \/ Crash(h)
  BY <1>5 DEF Close, Release, Unlink, Crash
<1>6. CASE Restart(h)
  BY <1>6 DEF Restart
<1> QED
  BY <1>1, <1>2, <1>3, <1>4, <1>5, <1>6 DEF HostNext

(* Two hosts are never on their way through the lock together.             *)
LEMMA OneBusy ==
  ASSUME LInv, NEW g \in Hosts, NEW h \in Hosts,
         host[g] \in Busy, host[h] \in Busy
  PROVE  g = h
BY DEF LInv, OwnsWhileBusy

LEMMA Inductive ==
  ASSUME ~Overlap PROVE LInv /\ [Next]_vars => LInv'
<1> SUFFICES ASSUME LInv, [Next]_vars PROVE LInv'
  OBVIOUS
<1>t. TypeOK'
  BY TypeStep DEF LInv
<1>1. ASSUME NEW h \in Hosts, HostNext(h) PROVE LInv'
  <2>1. OwnsWhileBusy'
    <3> SUFFICES ASSUME NEW g \in Hosts, host'[g] \in Busy
                 PROVE  lockOwner' = g
      BY DEF OwnsWhileBusy
    <3>1. CASE g = h
      BY <3>1, <1>1, HostStep
    <3>2. CASE g # h
      <4>1. host[g] \in Busy /\ lockOwner = g
        BY <3>2, <1>1, HostStep DEF LInv, OwnsWhileBusy
      <4>2. lockOwner' = lockOwner
        BY <4>1, <3>2, <1>1, HostStep, OneBusy, NoHostAssumption
      <4> QED
        BY <4>1, <4>2
    <3> QED
      BY <3>1, <3>2
  <2>2. WritesWhileBusy'
    BY <1>1, <1>t, HostStep DEF LInv, WritesWhileBusy, TypeOK
  <2>3. TakesFromTheDead'
    <3> SUFFICES ASSUME NEW b \in Bootstraps, boots'[b] = "take"
                 PROVE  lockOwner' \in Hosts /\ host'[lockOwner'] = "gone"
      BY DEF TakesFromTheDead
    <3>1. lockOwner \in Hosts /\ host[lockOwner] = "gone"
      BY <1>1, HostStep DEF LInv, TakesFromTheDead
    <3>2. lockOwner' = lockOwner
      BY <3>1, <1>1, HostStep, NoHostAssumption
         DEF LInv, OwnsWhileBusy, Busy
    <3>3. lockOwner # h
      BY <3>1, <1>1, HostStep
    <3> QED
      BY <3>1, <3>2, <3>3, <1>1, HostStep
  <2>4. OneRecovery'
    BY <1>1, HostStep DEF LInv, OneRecovery
  <2>5. NextToken'
    <3> SUFFICES ASSUME NEW g \in Hosts, host'[g] = "write"
                 PROVE  mine'[g] = fence' + 1
      BY DEF NextToken
    <3>1. CASE g = h
      BY <3>1, <1>1, HostStep
    <3>2. CASE g # h
      BY <3>2, <1>1, HostStep, OneBusy DEF LInv, NextToken, Busy, Steps
    <3> QED
      BY <3>1, <3>2
  <2>6. LeaseHasOwner'
    BY <1>1, HostStep DEF LeaseHasOwner
  <2> QED
    BY <1>t, <2>1, <2>2, <2>3, <2>4, <2>5, <2>6 DEF LInv
<1>2. ASSUME NEW b \in Bootstraps, Examine(b) PROVE LInv'
  <2>1. lockOwner \in Hosts /\ host[lockOwner] = "gone"
    BY <1>2 DEF Examine, DeadLease, LInv, LeaseHasOwner
  <2>2. \A c \in Bootstraps : boots[c] = "idle"
    BY <1>2, OverlapAssumption DEF Examine
  <2>3. UNCHANGED <<lockOwner, lockFence, fence, host, mine, writing>>
    BY <1>2 DEF Examine, lock
  <2>4. \A c \in Bootstraps \ {b} : boots'[c] = "idle"
    BY <1>2, <2>2 DEF Examine, LInv, TypeOK
  <2> QED
    BY <1>t, <2>1, <2>3, <2>4
       DEF LInv, OwnsWhileBusy, WritesWhileBusy, TakesFromTheDead,
           OneRecovery, LeaseHasOwner, NextToken
<1>3. ASSUME NEW b \in Bootstraps, Take(b) PROVE LInv'
  <2>1. \A h \in Hosts : host[h] \notin Busy
    BY <1>3 DEF Take, LInv, TakesFromTheDead, OwnsWhileBusy, Busy
  <2>2. \A c \in Bootstraps : boots'[c] # "take"
    BY <1>3 DEF Take, LInv, TypeOK, OneRecovery
  <2> QED
    BY <1>t, <1>3, <2>1, <2>2
       DEF Take, NoLock, Lock, LInv, OwnsWhileBusy, WritesWhileBusy,
           TakesFromTheDead, OneRecovery, LeaseHasOwner, NextToken
<1>4. ASSUME NEW b \in Bootstraps, Abandon(b) PROVE LInv'
  <2>1. \A c \in Bootstraps : boots'[c] = "take" => boots[c] = "take"
    BY <1>4 DEF Abandon, LInv, TypeOK
  <2> QED
    BY <1>t, <1>4, <2>1
       DEF Abandon, lock, LInv, OwnsWhileBusy, WritesWhileBusy,
           TakesFromTheDead, OneRecovery, LeaseHasOwner, NextToken
<1>5. CASE Expire \/ UNCHANGED vars
  BY <1>t, <1>5
     DEF Expire, vars, lock, LInv, OwnsWhileBusy, WritesWhileBusy,
         TakesFromTheDead, OneRecovery, LeaseHasOwner, NextToken
<1> QED
  BY <1>1, <1>2, <1>3, <1>4, <1>5 DEF Next

LEMMA Invariant == ASSUME ~Overlap PROVE Spec => []LInv
<1>1. Init => LInv
  <2>1. Init => TypeOK
    <3>1. Init => expired \in BOOLEAN
      BY Zenon DEF Init
    <3> QED
      BY <3>1 DEF Init, TypeOK, Steps
  <2> QED
    BY <2>1 DEF Init, LInv, OwnsWhileBusy, WritesWhileBusy, TakesFromTheDead,
                OneRecovery, LeaseHasOwner, NextToken, Busy
<1> QED
  BY <1>1, Inductive, PTL DEF Spec

-----------------------------------------------------------------------------
(* Every variable keeps its type.                                          *)
THEOREM LeaseTypes == ASSUME ~Overlap PROVE Spec => []TypeOK
<1>1. LInv => TypeOK
  BY DEF LInv
<1> QED
  BY <1>1, Invariant, PTL

(* However many hosts start, die and are recovered, and wherever they stop *)
(* between two accesses to the files, at most one changes the database.    *)
THEOREM SingleWriter == ASSUME ~Overlap PROVE Spec => []OneWriter
<1>1. LInv => OneWriter
  BY DEF LInv, OneWriter, WritesWhileBusy, OwnsWhileBusy, Busy, Steps, TypeOK
<1> QED
  BY <1>1, Invariant, PTL

(* NoHost takes the lock of a living process: neither another host nor a   *)
(* bootstrap, the lease being expired or the file still empty.             *)
THEOREM LeaseStands == ASSUME ~Overlap PROVE Spec => LiveLeaseStands
<1> DEFINE Stands ==
      \A h \in Hosts :
        lockOwner = h /\ host[h] # "gone" /\ lockOwner' # h
          => host'[h] # host[h]
<1>1. LInv /\ [Next]_vars => [Stands]_vars
  <2> SUFFICES ASSUME LInv, Next, NEW h \in Hosts,
                      lockOwner = h, host[h] # "gone", lockOwner' # h
               PROVE  host'[h] # host[h]
    BY DEF vars, lock
  <2>1. ASSUME NEW g \in Hosts, HostNext(g) PROVE host'[h] # host[h]
    <3>1. g = h
      BY <2>1, HostStep, NoHostAssumption DEF LInv, OwnsWhileBusy
    <3>2. host[h] \in Busy
      BY <2>1, <3>1, HostStep, NoHostAssumption
    <3>3. host'[h] \notin Busy
      BY <2>1, <3>1, HostStep
    <3> QED
      BY <3>2, <3>3
  <2>2. ASSUME NEW b \in Bootstraps, Examine(b) \/ Take(b) \/ Abandon(b)
        PROVE  FALSE
    BY <2>2, NoHostAssumption
       DEF Examine, Take, Abandon, lock, LInv, TakesFromTheDead
  <2>3. CASE Expire
    BY <2>3 DEF Expire
  <2> QED
    BY <2>1, <2>2, <2>3 DEF Next
<1> QED
  BY <1>1, Invariant, PTL DEF Spec, LiveLeaseStands

(* The fence only moves forward: no token is issued twice.                 *)
THEOREM FenceAdvances == ASSUME ~Overlap PROVE Spec => FenceGrows
<1> DEFINE Grows == fence' # fence => fence' > fence
<1>1. LInv /\ [Next]_vars => [Grows]_vars
  <2> SUFFICES ASSUME LInv, Next, fence' # fence PROVE fence' > fence
    BY DEF vars
  <2>1. ASSUME NEW g \in Hosts, HostNext(g) PROVE fence' = fence + 1
    BY <2>1, HostStep DEF LInv, NextToken
  <2>2. ASSUME NEW b \in Bootstraps, Examine(b) \/ Take(b) \/ Abandon(b)
        PROVE  FALSE
    BY <2>2 DEF Examine, Take, Abandon
  <2>3. ~Expire
    BY DEF Expire
  <2> QED
    BY <2>1, <2>2, <2>3 DEF Next, LInv, TypeOK
<1> QED
  BY <1>1, Invariant, PTL DEF Spec, FenceGrows

(* Both together: what a run of RootLease checks on a small instance.      *)
THEOREM LeaseKept == ASSUME ~Overlap PROVE Spec => LeaseIsKept
BY LeaseStands, FenceAdvances DEF LeaseIsKept

-----------------------------------------------------------------------------
(* The launch of the workbench's host, for any number of launchers and of  *)
(* deaths.  Whatever happens to the lock, a launcher starts one host, and  *)
(* a host with a runtime has taken the root and gives it back as it ends.  *)
(* As long as no lock of a launch under way has been taken away, a         *)
(* launcher has the lock from its second look to its end, and a host that  *)
(* starts is under its launcher's lock even if the launcher is dead.  So   *)
(* while a launcher clears the artifacts nobody starts, and no host was up *)
(* when it looked.                                                         *)

StartsOnce ==
  \A l \in Launchers :
    /\ hpc[l] \in Launch!Starting => lpc[l] \in {"wait", "dead"}
    /\ lpc[l] \notin Launch!LauncherEnds \cup {"wait"} => hpc[l] = "none"

Runs(h) ==
  \/ hpc[h] \in {"key", "socket", "descriptor"}
  \/ hpc[h] \in {"hook", "endpoint", "up"} /\ state[h] = "ready"
OpenedBy(h) == Runs(h) => root = h
LeftBy(h) ==
  /\ hpc[h] \in {"removing", "exited"} => root # h
  /\ hpc[h] = "exited" => \A f \in Launch!Artifacts : files[f] # h

Locked(l) == lpc[l] \in {"name", "recheck", "live", "clean", "spawn", "wait"}
LockIsHeld ==
  \A l \in Launchers : Locked(l) \/ hpc[l] \in Launch!Starting => launchLock = l
Clears(l) == lpc[l] \in {"live", "clean", "spawn"}
ClearsWhenDown ==
  (\E l \in Launchers : Clears(l)) => \A h \in Launchers : hpc[h] # "up"

(* What a host has published when it is at a step of its start.            *)
HasControl(h) == hpc[h] \in {"open", "key", "socket", "descriptor", "hook", "endpoint", "up"}
PublishedBy(h) ==
  /\ HasControl(h) => files["control"] = h
  /\ hpc[h] \in {"endpoint", "up"} => files["hook"] = h
  /\ hpc[h] = "up" => files["endpoint"] = h
  /\ Runs(h) /\ hpc[h] # "key" => files["key"] = h
  /\ Runs(h) /\ hpc[h] \notin {"key", "socket"} => files["socket"] = h
  /\ Runs(h) /\ hpc[h] \notin {"key", "socket", "descriptor"} => files["descriptor"] = h

Undisturbed ==
  /\ LockIsHeld /\ ClearsWhenDown
  /\ \A h \in Launchers : PublishedBy(h)

LaunchInv ==
  /\ Launch!TypeOK /\ StartsOnce
  /\ \A h \in Launchers : OpenedBy(h) /\ LeftBy(h)
  /\ ~undercut => Undisturbed

LEMMA LaunchTypes == Launch!TypeOK /\ [Launch!Next]_(Launch!vars) => Launch!TypeOK'
<1> SUFFICES ASSUME Launch!TypeOK, [Launch!Next]_(Launch!vars) PROVE Launch!TypeOK'
  OBVIOUS
<1> USE PartsAssumption DEF Launch!TypeOK, Launch!LaunchAssumption
<1>1. ASSUME NEW l \in Launchers, Launch!LauncherStep(l) PROVE Launch!TypeOK'
  <2>1. CASE Launch!Begin(l)
    <3>1. early' \in [Launchers -> BOOLEAN]
      BY <2>1, Zenon DEF Launch!Begin
    <3> QED
      BY <2>1, <3>1 DEF Launch!Begin, Launch!Goto, Launch!held, Launch!host
  <2>2. CASE Launch!Look(l) \/ Launch!Lock(l) \/ Launch!Live(l)
    BY <2>2 DEF Launch!Look, Launch!Lock, Launch!Live, Launch!Goto, Launch!End, Launch!held,
                Launch!Reusable, Launch!Artifacts, Launch!LauncherEnds, Launch!host
  <2>3. CASE Launch!Busy(l) \/ Launch!Clean(l) \/ Launch!Spawn(l)
    BY <2>3 DEF Launch!Busy, Launch!Clean, Launch!Spawn, Launch!Goto, Launch!End, Launch!held,
                Launch!LauncherEnds, Launch!Starting, Launch!host
  <2>5. CASE Launch!Name(l) \/ Launch!Steal(l)
    <3>1. undercut' \in BOOLEAN
      BY <2>5, Zenon DEF Launch!Name, Launch!Steal, Launch!TakenAway
    <3> QED
      BY <2>5, <3>1 DEF Launch!Name, Launch!Steal, Launch!TakenAway, Launch!AfterLock,
                        Launch!Goto, Launch!LauncherEnds, Launch!host
  <2>4. CASE Launch!Ready(l) \/ Launch!GiveUp(l)
    BY <2>4 DEF Launch!Ready, Launch!GiveUp, Launch!Goto, Launch!End, Launch!held,
                Launch!Signalled, Launch!LauncherEnds, Launch!Starting, Launch!HostEnds
  <2> QED
    BY <1>1, <2>1, <2>2, <2>3, <2>4, <2>5 DEF Launch!LauncherStep
<1>2. ASSUME NEW h \in Launchers, Launch!HostStep(h) PROVE Launch!TypeOK'
  <2> USE DEF Launch!launcher, Launch!held, Launch!Become, Launch!Publish, Launch!HealthOnly,
              Launch!Abandon, Launch!Without, Launch!Starting, Launch!HostEnds, Launch!Artifacts, Launch!RuntimeFiles
  <2>1. CASE Launch!PublishControl(h) \/ Launch!OpenRuntime(h)
    BY <1>2, <2>1 DEF Launch!HostStep, Launch!PublishControl, Launch!OpenRuntime
  <2>2. CASE Launch!PublishRuntime(h)
    BY <1>2, <2>2 DEF Launch!HostStep, Launch!PublishRuntime
  <2>3. CASE Launch!PublishEndpoint(h)
    BY <1>2, <2>3 DEF Launch!HostStep, Launch!PublishEndpoint
  <2>4. CASE Launch!Terminate(h) \/ Launch!Release(h) \/ Launch!Remove(h)
    BY <1>2, <2>4 DEF Launch!HostStep, Launch!Terminate, Launch!Release, Launch!Remove
  <2> QED
    BY <1>2, <2>1, <2>2, <2>3, <2>4 DEF Launch!HostStep
<1>3. ASSUME NEW h \in Launchers, Launch!HostDies(h) \/ Launch!LauncherDies(h)
      PROVE  Launch!TypeOK'
  BY <1>3 DEF Launch!HostDies, Launch!LauncherDies, Launch!Become, Launch!Goto, Launch!launcher,
              Launch!held, Launch!host, Launch!HostEnds, Launch!LauncherEnds
<1>4. CASE Launch!RecoverLease \/ Launch!Repair
  BY <1>4 DEF Launch!RecoverLease, Launch!Repair, Launch!launcher, Launch!held, Launch!host
<1>5. CASE UNCHANGED Launch!vars
  BY <1>5 DEF Launch!vars, Launch!launcher, Launch!held, Launch!host
<1> QED
  BY <1>1, <1>2, <1>3, <1>4, <1>5 DEF Launch!Next

(* What a step of a launcher's own does to it, to the host and to the lock. *)
LEMMA LauncherStepOf ==
  ASSUME LaunchInv, NEW l \in Launchers, Launch!LauncherStep(l)
  PROVE  /\ \A k \in Launchers \ {l} : lpc'[k] = lpc[k] /\ hpc'[k] = hpc[k]
         /\ lpc[l] \notin Launch!LauncherEnds
         /\ lpc'[l] # "dead"
         /\ lpc'[l] \notin Launch!LauncherEnds \cup {"wait"} => hpc'[l] = hpc[l] /\ lpc[l] # "wait"
         /\ hpc'[l] \in Launch!Starting => lpc'[l] = "wait"
         /\ hpc'[l] # hpc[l] => hpc'[l] \in {"spawned", "draining", "dead"}
         /\ UNCHANGED <<state, root>>
         /\ \/ UNCHANGED files
            \/ lpc[l] = "clean" /\ UNCHANGED hpc
               /\ files' = [f \in Launch!Artifacts |-> Launch!Nobody]
<1> USE DEF LaunchInv, Launch!TypeOK, StartsOnce, Launch!LauncherEnds, Launch!Goto, Launch!End,
            Launch!held, Launch!host
<1>1. CASE Launch!Begin(l) \/ Launch!Name(l) \/ Launch!Steal(l) \/ Launch!Busy(l)
  BY <1>1 DEF Launch!Begin, Launch!Name, Launch!AfterLock, Launch!Steal, Launch!Busy
<1>2. CASE Launch!Look(l) \/ Launch!Lock(l) \/ Launch!Live(l)
  BY <1>2 DEF Launch!Look, Launch!Lock, Launch!Live
<1>3. CASE Launch!Clean(l) \/ Launch!Spawn(l)
  BY <1>3 DEF Launch!Clean, Launch!Spawn, Launch!Starting
<1>4. CASE Launch!Ready(l) \/ Launch!GiveUp(l)
  BY <1>4 DEF Launch!Ready, Launch!GiveUp, Launch!Signalled, Launch!Starting
<1> QED
  BY <1>1, <1>2, <1>3, <1>4 DEF Launch!LauncherStep

(* What it does as long as no lock of a launch under way is taken away.    *)
LEMMA UndisturbedStepOf ==
  ASSUME LaunchInv, NEW l \in Launchers, Launch!LauncherStep(l), ~undercut'
  PROVE  /\ Undisturbed
         /\ Locked(l)' => launchLock' = l
         /\ launchLock' # launchLock =>
              \/ launchLock \in {Launch!Nobody, l}
              \/ lpc[launchLock] = "dead" /\ hpc[launchLock] \notin Launch!Starting
         /\ Clears(l)' => Clears(l) \/ \A h \in Launchers : hpc[h] # "up"
<1>1. Undisturbed
  BY DEF LaunchInv, Launch!LauncherStep, Launch!Begin, Launch!Look, Launch!Lock, Launch!Name,
         Launch!Steal, Launch!TakenAway, Launch!Busy, Launch!Live, Launch!Clean, Launch!Spawn,
         Launch!Ready, Launch!GiveUp
<1> USE <1>1 DEF Undisturbed, LockIsHeld, Locked, Clears, LaunchInv, Launch!TypeOK,
                 Launch!LauncherEnds, Launch!Goto, Launch!End, Launch!held, Launch!Nobody
<1>2. CASE Launch!Begin(l) \/ Launch!Steal(l) \/ Launch!Busy(l)
  BY <1>2 DEF Launch!Begin, Launch!Steal, Launch!TakenAway, Launch!UnderWay, Launch!Busy
<1>7. CASE Launch!Name(l)
  BY <1>7 DEF Launch!Name, Launch!AfterLock, Launch!TakenAway, Launch!UnderWay
<1>3. CASE Launch!Look(l)
  <2>1. ASSUME NEW h \in Launchers, hpc[h] = "up" PROVE Launch!Reusable(files["endpoint"])
    BY <2>1, PartsAssumption
       DEF PublishedBy, HasControl, Launch!Reusable, Launch!Serving, Launch!NobodyAssumption
  <2> QED
    BY <1>3, <2>1 DEF Launch!Look
<1>4. CASE Launch!Lock(l) \/ Launch!Live(l)
  BY <1>4 DEF Launch!Lock, Launch!Live
<1>5. CASE Launch!Clean(l) \/ Launch!Spawn(l)
  BY <1>5 DEF Launch!Clean, Launch!Spawn
<1>6. CASE Launch!Ready(l) \/ Launch!GiveUp(l)
  BY <1>6 DEF Launch!Ready, Launch!GiveUp
<1> QED
  BY <1>1, <1>2, <1>3, <1>4, <1>5, <1>6, <1>7 DEF Launch!LauncherStep

(* And what a step of a host does.                                         *)
LEMMA HostStepOf ==
  ASSUME LaunchInv, NEW h \in Launchers, Launch!HostStep(h)
  PROVE  /\ UNCHANGED <<lpc, launchLock, undercut>>
         /\ \A g \in Launchers \ {h} :
              /\ hpc'[g] = hpc[g] /\ state'[g] = state[g]
              /\ root' = g <=> root = g
              /\ \A f \in Launch!Artifacts : files'[f] = g <=> files[f] = g
         /\ hpc[h] # "none" /\ hpc'[h] # "none"
         /\ hpc'[h] \in Launch!Starting \cup {"up"} => hpc[h] \in Launch!Starting
         /\ OpenedBy(h)' /\ LeftBy(h)'
         /\ PublishedBy(h) => PublishedBy(h)'
<1> USE PartsAssumption
    DEF LaunchInv, Launch!TypeOK, Launch!HostStep, PublishedBy, OpenedBy, LeftBy, HasControl, Runs,
        Launch!launcher, Launch!held, Launch!Become, Launch!Publish, Launch!Free,
        Launch!HealthOnly, Launch!Abandon, Launch!Without, Launch!Owned, Launch!Starting, Launch!Artifacts,
        Launch!RuntimeFiles, Launch!NobodyAssumption
<1>1. CASE Launch!PublishControl(h)
  BY <1>1 DEF Launch!PublishControl
<1>2. CASE Launch!OpenRuntime(h)
  BY <1>2 DEF Launch!OpenRuntime
<1>3. CASE Launch!PublishRuntime(h)
  BY <1>3 DEF Launch!PublishRuntime
<1>4. CASE Launch!PublishEndpoint(h)
  BY <1>4 DEF Launch!PublishEndpoint
<1>5. CASE Launch!Terminate(h) \/ Launch!Release(h) \/ Launch!Remove(h)
  BY <1>5 DEF Launch!Terminate, Launch!Release, Launch!Remove
<1> QED
  BY <1>1, <1>2, <1>3, <1>4, <1>5

LEMMA LaunchInductive == LaunchInv /\ [Launch!Next]_(Launch!vars) => LaunchInv'
<1> SUFFICES ASSUME LaunchInv, [Launch!Next]_(Launch!vars) PROVE LaunchInv'
  OBVIOUS
<1>t. Launch!TypeOK'
  BY LaunchTypes DEF LaunchInv
<1>1. ASSUME NEW l \in Launchers, Launch!LauncherStep(l) PROVE LaunchInv'
  <2>1. StartsOnce'
    BY <1>1, LauncherStepOf DEF LaunchInv, StartsOnce
  <2>2. ASSUME NEW h \in Launchers PROVE OpenedBy(h)' /\ LeftBy(h)'
    <3>1. hpc'[h] = hpc[h] \/ hpc'[h] \in {"spawned", "draining", "dead"}
      BY <1>1, LauncherStepOf
    <3>2. UNCHANGED <<state, root>>
      BY <1>1, LauncherStepOf
    <3>3. UNCHANGED files \/ files' = [f \in Launch!Artifacts |-> Launch!Nobody]
      BY <1>1, LauncherStepOf
    <3> QED
      BY <3>1, <3>2, <3>3, PartsAssumption
         DEF LaunchInv, OpenedBy, LeftBy, Runs, Launch!NobodyAssumption
  <2>3. ASSUME ~undercut' PROVE LockIsHeld'
    <3> SUFFICES ASSUME NEW k \in Launchers, (Locked(k) \/ hpc[k] \in Launch!Starting)'
                 PROVE  launchLock' = k
      BY DEF LockIsHeld
    <3>1. CASE k = l
      BY <3>1, <1>1, <2>3, LauncherStepOf, UndisturbedStepOf DEF Locked
    <3>2. CASE k # l
      <4>1. Locked(k) \/ hpc[k] \in Launch!Starting
        BY <3>2, <1>1, LauncherStepOf DEF Locked
      <4>2. launchLock = k
        BY <4>1, <1>1, <2>3, UndisturbedStepOf DEF Undisturbed, LockIsHeld
      <4>3. launchLock \notin {Launch!Nobody, l}
        BY <4>2, <3>2, PartsAssumption DEF Launch!NobodyAssumption
      <4>4. ~(lpc[launchLock] = "dead" /\ hpc[launchLock] \notin Launch!Starting)
        BY <4>1, <4>2 DEF Locked
      <4> QED
        BY <4>2, <4>3, <4>4, <1>1, <2>3, UndisturbedStepOf
    <3> QED
      BY <3>1, <3>2
  <2>4. ASSUME ~undercut' PROVE ClearsWhenDown'
    <3>1. \A h \in Launchers : hpc'[h] = "up" => hpc[h] = "up"
      BY <1>1, LauncherStepOf
    <3>2. \A k \in Launchers \ {l} : Clears(k)' => Clears(k)
      BY <1>1, LauncherStepOf DEF Clears
    <3> QED
      BY <3>1, <3>2, <1>1, <2>4, UndisturbedStepOf DEF Undisturbed, ClearsWhenDown
  <2>5. ASSUME ~undercut', NEW h \in Launchers PROVE PublishedBy(h)'
    <3>0. Undisturbed /\ UNCHANGED state
      BY <1>1, <2>5, UndisturbedStepOf, LauncherStepOf
    <3>1. hpc'[h] = hpc[h] \/ hpc'[h] \in {"spawned", "draining", "dead"}
      BY <1>1, LauncherStepOf
    <3>2. CASE UNCHANGED files
      BY <3>0, <3>1, <3>2 DEF Undisturbed, PublishedBy, HasControl, Runs
    <3>3. CASE lpc[l] = "clean" /\ UNCHANGED hpc
      <4>1. hpc[h] # "up"
        BY <3>0, <3>3 DEF Undisturbed, ClearsWhenDown, Clears
      <4>2. launchLock = l /\ hpc[l] = "none"
        BY <3>0, <3>3 DEF Undisturbed, LockIsHeld, Locked, LaunchInv, StartsOnce, Launch!LauncherEnds
      <4>3. hpc[h] \notin Launch!Starting
        BY <3>0, <4>2 DEF Undisturbed, LockIsHeld, Launch!Starting
      <4> QED
        BY <3>3, <4>1, <4>3 DEF PublishedBy, HasControl, Runs, Launch!Starting
    <3> QED
      BY <3>2, <3>3, <1>1, LauncherStepOf
  <2> QED
    BY <1>t, <2>1, <2>2, <2>3, <2>4, <2>5 DEF LaunchInv, Undisturbed
<1>2. ASSUME NEW h \in Launchers, Launch!HostStep(h) PROVE LaunchInv'
  <2>1. StartsOnce'
    BY <1>2, HostStepOf DEF LaunchInv, StartsOnce, Launch!Starting
  <2>2. ASSUME NEW g \in Launchers PROVE OpenedBy(g)' /\ LeftBy(g)'
    <3>1. CASE g # h
      BY <3>1, <1>2, HostStepOf
         DEF LaunchInv, OpenedBy, LeftBy, Runs, Launch!Artifacts, Launch!RuntimeFiles
    <3> QED
      BY <3>1, <1>2, HostStepOf
  <2>3. ASSUME ~undercut' PROVE LockIsHeld'
    BY <2>3, <1>2, HostStepOf DEF LaunchInv, Undisturbed, LockIsHeld, Locked
  <2>4. ASSUME ~undercut' PROVE ClearsWhenDown'
    <3> SUFFICES ASSUME NEW k \in Launchers, Clears(k), NEW g \in Launchers, hpc'[g] = "up"
                 PROVE  FALSE
      BY <1>2, HostStepOf DEF ClearsWhenDown, Clears
    <3>1. Undisturbed
      BY <2>4, <1>2, HostStepOf DEF LaunchInv
    <3>2. hpc[g] \in Launch!Starting
      BY <3>1, <1>2, HostStepOf DEF Undisturbed, ClearsWhenDown
    <3>3. launchLock = g /\ launchLock = k
      BY <3>1, <3>2 DEF Undisturbed, LockIsHeld, Locked, Clears
    <3> QED
      BY <3>2, <3>3 DEF LaunchInv, StartsOnce, Clears
  <2>5. ASSUME ~undercut', NEW g \in Launchers PROVE PublishedBy(g)'
    <3>1. PublishedBy(g)
      BY <2>5, <1>2, HostStepOf DEF LaunchInv, Undisturbed
    <3>2. CASE g # h
      BY <3>1, <3>2, <1>2, HostStepOf
         DEF PublishedBy, HasControl, Runs, Launch!Artifacts, Launch!RuntimeFiles
    <3> QED
      BY <3>1, <3>2, <1>2, HostStepOf
  <2> QED
    BY <1>t, <2>1, <2>2, <2>3, <2>4, <2>5 DEF LaunchInv, Undisturbed
<1> USE DEF LaunchInv, Undisturbed, StartsOnce, LockIsHeld, Locked, ClearsWhenDown, Clears,
            OpenedBy, LeftBy, PublishedBy, HasControl, Runs
<1>3. ASSUME NEW h \in Launchers, Launch!HostDies(h) PROVE LaunchInv'
  BY <1>t, <1>3
     DEF Launch!HostDies, Launch!Running, Launch!Become, Launch!launcher, Launch!held,
         Launch!TypeOK, Launch!Starting
<1>4. ASSUME NEW l \in Launchers, Launch!LauncherDies(l) PROVE LaunchInv'
  BY <1>t, <1>4
     DEF Launch!LauncherDies, Launch!Goto, Launch!held, Launch!host, Launch!TypeOK,
         Launch!LauncherEnds
<1>5. CASE Launch!RecoverLease \/ Launch!Repair \/ UNCHANGED Launch!vars
  BY <1>t, <1>5, PartsAssumption
     DEF Launch!RecoverLease, Launch!Repair, Launch!vars, Launch!launcher, Launch!held,
         Launch!host, Launch!NobodyAssumption
<1> QED
  BY <1>1, <1>2, <1>3, <1>4, <1>5 DEF Launch!Next

(* However many launchers race, and whoever of them or of their hosts      *)
(* dies: one host at most has a runtime, and it holds the root; one that   *)
(* ended has left nothing; and one that is up can be found and owns what   *)
(* its runtime needs, unless a recovery has taken away the lock of a       *)
(* launch that was under way, which is all that has to be excluded.        *)
THEOREM LaunchIsSound == Launch!Spec => []Launch!HostIsFound
<1>1. Launch!Init => LaunchInv
  <2> SUFFICES ASSUME Launch!Init PROVE LaunchInv
    OBVIOUS
  <2>0. blocked \in BOOLEAN /\ undercut \in BOOLEAN
    BY Zenon DEF Launch!Init
  <2>1. Launch!TypeOK
    BY <2>0, PartsAssumption
       DEF Launch!Init, Launch!TypeOK, Launch!LauncherEnds, Launch!HostEnds, Launch!LaunchAssumption
  <2> QED
    BY <2>1, PartsAssumption
       DEF Launch!Init, LaunchInv, Undisturbed, LockIsHeld, Locked, StartsOnce, Clears,
           ClearsWhenDown, PublishedBy, OpenedBy, LeftBy, HasControl, Runs,
           Launch!Starting, Launch!LauncherEnds
<1>2. LaunchInv => Launch!HostIsFound
  BY DEF LaunchInv, Undisturbed, PublishedBy, OpenedBy, LeftBy, HasControl, Runs,
         Launch!HostIsFound, Launch!Reachable, Launch!HasRuntime, Launch!HoldsRoot,
         Launch!RuntimeIsReachable, Launch!LeavesNothing, Launch!RuntimeFiles
<1> QED
  BY <1>1, <1>2, LaunchInductive, PTL DEF Launch!Spec

-----------------------------------------------------------------------------
(* The operator's actions.  A process holds the locks it has created until *)
(* it removes them, because a recovery removes the locks of dead processes *)
(* only, and one recovery at a time.  So one execution at a time carries   *)
(* the operation out, and what it has seen of the record, of the effect    *)
(* and of the receipt is still so when it acts on it.                      *)

ConfirmationHeld == {"confLocked", "op", "opLocked", "unlockConf"} \cup Operator!Carrying
OperationHeld == {"opLocked"} \cup Operator!Carrying
Instants == Processes \cup {Operator!None, Operator!Earlier}
Places ==
    [pc : {"idle", "end"} \cup {"conf"} \cup ConfirmationHeld,
     conf : Confirmations \cup {Operator!None}, now : Nat, write : 0 .. 5]
RecovererPlaces ==
    [pc : {"idle", "conf", "op", "removeConf", "removeOp"},
     conf : Confirmations \cup {Operator!None}]

ProcessesTyped ==
    /\ proc \in [Processes -> Places]
    /\ \A p \in Processes : proc[p].pc # "idle" => proc[p].conf \in Confirmations
    /\ time \in Nat

RecoverersTyped ==
    /\ recoverer \in [Recoverers -> RecovererPlaces]
    /\ \A r \in Recoverers : recoverer[r].pc # "idle" => recoverer[r].conf \in Confirmations

LockFiles ==
    [owner : Processes \cup {Operator!None, Operator!Gone}, at : Nat, empty : BOOLEAN]
LocksTyped == locks \in [Operator!Names -> LockFiles]

EffectsTyped ==
    /\ record \in [seq : 0 .. 5, by : Confirmations \cup {Operator!None}, stamp : Instants]
    /\ effect \in [stage : {"none", "begun", "done"}, at : Instants] /\ receipt \in Instants
    /\ storage \in Processes \cup {Operator!None}
    /\ consumed \subseteq Confirmations /\ temps \subseteq Operator!Files
    /\ command \in Commands

ActionsTyped == ProcessesTyped /\ RecoverersTyped /\ LocksTyped /\ EffectsTyped

HoldsItsLocks(p) ==
    /\ proc[p].pc \in ConfirmationHeld => locks[proc[p].conf].owner = p
    /\ proc[p].pc \in OperationHeld => locks[Operator!Op].owner = p

(* What a dead process has left half-written is gone before the next one   *)
(* writes, and what a live one has half-written is its own.                *)
Swept(p) == \A f \in temps :
    /\ proc[p].pc \in {"op", "opLocked"} => f[1] # proc[p].conf
    /\ proc[p].pc \in Operator!Carrying /\ f[1] \in {Operator!Op, proc[p].conf} =>
         proc[p].pc = "rename" /\ f = Operator!File(p)

(* What an execution has seen.                                             *)
ActsOnTheRecord(p) ==
    /\ proc[p].pc \in {"decide", "effect", "finish", "receipt"} =>
         proc[p].conf \in consumed /\ record.by = proc[p].conf /\ record.seq > 0
    /\ proc[p].pc \in {"effect", "finish"} => record.seq = 2
    /\ proc[p].pc = "effect" => Operator!Unexpired(p) /\ (command # "restore" => ~moved)
    /\ proc[p].pc = "finish" => effect.stage # "done"
    /\ proc[p].pc = "receipt" => record.seq = 3

WritesTheNext(p) == proc[p].pc \in {"write", "rename"} =>
    /\ proc[p].write = 0 => record.seq = 0
    /\ proc[p].write > 0 => record.seq = proc[p].write - 1 /\ proc[p].conf \in consumed
    /\ proc[p].write > 1 => record.by = proc[p].conf
    /\ proc[p].write = 3 => effect.stage = "done"
    /\ proc[p].write = 4 => receipt = p

HasTheStorage(p) == command # "restore" /\ proc[p].pc # "idle" => storage = p

Executes(p) ==
    HoldsItsLocks(p) /\ Swept(p) /\ ActsOnTheRecord(p) /\ WritesTheNext(p) /\ HasTheStorage(p)

RemoveTheDead == \A r \in Recoverers :
    /\ recoverer[r].pc = "removeConf" => locks[recoverer[r].conf].owner = Operator!Gone
    /\ recoverer[r].pc = "removeOp" => locks[Operator!Op].owner = Operator!Gone

EffectOnce == runs = IF effect.stage = "done" THEN 1 ELSE 0

OperatorInv ==
    /\ ActionsTyped /\ RemoveTheDead
    /\ \A p \in Processes : Executes(p)
    /\ EffectOnce /\ Operator!LedgerAgrees

OneRecoverer == \A r, s \in Recoverers : r = s

(* A process goes to another step, or ends, and the others stay where they are. *)
LEMMA ProcessSet ==
  ASSUME ProcessesTyped, NEW p \in Processes, NEW x \in Places, proc' = [proc EXCEPT ![p] = x]
  PROVE  /\ proc' \in [Processes -> Places] /\ proc'[p] = x
         /\ \A q \in Processes \ {p} : proc'[q] = proc[q]
BY DEF ProcessesTyped

LEMMA ProcessGoes ==
  ASSUME ProcessesTyped, UNCHANGED time, NEW p \in Processes, proc[p].pc # "idle",
         NEW x \in {"end"} \cup ConfirmationHeld, NEW w \in 0 .. 5,
         \/ Operator!Goto(p, x) /\ w = proc[p].write
         \/ proc' = [proc EXCEPT ![p].pc = x, ![p].write = w]
  PROVE  /\ ProcessesTyped'
         /\ \A q \in Processes \ {p} : proc'[q] = proc[q]
         /\ proc'[p].pc = x /\ proc'[p].write = w
         /\ proc'[p].conf = proc[p].conf /\ proc'[p].now = proc[p].now
<1>1. proc[p] \in Places
  BY DEF ProcessesTyped
<1>2. /\ proc'[p] \in Places /\ proc'[p].pc = x /\ proc'[p].write = w
      /\ proc'[p].conf = proc[p].conf /\ proc'[p].now = proc[p].now
  BY <1>1 DEF ProcessesTyped, Operator!Goto, Places
<1>3. \A q \in Processes \ {p} : proc'[q] = proc[q]
  BY DEF ProcessesTyped, Operator!Goto
<1>4. proc' \in [Processes -> Places]
  BY <1>2 DEF ProcessesTyped, Operator!Goto
<1> QED
  BY <1>2, <1>3, <1>4 DEF ProcessesTyped

LEMMA LockSet ==
  ASSUME LocksTyped, NEW n \in Operator!Names, NEW x \in LockFiles, locks' = [locks EXCEPT ![n] = x]
  PROVE  LocksTyped' /\ locks'[n] = x /\ \A m \in Operator!Names \ {n} : locks'[m] = locks[m]
BY DEF LocksTyped

(* What a step of one execution leaves to the others.                      *)
StaysApart(p) ==
    /\ \A q \in Processes \ {p} : proc'[q] = proc[q]
    /\ \A n \in Operator!Names :
         locks'[n].owner = locks[n].owner \/ locks[n].owner \in {p, Operator!None}
    /\ \A f \in temps' : f \in temps \/ (proc[p].pc \in Operator!Carrying /\ f = Operator!File(p))
    /\ proc[p].pc \notin Operator!Carrying =>
         /\ UNCHANGED <<consumed, moved>>
         /\ record'.seq = record.seq /\ record'.by = record.by /\ effect'.stage = effect.stage
         /\ receipt' = receipt \/ receipt = p
    /\ storage' = storage \/ storage \in {p, Operator!None}
    /\ UNCHANGED <<recoverer, command>>

LEMMA OthersExecute ==
  ASSUME OperatorInv, NEW p \in Processes, NEW q \in Processes \ {p}, StaysApart(p)
  PROVE  Executes(q)'
<1>1. HoldsItsLocks(q)'
  BY PartsAssumption
     DEF OperatorInv, Executes, HoldsItsLocks, StaysApart, Operator!OperatorAssumption,
         Operator!None, Operator!Names, ActionsTyped, ProcessesTyped, ConfirmationHeld,
         OperationHeld, Operator!Carrying
<1>2. proc[q].pc \in Operator!Carrying => proc[p].pc \notin Operator!Carrying
  BY DEF OperatorInv, Executes, HoldsItsLocks, OperationHeld
<1>3. Swept(q)'
  <2> SUFFICES ASSUME NEW f \in temps'
               PROVE  /\ proc[q].pc \in {"op", "opLocked"} => f[1] # proc[q].conf
                      /\ proc[q].pc \in Operator!Carrying /\ f[1] \in {Operator!Op, proc[q].conf} =>
                           proc[q].pc = "rename" /\ f = Operator!File(q)
    BY DEF Swept, StaysApart, Operator!File
  <2>1. CASE f \in temps
    BY <2>1 DEF OperatorInv, Executes, Swept
  <2>2. CASE proc[p].pc \in Operator!Carrying /\ f = Operator!File(p)
    <3>1. f[1] \in {proc[p].conf, Operator!Op} /\ proc[q].pc \notin Operator!Carrying
      BY <2>2, <1>2 DEF Operator!File
    <3>2. proc[q].pc \in {"op", "opLocked"} => proc[p].conf # proc[q].conf
      BY <2>2 DEF OperatorInv, Executes, HoldsItsLocks, ConfirmationHeld
    <3>3. proc[q].pc \in {"op", "opLocked"} => Operator!Op # proc[q].conf
      BY PartsAssumption DEF OperatorInv, ActionsTyped, ProcessesTyped, Operator!OperatorAssumption, Operator!Op
    <3> QED
      BY <3>1, <3>2, <3>3
  <2> QED
    BY <2>1, <2>2 DEF StaysApart
<1>4. ActsOnTheRecord(q)' /\ WritesTheNext(q)'
  <2>1. CASE proc[q].pc \in Operator!Carrying
    BY <2>1, <1>2 DEF StaysApart, OperatorInv, Executes, ActsOnTheRecord, WritesTheNext, Operator!Unexpired, Operator!Valid
  <2>2. CASE proc[q].pc \notin Operator!Carrying
    BY <2>2 DEF StaysApart, ActsOnTheRecord, WritesTheNext, Operator!Carrying
  <2> QED
    BY <2>1, <2>2
<1>5. HasTheStorage(q)'
  BY PartsAssumption
     DEF StaysApart, OperatorInv, Executes, HasTheStorage, Operator!OperatorAssumption, Operator!None
<1> QED
  BY <1>1, <1>3, <1>4, <1>5 DEF Executes

(* What each step of an execution keeps of its own part.                   *)
StepsAlone(p) ==
    /\ ActionsTyped' /\ Executes(p)' /\ StaysApart(p)
    /\ EffectOnce' /\ Operator!LedgerAgrees'

LEMMA StartsAlone ==
  ASSUME OperatorInv, NEW p \in Processes, NEW c \in Confirmations, Operator!Start(p, c)
  PROVE  StepsAlone(p)
<1> DEFINE x == [pc |-> "conf", conf |-> c, now |-> time, write |-> 0]
<1>a. time \in Nat
  BY DEF OperatorInv, ActionsTyped, ProcessesTyped
<1>b. x \in Places
  BY <1>a DEF Places, Operator!None
<1>0. proc' = [proc EXCEPT ![p] = x] /\ x \in Places
  BY <1>b DEF Operator!Start
<1>1. proc' \in [Processes -> Places] /\ proc'[p] = x /\ \A q \in Processes \ {p} : proc'[q] = proc[q]
  BY <1>0, ProcessSet DEF OperatorInv, ActionsTyped
<1>2. /\ UNCHANGED <<locks, temps, consumed, record, effect, receipt, moved, runs,
                     command, recoverer, time>>
      /\ (storage' = storage \/ storage = Operator!None) /\ (command # "restore" => storage' = p)
      /\ storage' \in Processes \cup {Operator!None}
  BY DEF Operator!Start, Operator!ledgerVars, Operator!worldVars, Operator!elseVars, OperatorInv,
         ActionsTyped, EffectsTyped
<1>4. ActionsTyped'
  BY <1>1, <1>2
     DEF OperatorInv, ActionsTyped, ProcessesTyped, RecoverersTyped, LocksTyped, EffectsTyped, Places
<1>5. Executes(p)'
  BY <1>1, <1>2 DEF Executes, HoldsItsLocks, Swept, ActsOnTheRecord, WritesTheNext, HasTheStorage,
     ConfirmationHeld, OperationHeld, Operator!Carrying
<1> HIDE DEF x
<1>6. StaysApart(p)
  BY <1>1, <1>2 DEF StaysApart
<1> QED
  BY <1>2, <1>4, <1>5, <1>6 DEF StepsAlone, OperatorInv, EffectOnce, Operator!LedgerAgrees

(* An execution that ends: what it leaves is nobody's.                     *)
LEMMA EndsAlone ==
  ASSUME OperatorInv, NEW p \in Processes, Operator!Ended(p),
         UNCHANGED <<temps, consumed, moved, runs, command, recoverer, time>>
  PROVE  StepsAlone(p)
<1>a. Operator!Idle \in Places
  BY DEF Operator!Idle, Places, Operator!None
<1>0. proc' = [proc EXCEPT ![p] = Operator!Idle] /\ Operator!Idle \in Places
  BY <1>a DEF Operator!Ended
<1>1. /\ proc' \in [Processes -> Places] /\ proc'[p] = Operator!Idle
      /\ \A q \in Processes \ {p} : proc'[q] = proc[q]
  BY <1>0, ProcessSet DEF OperatorInv, ActionsTyped
<1>2. /\ receipt' \in Instants /\ receipt' = Operator!Past(receipt, p)
      /\ effect' \in [stage : {"none", "begun", "done"}, at : Instants] /\ effect'.stage = effect.stage
  BY DEF Operator!Ended, OperatorInv, ActionsTyped, EffectsTyped, Operator!Past, Instants
<1>3. /\ record' \in [seq : 0 .. 5, by : Confirmations \cup {Operator!None}, stamp : Instants]
      /\ record'.seq = record.seq /\ record'.by = record.by
      /\ record'.stamp = Operator!Past(record.stamp, p)
  BY DEF Operator!Ended, OperatorInv, ActionsTyped, EffectsTyped, Operator!Past, Instants
<1>4. ASSUME NEW n \in Operator!Names
      PROVE  /\ locks'[n] \in LockFiles
             /\ locks'[n].owner = locks[n].owner \/ locks[n].owner = p
  BY DEF Operator!Ended, OperatorInv, ActionsTyped, LocksTyped, LockFiles
<1>5. LocksTyped'
  BY <1>4 DEF LocksTyped, Operator!Ended
<1>6. storage' \in Processes \cup {Operator!None} /\ (storage' = storage \/ storage = p)
  BY DEF Operator!Ended, OperatorInv, ActionsTyped, EffectsTyped
<1>7. ActionsTyped'
  BY <1>1, <1>2, <1>3, <1>5, <1>6
     DEF OperatorInv, ActionsTyped, ProcessesTyped, RecoverersTyped, EffectsTyped, Operator!Idle, Places
<1>8. Executes(p)'
  BY <1>1 DEF Executes, HoldsItsLocks, Swept, ActsOnTheRecord, WritesTheNext, HasTheStorage,
     ConfirmationHeld, OperationHeld, Operator!Carrying, Operator!Idle
<1>9. StaysApart(p)
  <2>1. receipt' = receipt \/ receipt = p
    BY <1>2 DEF Operator!Past
  <2>2. \A n \in Operator!Names : locks'[n].owner = locks[n].owner \/ locks[n].owner \in {p, Operator!None}
    BY <1>4
  <2> QED
    BY <1>1, <1>2, <1>3, <1>6, <2>1, <2>2 DEF StaysApart
<1>10. EffectOnce' /\ Operator!LedgerAgrees'
  BY <1>2, <1>3, PartsAssumption
     DEF OperatorInv, EffectOnce, Operator!LedgerAgrees, Operator!Past, Operator!OperatorAssumption,
         Operator!None
<1> QED
  BY <1>7, <1>8, <1>9, <1>10 DEF StepsAlone

(* The steps that touch nothing but the locks and what is half-written.    *)
LockStep(p, x, n, v) ==
    /\ x \in {"end"} \cup ConfirmationHeld /\ Operator!Goto(p, x)
    /\ v \in LockFiles /\ locks' = [locks EXCEPT ![n] = v]
    /\ locks[n].owner \in {p, Operator!None}
    /\ \/ n = proc[p].conf /\ (x = "end" \/ (x \in {"confLocked", "op"} /\ v.owner = p))
       \/ /\ n = Operator!Op /\ locks[proc[p].conf].owner = p
          /\ x = "unlockConf" \/ (x \in {"opLocked", "check"} /\ v.owner = p)
    /\ temps' \subseteq temps
    /\ x \in {"op", "opLocked", "check"} => \A f \in temps' : f[1] # proc[p].conf
    /\ x = "check" => \A f \in temps' : f[1] # Operator!Op
    /\ UNCHANGED <<consumed, record, storage, effect, receipt, moved, runs, command, recoverer, time>>

LEMMA LocksAlone ==
  ASSUME OperatorInv, NEW p \in Processes, proc[p].pc # "idle", proc[p].conf \in Confirmations,
         NEW x, NEW n, NEW v, LockStep(p, x, n, v)
  PROVE  StepsAlone(p)
<1>0. n \in Operator!Names /\ proc[p].write \in 0 .. 5 /\ Operator!Op # proc[p].conf
  BY PartsAssumption
     DEF LockStep, OperatorInv, ActionsTyped, ProcessesTyped, Places, Operator!Names, Operator!Op,
         Operator!OperatorAssumption
<1>1. /\ ProcessesTyped'
      /\ \A q \in Processes \ {p} : proc'[q] = proc[q]
      /\ proc'[p].pc = x /\ proc'[p].write = proc[p].write
      /\ proc'[p].conf = proc[p].conf /\ proc'[p].now = proc[p].now
  BY <1>0, ProcessGoes DEF LockStep, OperatorInv, ActionsTyped
<1>2. LocksTyped' /\ locks'[n] = v /\ \A m \in Operator!Names \ {n} : locks'[m] = locks[m]
  BY <1>0, LockSet DEF LockStep, OperatorInv, ActionsTyped
<1>3. ActionsTyped'
  BY <1>1, <1>2 DEF LockStep, OperatorInv, ActionsTyped, RecoverersTyped, EffectsTyped
<1>4. HoldsItsLocks(p)'
  <2>0. x \in ConfirmationHeld => proc[p].conf \in Operator!Names
    BY DEF LockStep, Operator!Names
  <2>1. CASE n = proc[p].conf /\ x = "end"
    BY <2>1, <1>1 DEF LockStep, HoldsItsLocks, ConfirmationHeld, OperationHeld, Operator!Carrying
  <2>2. CASE n = proc[p].conf /\ x \in {"confLocked", "op"} /\ v.owner = p
    BY <2>2, <1>1, <1>2 DEF LockStep, HoldsItsLocks, ConfirmationHeld, OperationHeld, Operator!Carrying
  <2>3. CASE n = Operator!Op /\ locks[proc[p].conf].owner = p /\ x = "unlockConf"
    BY <2>0, <2>3, <1>0, <1>1, <1>2 DEF LockStep, HoldsItsLocks, ConfirmationHeld, OperationHeld, Operator!Carrying
  <2>4. CASE n = Operator!Op /\ locks[proc[p].conf].owner = p /\ x \in {"opLocked", "check"} /\ v.owner = p
    BY <2>0, <2>4, <1>0, <1>1, <1>2 DEF LockStep, HoldsItsLocks, ConfirmationHeld, OperationHeld, Operator!Carrying
  <2> QED
    BY <2>1, <2>2, <2>3, <2>4 DEF LockStep
<1>5. Executes(p)'
  BY <1>1, <1>4 DEF LockStep, OperatorInv, Executes, Swept, ActsOnTheRecord, WritesTheNext, HasTheStorage,
     Operator!Carrying
<1>6. StaysApart(p)
  BY <1>1, <1>2 DEF LockStep, StaysApart
<1> QED
  BY <1>3, <1>5, <1>6 DEF LockStep, StepsAlone, OperatorInv, EffectOnce, Operator!LedgerAgrees

LEMMA LocksAndUnlocks ==
  ASSUME OperatorInv, NEW p \in Processes,
         \/ Operator!LockConfirmation(p) \/ Operator!NameConfirmation(p)
         \/ Operator!LockOperation(p) \/ Operator!NameOperation(p)
         \/ Operator!UnlockOperation(p) \/ Operator!UnlockConfirmation(p)
  PROVE  StepsAlone(p)
<1> DEFINE c == proc[p].conf
           taken == [owner |-> p, at |-> time, empty |-> TRUE]
           named(n) == [locks[n] EXCEPT !.empty = FALSE]
<1>0. proc[p].pc # "idle" /\ c \in Confirmations
  BY DEF Operator!LockConfirmation, Operator!NameConfirmation, Operator!LockOperation,
     Operator!NameOperation, Operator!UnlockOperation, Operator!UnlockConfirmation, Operator!At,
     OperatorInv, ActionsTyped, ProcessesTyped
<1>1. /\ taken \in LockFiles /\ Operator!NoLock \in LockFiles
      /\ \A n \in Operator!Names : named(n) \in LockFiles /\ named(n).owner = locks[n].owner
      /\ c \in Operator!Names /\ Operator!Op \in Operator!Names
  BY <1>0 DEF OperatorInv, ActionsTyped, ProcessesTyped, LocksTyped, LockFiles, Operator!NoLock,
     Operator!Names
<1>2. /\ proc[p].pc \in ConfirmationHeld => locks[c].owner = p
      /\ proc[p].pc \in OperationHeld => locks[Operator!Op].owner = p
      /\ proc[p].pc \in {"op", "opLocked"} => \A f \in temps : f[1] # c
  BY DEF OperatorInv, Executes, HoldsItsLocks, Swept
<1> DEFINE rest == UNCHANGED <<consumed, record, storage, effect, receipt, moved, runs, command,
                               recoverer, time>>
<1> HIDE DEF taken, named
<1>3. CASE Operator!LockConfirmation(p)
  <2>1. CASE Operator!Ended(p)
    BY <1>3, <2>1, EndsAlone DEF Operator!LockConfirmation, Operator!elseVars
  <2>2. CASE ~Operator!Ended(p)
    <3>1. /\ locks[c] = Operator!NoLock /\ Operator!Goto(p, "confLocked")
          /\ locks' = [locks EXCEPT ![c] = taken] /\ rest /\ UNCHANGED temps
      BY <1>3, <2>2 DEF Operator!LockConfirmation, Operator!elseVars, taken
    <3>2. locks[c].owner = Operator!None /\ taken.owner = p
      BY <3>1 DEF Operator!NoLock, taken
    <3>9. LockStep(p, "confLocked", c, taken)
      BY <1>0, <1>1, <3>1, <3>2 DEF LockStep, ConfirmationHeld
    <3> QED
      BY <1>0, <3>9, LocksAlone
  <2> QED
    BY <2>1, <2>2
<1>4. CASE Operator!NameConfirmation(p)
  <2>1. /\ Operator!Goto(p, "op") /\ locks' = [locks EXCEPT ![c] = named(c)] /\ rest
        /\ temps' = Operator!Kept(c) /\ locks[c].owner = p
    BY <1>2, <1>4 DEF Operator!NameConfirmation, Operator!elseVars, Operator!worldVars, Operator!At,
       ConfirmationHeld, named
  <2>9. LockStep(p, "op", c, named(c))
    BY <1>0, <1>1, <2>1 DEF LockStep, ConfirmationHeld, Operator!Kept
  <2> QED
    BY <1>0, <2>9, LocksAlone
<1>5. CASE Operator!LockOperation(p)
  <2>1. CASE Operator!Ended(p)
    BY <1>5, <2>1, EndsAlone DEF Operator!LockOperation, Operator!elseVars
  <2>2. CASE ~Operator!Ended(p)
    <3>1. /\ locks[Operator!Op] = Operator!NoLock /\ Operator!Goto(p, "opLocked")
          /\ locks' = [locks EXCEPT ![Operator!Op] = taken] /\ rest /\ UNCHANGED temps
          /\ proc[p].pc = "op"
      BY <1>5, <2>2 DEF Operator!LockOperation, Operator!elseVars, Operator!At, taken
    <3>2. locks[Operator!Op].owner = Operator!None /\ taken.owner = p /\ locks[c].owner = p
      BY <1>2, <3>1 DEF Operator!NoLock, ConfirmationHeld, taken
    <3>9. LockStep(p, "opLocked", Operator!Op, taken)
      BY <1>0, <1>1, <1>2, <3>1, <3>2 DEF LockStep, ConfirmationHeld, Operator!Carrying
    <3> QED
      BY <1>0, <3>9, LocksAlone
  <2> QED
    BY <2>1, <2>2
<1>6. CASE Operator!NameOperation(p)
  <2>1. /\ Operator!Goto(p, "check") /\ rest /\ temps' = Operator!Kept(Operator!Op)
        /\ locks' = [locks EXCEPT ![Operator!Op] = named(Operator!Op)] /\ proc[p].pc = "opLocked"
    BY <1>6 DEF Operator!NameOperation, Operator!elseVars, Operator!worldVars, Operator!At, named
  <2>2. locks[Operator!Op].owner = p /\ locks[c].owner = p
    BY <1>2, <2>1 DEF ConfirmationHeld, OperationHeld
  <2>9. LockStep(p, "check", Operator!Op, named(Operator!Op))
    BY <1>0, <1>1, <1>2, <2>1, <2>2 DEF LockStep, ConfirmationHeld, Operator!Carrying, Operator!Kept
  <2> QED
    BY <1>0, <2>9, LocksAlone
<1>7. CASE Operator!UnlockOperation(p)
  <2>1. /\ Operator!Goto(p, "unlockConf") /\ rest /\ UNCHANGED temps
        /\ locks' = [locks EXCEPT ![Operator!Op] = Operator!NoLock] /\ proc[p].pc = "unlockOp"
    BY <1>7 DEF Operator!UnlockOperation, Operator!elseVars, Operator!worldVars, Operator!At
  <2>2. locks[Operator!Op].owner = p /\ locks[c].owner = p
    BY <1>2, <2>1 DEF ConfirmationHeld, OperationHeld, Operator!Carrying
  <2>9. LockStep(p, "unlockConf", Operator!Op, Operator!NoLock)
    BY <1>0, <1>1, <2>1, <2>2 DEF LockStep, ConfirmationHeld
  <2> QED
    BY <1>0, <2>9, LocksAlone
<1>8. CASE Operator!UnlockConfirmation(p)
  <2>1. /\ Operator!Goto(p, "end") /\ rest /\ UNCHANGED temps
        /\ locks' = [locks EXCEPT ![c] = Operator!NoLock] /\ proc[p].pc = "unlockConf"
    BY <1>8 DEF Operator!UnlockConfirmation, Operator!elseVars, Operator!worldVars, Operator!At
  <2>2. locks[c].owner = p
    BY <1>2, <2>1 DEF ConfirmationHeld
  <2>9. LockStep(p, "end", c, Operator!NoLock)
    BY <1>0, <1>1, <2>1, <2>2 DEF LockStep, ConfirmationHeld
  <2> QED
    BY <1>0, <2>9, LocksAlone
<1> QED
  BY <1>3, <1>4, <1>5, <1>6, <1>7, <1>8

(* The steps of the execution that carries the operation out.              *)
CarriesOn(p, x, w) ==
    /\ proc[p].pc \in Operator!Carrying /\ x \in Operator!Carrying /\ w \in 0 .. 5
    /\ \/ Operator!Goto(p, x) /\ w = proc[p].write
       \/ proc' = [proc EXCEPT ![p].pc = x, ![p].write = w]
    /\ UNCHANGED <<locks, storage, moved, command, recoverer, time>>

LEMMA CarryingGoes ==
  ASSUME OperatorInv, NEW p \in Processes, NEW x, NEW w, CarriesOn(p, x, w)
  PROVE  /\ proc[p].conf \in Confirmations /\ ProcessesTyped'
         /\ proc'[p].pc = x /\ proc'[p].write = w
         /\ proc'[p].conf = proc[p].conf /\ proc'[p].now = proc[p].now
         /\ \A q \in Processes \ {p} : proc'[q] = proc[q]
<1>1. /\ ProcessesTyped /\ UNCHANGED time /\ proc[p].pc # "idle"
      /\ x \in {"end"} \cup ConfirmationHeld /\ w \in 0 .. 5
  BY DEF OperatorInv, ActionsTyped, CarriesOn, ConfirmationHeld, Operator!Carrying
<1>2. \/ Operator!Goto(p, x) /\ w = proc[p].write
      \/ proc' = [proc EXCEPT ![p].pc = x, ![p].write = w]
  BY DEF CarriesOn
<1>3. proc[p].conf \in Confirmations
  BY <1>1 DEF ProcessesTyped
<1> QED
  BY <1>1, <1>2, <1>3, ProcessGoes

LEMMA CarriesOnAlone ==
  ASSUME OperatorInv, NEW p \in Processes, NEW x, NEW w, CarriesOn(p, x, w), EffectsTyped',
         \A f \in temps' : f \in temps \/ f = Operator!File(p),
         \A f \in temps' : f[1] \in {Operator!Op, proc[p].conf} =>
            x = "rename" /\ w = proc[p].write /\ f = Operator!File(p),
         ActsOnTheRecord(p)', WritesTheNext(p)', EffectOnce', Operator!LedgerAgrees'
  PROVE  StepsAlone(p)
<1>1. /\ proc'[p].pc = x /\ proc'[p].write = w /\ ProcessesTyped'
      /\ proc'[p].conf = proc[p].conf /\ proc'[p].now = proc[p].now
      /\ \A q \in Processes \ {p} : proc'[q] = proc[q]
  BY CarryingGoes
<1>2. ActionsTyped'
  BY <1>1 DEF CarriesOn, OperatorInv, ActionsTyped, RecoverersTyped, LocksTyped
<1>3. HoldsItsLocks(p)' /\ HasTheStorage(p)'
  BY <1>1 DEF CarriesOn, OperatorInv, Executes, HoldsItsLocks, HasTheStorage, ConfirmationHeld,
     OperationHeld, Operator!Carrying
<1>4. Swept(p)'
  <2>1. w = proc[p].write => Operator!File(p)' = Operator!File(p)
    BY <1>1 DEF Operator!File
  <2>2. proc'[p].pc \in Operator!Carrying /\ proc'[p].pc \notin {"op", "opLocked"}
    BY <1>1 DEF CarriesOn, Operator!Carrying
  <2> QED
    BY <1>1, <2>1, <2>2 DEF Swept
<1>5. StaysApart(p)
  BY <1>1 DEF CarriesOn, StaysApart
<1> QED
  BY <1>2, <1>3, <1>4, <1>5 DEF StepsAlone, Executes

(* ... of which those that write nothing leave the records as they are.    *)
LEMMA SweptAlready ==
  ASSUME OperatorInv, NEW p \in Processes, proc[p].pc \in Operator!Carrying \ {"rename"}
  PROVE  \A f \in temps : f[1] \notin {Operator!Op, proc[p].conf}
BY DEF OperatorInv, Executes, Swept

LEMMA ChecksAlone ==
  ASSUME OperatorInv, NEW p \in Processes, Operator!Check(p)
  PROVE  StepsAlone(p)
<1> DEFINE c == proc[p].conf
<1>1. /\ UNCHANGED <<locks, storage, moved, command, recoverer, time>>
      /\ UNCHANGED <<temps, consumed, record, effect, receipt, runs>> /\ proc[p].pc = "check"
      /\ proc[p].write \in 0 .. 5 /\ proc[p].pc \in Operator!Carrying \ {"rename"}
      /\ record.seq \in 0 .. 5 /\ proc[p].conf \in Confirmations
  BY DEF Operator!Check, Operator!At, Operator!ledgerVars, Operator!worldVars, Operator!elseVars,
     Operator!Carrying, OperatorInv, ActionsTyped, ProcessesTyped, EffectsTyped, Places
<1>2. \/ CarriesOn(p, "unlockOp", proc[p].write)
      \/ CarriesOn(p, "write", 0) /\ record.seq = 0
      \/ CarriesOn(p, "write", 1) /\ record.seq = 0 /\ c \in consumed
      \/ CarriesOn(p, "decide", proc[p].write) /\ record.seq > 0 /\ record.by = c /\ c \in consumed
  BY <1>1 DEF Operator!Check, Operator!Admissible, Operator!Writing, Operator!Binding, CarriesOn,
     Operator!Carrying
<1>3. ASSUME NEW x, NEW w, CarriesOn(p, x, w),
             \/ x = "unlockOp"
             \/ x = "write" /\ w = 0 /\ record.seq = 0
             \/ x = "write" /\ w = 1 /\ record.seq = 0 /\ c \in consumed
             \/ x = "decide" /\ record.seq > 0 /\ record.by = c /\ c \in consumed
      PROVE  StepsAlone(p)
  <2>1. proc'[p].pc = x /\ proc'[p].write = w /\ proc'[p].conf = c /\ proc'[p].now = proc[p].now
    BY <1>3, CarryingGoes
  <2>2. EffectsTyped' /\ EffectOnce' /\ Operator!LedgerAgrees'
    BY <1>1 DEF OperatorInv, ActionsTyped, EffectsTyped, EffectOnce, Operator!LedgerAgrees
  <2>3. ActsOnTheRecord(p)' /\ WritesTheNext(p)'
    BY <1>1, <1>3, <2>1 DEF ActsOnTheRecord, WritesTheNext
  <2>4. \A f \in temps' : f \in temps /\ f[1] \notin {Operator!Op, c}
    BY <1>1, SweptAlready
  <2> QED
    BY <1>3, <2>2, <2>3, <2>4, CarriesOnAlone
<1> QED
  BY <1>2, <1>3

LEMMA DecidesAlone ==
  ASSUME OperatorInv, NEW p \in Processes, Operator!Decide(p)
  PROVE  StepsAlone(p)
<1> DEFINE c == proc[p].conf
           may == Operator!Unexpired(p) /\ ~moved
<1>1. /\ UNCHANGED <<locks, storage, moved, command, recoverer, time>>
      /\ UNCHANGED <<temps, consumed, record, effect, receipt, runs>> /\ proc[p].pc = "decide"
      /\ proc[p].write \in 0 .. 5 /\ proc[p].pc \in Operator!Carrying \ {"rename"}
      /\ proc[p].conf \in Confirmations
      /\ c \in consumed /\ record.by = c /\ record.seq > 0
  BY DEF Operator!Decide, Operator!At, Operator!ledgerVars, Operator!worldVars, Operator!elseVars,
     Operator!Carrying, OperatorInv, ActionsTyped, ProcessesTyped, Places, Executes, ActsOnTheRecord
<1>2. \/ CarriesOn(p, "unlockOp", proc[p].write)
      \/ CarriesOn(p, "write", 2) /\ record.seq = 1
      \/ CarriesOn(p, "write", 3) /\ record.seq = 2 /\ effect.stage = "done"
      \/ CarriesOn(p, "write", 5) /\ record.seq = 4
      \/ CarriesOn(p, "effect", proc[p].write) /\ record.seq = 2 /\ may
      \/ CarriesOn(p, "receipt", proc[p].write) /\ record.seq = 3
  BY <1>1 DEF Operator!Decide, Operator!MayAct, Operator!Current, Operator!Reconciled,
     Operator!Writing, CarriesOn, Operator!Carrying
<1>3. ASSUME NEW x, NEW w, CarriesOn(p, x, w),
             \/ x = "unlockOp"
             \/ x = "write" /\ w \in {2, 5} /\ record.seq = w - 1
             \/ x = "write" /\ w = 3 /\ record.seq = 2 /\ effect.stage = "done"
             \/ x = "effect" /\ record.seq = 2 /\ may
             \/ x = "receipt" /\ record.seq = 3
      PROVE  StepsAlone(p)
  <2>1. proc'[p].pc = x /\ proc'[p].write = w /\ proc'[p].conf = c /\ proc'[p].now = proc[p].now
    BY <1>3, CarryingGoes
  <2>2. EffectsTyped' /\ EffectOnce' /\ Operator!LedgerAgrees'
    BY <1>1 DEF OperatorInv, ActionsTyped, EffectsTyped, EffectOnce, Operator!LedgerAgrees
  <2>3. ActsOnTheRecord(p)'
    BY <1>1, <1>3, <2>1 DEF ActsOnTheRecord, Operator!Unexpired
  <2>4. WritesTheNext(p)'
    BY <1>1, <1>3, <2>1 DEF WritesTheNext
  <2>5. \A f \in temps' : f \in temps /\ f[1] \notin {Operator!Op, c}
    BY <1>1, SweptAlready
  <2> QED
    BY <1>3, <2>2, <2>3, <2>4, <2>5, CarriesOnAlone
<1> QED
  BY <1>2, <1>3

LEMMA PreparesAlone ==
  ASSUME OperatorInv, NEW p \in Processes, Operator!Prepare(p)
  PROVE  StepsAlone(p)
<1> DEFINE w == proc[p].write
<1>1. /\ UNCHANGED <<locks, storage, moved, command, recoverer, time>>
      /\ UNCHANGED <<consumed, record, effect, receipt, runs>> /\ proc[p].pc = "write"
      /\ w \in 0 .. 5 /\ proc[p].pc \in Operator!Carrying \ {"rename"}
      /\ proc[p].conf \in Confirmations
      /\ temps' = temps \cup {Operator!File(p)} /\ temps \subseteq Operator!Files
  BY DEF Operator!Prepare, Operator!At, Operator!worldVars, Operator!elseVars,
     Operator!Carrying, OperatorInv, ActionsTyped, ProcessesTyped, EffectsTyped, Places
<1>2. Operator!File(p)[1] \in {Operator!Op, proc[p].conf} /\ Operator!File(p) \in Operator!Files
  BY <1>1 DEF Operator!File, Operator!Files, Operator!Binding
<1>3. \A f \in temps : f[1] \notin {Operator!Op, proc[p].conf}
  BY <1>1, SweptAlready
<1>4. CarriesOn(p, "rename", w)
  BY <1>1, <1>2, <1>3 DEF Operator!Prepare, CarriesOn, Operator!Carrying
<1>5. /\ proc'[p].pc = "rename" /\ proc'[p].write = w
      /\ proc'[p].conf = proc[p].conf /\ proc'[p].now = proc[p].now
  BY <1>4, CarryingGoes
<1>6. EffectsTyped' /\ EffectOnce' /\ Operator!LedgerAgrees'
  BY <1>1, <1>2
     DEF OperatorInv, ActionsTyped, EffectsTyped, EffectOnce, Operator!LedgerAgrees
<1>7. ActsOnTheRecord(p)' /\ WritesTheNext(p)'
  BY <1>1, <1>5 DEF ActsOnTheRecord, WritesTheNext, OperatorInv, Executes
<1> HIDE DEF w
<1>8. \A f \in temps' : (f \in temps \/ f = Operator!File(p))
        /\ (f[1] \in {Operator!Op, proc[p].conf} => f = Operator!File(p))
  BY <1>1, <1>3
<1> QED
  BY <1>4, <1>6, <1>7, <1>8, CarriesOnAlone DEF w

LEMMA RenamesAlone ==
  ASSUME OperatorInv, NEW p \in Processes, Operator!Rename(p)
  PROVE  StepsAlone(p)
<1> DEFINE w == proc[p].write
           c == proc[p].conf
<1>1. /\ UNCHANGED <<locks, storage, moved, command, recoverer, time>>
      /\ UNCHANGED <<effect, receipt, runs>> /\ proc[p].pc = "rename"
      /\ w \in 0 .. 5 /\ proc[p].pc \in Operator!Carrying
      /\ c \in Confirmations /\ temps' = temps \ {Operator!File(p)}
  BY DEF Operator!Rename, Operator!At, Operator!worldVars, Operator!elseVars,
     Operator!Carrying, OperatorInv, ActionsTyped, ProcessesTyped, Places
<1>2. \A f \in temps' : f \in temps /\ f[1] \notin {Operator!Op, c}
  BY <1>1 DEF OperatorInv, Executes, Swept
<1>3. /\ w = 0 => record.seq = 0
      /\ w > 0 => record.seq = w - 1 /\ c \in consumed
      /\ w > 1 => record.by = c
      /\ w = 3 => effect.stage = "done"
      /\ w = 4 => receipt = p
  BY <1>1 DEF OperatorInv, Executes, WritesTheNext
<1>4. CASE w = 0
  <2>1. CarriesOn(p, "write", 1) /\ consumed' = consumed \cup {c} /\ UNCHANGED record
    BY <1>1, <1>4 DEF Operator!Rename, Operator!Writing, Operator!Binding, CarriesOn, Operator!Carrying
  <2>2. proc'[p].pc = "write" /\ proc'[p].write = 1 /\ proc'[p].conf = c
    BY <2>1, CarryingGoes
  <2>3. EffectsTyped' /\ EffectOnce' /\ Operator!LedgerAgrees'
    BY <1>1, <2>1 DEF OperatorInv, ActionsTyped, EffectsTyped, EffectOnce, Operator!LedgerAgrees
  <2>4. ActsOnTheRecord(p)' /\ WritesTheNext(p)'
    BY <1>3, <1>4, <2>1, <2>2 DEF ActsOnTheRecord, WritesTheNext
  <2> QED
    BY <1>2, <2>1, <2>3, <2>4, CarriesOnAlone
<1>5. CASE w > 0
  <2> DEFINE stamp == IF w = 4 THEN p ELSE record.stamp
  <2>1. /\ CarriesOn(p, "decide", w) /\ UNCHANGED consumed
        /\ record' = [seq |-> w, by |-> c, stamp |-> stamp]
    BY <1>1, <1>5 DEF Operator!Rename, Operator!Binding, CarriesOn, Operator!Carrying
  <2>2. /\ proc'[p].pc = "decide" /\ proc'[p].conf = c
    BY <2>1, CarryingGoes
  <2>3. record'.seq = w /\ record'.by = c /\ record'.stamp = stamp
    BY <2>1
  <2>4. stamp \in Instants
    BY DEF OperatorInv, ActionsTyped, EffectsTyped, Instants
  <2>5. /\ w <= 4 => record.seq = w - 1
        /\ w = 5 => record.seq = 4
    BY <1>3, <1>5
  <2> HIDE DEF stamp
  <2>6. EffectsTyped'
    BY <1>1, <2>1, <2>4 DEF OperatorInv, ActionsTyped, EffectsTyped
  <2>7. EffectOnce'
    BY <1>1 DEF OperatorInv, EffectOnce
  <2>8. Operator!LedgerAgrees'
    BY <1>1, <1>3, <1>5, <2>1, <2>3, <2>5 DEF stamp, OperatorInv, Operator!LedgerAgrees
  <2>9. ActsOnTheRecord(p)' /\ WritesTheNext(p)'
    BY <1>3, <1>5, <2>1, <2>2, <2>3 DEF ActsOnTheRecord, WritesTheNext
  <2> QED
    BY <1>2, <2>1, <2>6, <2>7, <2>8, <2>9, CarriesOnAlone
<1> QED
  BY <1>1, <1>4, <1>5

(* The effect, its receipt, and the answers that are lost.                 *)
EffectStep(p) == Operator!Begin(p) \/ Operator!Finish(p) \/ Operator!RecordReceipt(p)
                 \/ Operator!Refused(p) \/ Operator!Lost(p)

LEMMA EffectsAlone ==
  ASSUME OperatorInv, NEW p \in Processes, EffectStep(p)
  PROVE  StepsAlone(p)
<1> DEFINE c == proc[p].conf
<1>1. /\ UNCHANGED <<locks, storage, moved, command, recoverer, time>>
      /\ UNCHANGED <<temps, consumed, record>> /\ proc[p].pc \in {"effect", "finish", "receipt"}
  BY DEF EffectStep, Operator!Begin, Operator!Finish, Operator!RecordReceipt, Operator!Refused,
     Operator!Lost, Operator!At, Operator!ledgerVars, Operator!worldVars, Operator!elseVars
<1>2. proc[p].pc \in Operator!Carrying \ {"rename"} /\ c \in Confirmations /\ proc[p].write \in 0 .. 5
  BY <1>1 DEF OperatorInv, ActionsTyped, ProcessesTyped, Places, Operator!Carrying
<1>3. c \in consumed /\ record.by = c /\ record.seq > 0
  BY <1>1 DEF OperatorInv, Executes, ActsOnTheRecord
<1>4. \A f \in temps' : f \in temps /\ f[1] \notin {Operator!Op, c}
  BY <1>1, <1>2, SweptAlready
<1>5. ASSUME NEW x, NEW w, CarriesOn(p, x, w), EffectsTyped', EffectOnce', Operator!LedgerAgrees',
             \/ x = "unlockOp"
             \/ x = "finish" /\ record.seq = 2 /\ effect'.stage # "done"
             \/ x = "write" /\ w = 3 /\ record.seq = 2 /\ effect'.stage = "done"
             \/ x = "write" /\ w = 4 /\ record.seq = 3 /\ receipt' = p
      PROVE  StepsAlone(p)
  <2>1. proc'[p].pc = x /\ proc'[p].write = w /\ proc'[p].conf = c /\ proc'[p].now = proc[p].now
    BY <1>5, CarryingGoes
  <2>2. ActsOnTheRecord(p)' /\ WritesTheNext(p)'
    BY <1>1, <1>3, <1>5, <2>1 DEF ActsOnTheRecord, WritesTheNext
  <2> QED
    BY <1>4, <1>5, <2>2, CarriesOnAlone
<1>6. CASE Operator!Begin(p)
  <2>1. UNCHANGED <<receipt, runs>> /\ record.seq = 2 /\ effect.stage # "done"
    BY <1>6 DEF Operator!Begin, Operator!At, OperatorInv, Executes, ActsOnTheRecord
  <2>2. /\ effect' \in [stage : {"none", "begun"}, at : Instants]
        /\ \/ CarriesOn(p, "unlockOp", proc[p].write)
           \/ CarriesOn(p, "finish", proc[p].write)
    <3>1. effect \in [stage : {"none", "begun"}, at : Instants] /\ p \in Instants
      BY <2>1 DEF OperatorInv, ActionsTyped, EffectsTyped, Instants
    <3>2. [stage |-> "begun", at |-> p] \in [stage : {"none", "begun"}, at : Instants]
      BY <3>1
    <3>3. effect' = effect \/ effect' = [stage |-> "begun", at |-> p]
      BY <1>6 DEF Operator!Begin, Operator!BeginPurge, Operator!BeginRotation, Operator!BeginRepair,
         Operator!BeginChecked
    <3>4. Operator!Goto(p, "finish") \/ Operator!Goto(p, "unlockOp")
      BY <1>6 DEF Operator!Begin, Operator!BeginPurge, Operator!BeginRotation, Operator!BeginRepair,
         Operator!BeginChecked
    <3> QED
      BY <1>1, <1>2, <3>1, <3>2, <3>3, <3>4 DEF CarriesOn, Operator!Carrying
  <2>3. effect'.stage \in {"none", "begun"} /\ effect'.at \in Instants
    BY <2>2
  <2>4. EffectsTyped'
    BY <1>1, <2>1, <2>2 DEF OperatorInv, ActionsTyped, EffectsTyped
  <2>5. EffectOnce' /\ Operator!LedgerAgrees'
    BY <1>1, <2>1, <2>3 DEF OperatorInv, EffectOnce, Operator!LedgerAgrees
  <2> QED
    BY <1>5, <2>1, <2>2, <2>3, <2>4, <2>5
<1>7. CASE Operator!Finish(p) \/ (Operator!Lost(p) /\ proc[p].pc = "finish")
  <2>1. /\ effect' = [effect EXCEPT !.stage = "done"] /\ runs' = runs + 1 /\ UNCHANGED receipt
        /\ record.seq = 2 /\ effect.stage # "done"
    BY <1>7 DEF Operator!Finish, Operator!Lost, Operator!At, OperatorInv, Executes, ActsOnTheRecord
  <2>2. CarriesOn(p, "write", 3) \/ CarriesOn(p, "unlockOp", proc[p].write)
    BY <1>1, <1>2, <1>7 DEF Operator!Finish, Operator!Lost, Operator!Writing, CarriesOn, Operator!Carrying
  <2>3. effect' \in [stage : {"none", "begun", "done"}, at : Instants] /\ effect'.stage = "done"
    BY <2>1 DEF OperatorInv, ActionsTyped, EffectsTyped
  <2>4. EffectsTyped'
    BY <1>1, <2>1, <2>3 DEF OperatorInv, ActionsTyped, EffectsTyped
  <2>5. EffectOnce' /\ Operator!LedgerAgrees'
    BY <1>1, <2>1, <2>3 DEF OperatorInv, EffectOnce, Operator!LedgerAgrees
  <2> QED
    BY <1>5, <2>1, <2>2, <2>3, <2>4, <2>5
<1>8. CASE Operator!RecordReceipt(p) \/ (Operator!Lost(p) /\ proc[p].pc = "receipt")
  <2>1. UNCHANGED <<effect, runs>> /\ record.seq = 3 /\ receipt' \in Instants
    BY <1>8 DEF Operator!RecordReceipt, Operator!Lost, Operator!At, OperatorInv, Executes,
       ActsOnTheRecord, ActionsTyped, EffectsTyped, Instants
  <2>2. \/ CarriesOn(p, "write", 4) /\ receipt' = p
        \/ CarriesOn(p, "unlockOp", proc[p].write)
    BY <1>1, <1>2, <1>8
       DEF Operator!RecordReceipt, Operator!Lost, Operator!Writing, CarriesOn, Operator!Carrying
  <2>3. EffectsTyped'
    BY <1>1, <2>1 DEF OperatorInv, ActionsTyped, EffectsTyped
  <2>4. EffectOnce' /\ Operator!LedgerAgrees'
    BY <1>1, <2>1 DEF OperatorInv, EffectOnce, Operator!LedgerAgrees
  <2> QED
    BY <1>5, <2>1, <2>2, <2>3, <2>4
<1>9. CASE Operator!Refused(p)
  <2>1. UNCHANGED <<effect, receipt, runs>> /\ CarriesOn(p, "unlockOp", proc[p].write)
    BY <1>1, <1>2, <1>9 DEF Operator!Refused, Operator!worldVars, CarriesOn, Operator!Carrying
  <2>2. EffectsTyped' /\ EffectOnce' /\ Operator!LedgerAgrees'
    BY <1>1, <2>1 DEF OperatorInv, ActionsTyped, EffectsTyped, EffectOnce, Operator!LedgerAgrees
  <2> QED
    BY <1>5, <2>1, <2>2
<1> QED
  BY <1>6, <1>7, <1>8, <1>9 DEF EffectStep, Operator!Lost, Operator!At

(* Recoveries, the clock, and the writes of others.                        *)
Around ==
    \/ \E r \in Recoverers :
         (\E c \in Confirmations : Operator!Recover(r, c)) \/ Operator!Look(r) \/ Operator!Remove(r)
    \/ Operator!Tick \/ Operator!Move

LEMMA RecoverersAlone ==
  ASSUME OperatorInv, OneRecoverer, NEW r \in Recoverers,
         (\E c \in Confirmations : Operator!Recover(r, c)) \/ Operator!Look(r) \/ Operator!Remove(r)
  PROVE  OperatorInv'
<1> DEFINE n == recoverer[r].conf
<1>1. /\ UNCHANGED <<consumed, record, effect, receipt, moved, runs, command, storage, proc, time>>
      /\ recoverer[r] \in RecovererPlaces /\ recoverer \in [Recoverers -> RecovererPlaces]
      /\ recoverer[r].pc # "idle" => n \in Confirmations
      /\ \A s \in Recoverers : s = r
      /\ Operator!NoLock \in LockFiles /\ Operator!Op \in Operator!Names
      /\ Confirmations \subseteq Operator!Names
  BY DEF Operator!Recover, Operator!Look, Operator!Remove, Operator!ledgerVars, Operator!worldVars,
     OperatorInv, ActionsTyped, RecoverersTyped, OneRecoverer, LockFiles, Operator!NoLock, Operator!Names
<1>2. /\ recoverer' \in [Recoverers -> RecovererPlaces]
      /\ recoverer'[r].pc # "idle" => recoverer'[r].conf \in Confirmations
  BY <1>1 DEF Operator!Recover, Operator!Look, Operator!Remove, Operator!Sees, Operator!Resting,
     RecovererPlaces, Operator!None
<1>3. \/ UNCHANGED <<locks, temps>>
      \/ \E m \in Operator!Names :
           /\ locks[m].owner = Operator!Gone /\ locks' = [locks EXCEPT ![m] = Operator!NoLock]
           /\ temps' \subseteq temps
  <2>1. CASE Operator!Remove(r) /\ recoverer[r].pc = "removeConf"
    BY <1>1, <2>1 DEF Operator!Remove, Operator!Kept, OperatorInv, RemoveTheDead
  <2>2. CASE Operator!Remove(r) /\ recoverer[r].pc = "removeOp"
    BY <1>1, <2>2 DEF Operator!Remove, Operator!Kept, OperatorInv, RemoveTheDead
  <2> QED
    BY <2>1, <2>2 DEF Operator!Recover, Operator!Look, Operator!Remove, Operator!ledgerVars
<1>4. /\ LocksTyped' /\ temps' \subseteq temps
      /\ \A m \in Operator!Names :
           locks'[m].owner = locks[m].owner \/ locks[m].owner = Operator!Gone
  <2>1. CASE UNCHANGED <<locks, temps>>
    BY <2>1 DEF OperatorInv, ActionsTyped, LocksTyped
  <2>2. ASSUME NEW m \in Operator!Names, locks[m].owner = Operator!Gone,
               locks' = [locks EXCEPT ![m] = Operator!NoLock], temps' \subseteq temps
        PROVE  /\ LocksTyped' /\ temps' \subseteq temps
               /\ \A k \in Operator!Names :
                    locks'[k].owner = locks[k].owner \/ locks[k].owner = Operator!Gone
    BY <1>1, <2>2, LockSet DEF OperatorInv, ActionsTyped
  <2> QED
    BY <1>3, <2>1, <2>2
<1>5. ActionsTyped'
  BY <1>1, <1>2, <1>4
     DEF OperatorInv, ActionsTyped, ProcessesTyped, RecoverersTyped, EffectsTyped
<1>6. ASSUME NEW p \in Processes PROVE Executes(p)'
  <2>1. HoldsItsLocks(p)'
    BY <1>1, <1>4, PartsAssumption
       DEF OperatorInv, Executes, HoldsItsLocks, Operator!OperatorAssumption, Operator!Gone,
           Operator!Names, ActionsTyped, ProcessesTyped, ConfirmationHeld, OperationHeld,
           Operator!Carrying
  <2>2. Swept(p)'
    BY <1>1, <1>4 DEF OperatorInv, Executes, Swept, Operator!File
  <2>3. ActsOnTheRecord(p)' /\ WritesTheNext(p)' /\ HasTheStorage(p)'
    BY <1>1 DEF OperatorInv, Executes, ActsOnTheRecord, WritesTheNext, HasTheStorage,
       Operator!Unexpired, Operator!Valid
  <2> QED
    BY <2>1, <2>2, <2>3 DEF Executes
<1>7. RemoveTheDead'
  <2>1. CASE \E c \in Confirmations : Operator!Recover(r, c)
    BY <1>1, <2>1 DEF Operator!Recover, RemoveTheDead
  <2>2. CASE Operator!Look(r)
    <3>1. /\ UNCHANGED locks
          /\ \/ recoverer'[r].pc \in {"idle", "op"}
             \/ /\ recoverer'[r].pc = "removeConf" /\ recoverer'[r].conf = n
                /\ locks[n].owner = Operator!Gone
             \/ recoverer'[r].pc = "removeOp" /\ locks[Operator!Op].owner = Operator!Gone
      BY <1>1, <2>2 DEF Operator!Look, Operator!Sees, Operator!Recoverable, Operator!Resting,
         Operator!ledgerVars, RecovererPlaces
    <3> QED
      BY <1>1, <3>1 DEF RemoveTheDead
  <2>3. CASE Operator!Remove(r)
    <3>1. recoverer'[r].pc \in {"idle", "op"}
      BY <1>1, <2>3 DEF Operator!Remove, Operator!Resting, RecovererPlaces
    <3> QED
      BY <1>1, <3>1 DEF RemoveTheDead
  <2> QED
    BY <2>1, <2>2, <2>3
<1>8. EffectOnce' /\ Operator!LedgerAgrees'
  BY <1>1 DEF OperatorInv, EffectOnce, Operator!LedgerAgrees
<1> QED
  BY <1>5, <1>6, <1>7, <1>8 DEF OperatorInv

LEMMA ClockAlone ==
  ASSUME OperatorInv, Operator!Tick \/ Operator!Move
  PROVE  OperatorInv'
<1>1. /\ UNCHANGED <<locks, temps, consumed, record, effect, receipt, runs, command, storage,
                     proc, recoverer>>
      /\ time' = time \/ time' = time + 1
      /\ UNCHANGED moved \/ storage = Operator!None
  BY DEF Operator!Tick, Operator!Move, Operator!ledgerVars, Operator!worldVars, Operator!elseVars
<1>2. ActionsTyped'
  BY <1>1 DEF OperatorInv, ActionsTyped, ProcessesTyped, RecoverersTyped, LocksTyped, EffectsTyped
<1>3. ASSUME NEW p \in Processes PROVE Executes(p)'
  <2>1. HoldsItsLocks(p)' /\ Swept(p)' /\ WritesTheNext(p)' /\ HasTheStorage(p)'
    BY <1>1 DEF OperatorInv, Executes, HoldsItsLocks, Swept, WritesTheNext, HasTheStorage, Operator!File
  <2>2. proc[p].pc = "effect" /\ command # "restore" => storage # Operator!None
    BY PartsAssumption
       DEF OperatorInv, Executes, HasTheStorage, Operator!OperatorAssumption, Operator!None
  <2>3. ActsOnTheRecord(p)'
    BY <1>1, <2>2 DEF OperatorInv, Executes, ActsOnTheRecord, Operator!Unexpired, Operator!Valid
  <2> QED
    BY <2>1, <2>3 DEF Executes
<1>4. RemoveTheDead' /\ EffectOnce' /\ Operator!LedgerAgrees'
  BY <1>1 DEF OperatorInv, RemoveTheDead, EffectOnce, Operator!LedgerAgrees
<1> QED
  BY <1>2, <1>3, <1>4 DEF OperatorInv

LEMMA AloneIsEnough ==
  ASSUME OperatorInv, NEW p \in Processes, StepsAlone(p)
  PROVE  OperatorInv'
<1>1. \A q \in Processes : Executes(q)'
  BY OthersExecute DEF StepsAlone
<1>2. RemoveTheDead'
  BY PartsAssumption
     DEF OperatorInv, RemoveTheDead, StepsAlone, StaysApart, ActionsTyped, RecoverersTyped,
         Operator!OperatorAssumption, Operator!Gone, Operator!None, Operator!Names
<1> QED
  BY <1>1, <1>2 DEF StepsAlone, OperatorInv

LEMMA ProcessesStep ==
  ASSUME OperatorInv, NEW p \in Processes,
         \/ \E c \in Confirmations : Operator!Start(p, c)
         \/ Operator!Step(p) \/ Operator!Die(p) \/ Operator!Refused(p) \/ Operator!Lost(p)
  PROVE  StepsAlone(p)
<1>1. CASE \E c \in Confirmations : Operator!Start(p, c)
  BY <1>1, StartsAlone
<1>2. CASE Operator!Step(p)
  <2>1. CASE Operator!End(p)
    BY <2>1, EndsAlone DEF Operator!End, Operator!elseVars
  <2> QED
    BY <1>2, <2>1, LocksAndUnlocks, ChecksAlone, PreparesAlone, RenamesAlone, DecidesAlone, EffectsAlone
       DEF Operator!Step, EffectStep
<1>3. CASE Operator!Die(p)
  BY <1>3, EndsAlone DEF Operator!Die
<1>4. CASE Operator!Refused(p) \/ Operator!Lost(p)
  BY <1>4, EffectsAlone DEF EffectStep
<1> QED
  BY <1>1, <1>2, <1>3, <1>4

LEMMA OperatorStarts == Operator!OInit => OperatorInv
<1> SUFFICES ASSUME Operator!OInit PROVE OperatorInv
  OBVIOUS
<1>1. Operator!Idle \in Places /\ Operator!Resting \in RecovererPlaces /\ Operator!NoLock \in LockFiles
  BY DEF Operator!Idle, Operator!Resting, Operator!NoLock, Places, RecovererPlaces, LockFiles, Operator!None
<1>2. ActionsTyped
  BY <1>1 DEF Operator!OInit, ActionsTyped, ProcessesTyped, RecoverersTyped, LocksTyped, EffectsTyped,
     Operator!Idle, Operator!Resting, Operator!None, Instants
<1>3. RemoveTheDead /\ EffectOnce /\ Operator!LedgerAgrees
  BY DEF Operator!OInit, Operator!Resting, RemoveTheDead, EffectOnce, Operator!LedgerAgrees
<1>4. ASSUME NEW p \in Processes PROVE Executes(p)
  BY DEF Operator!OInit, Operator!Idle, Executes, HoldsItsLocks, Swept, ActsOnTheRecord,
     WritesTheNext, HasTheStorage, ConfirmationHeld, OperationHeld, Operator!Carrying
<1> QED
  BY <1>2, <1>3, <1>4 DEF OperatorInv

LEMMA OperatorSteps ==
  ASSUME OneRecoverer, OperatorInv, [Operator!ONext]_(Operator!operatorVars)
  PROVE  OperatorInv'
<1>1. CASE UNCHANGED Operator!operatorVars
  BY <1>1 DEF Operator!operatorVars, OperatorInv, ActionsTyped, ProcessesTyped, RecoverersTyped,
     LocksTyped, EffectsTyped, RemoveTheDead, Executes, HoldsItsLocks, Swept, ActsOnTheRecord,
     WritesTheNext, HasTheStorage, EffectOnce, Operator!LedgerAgrees, Operator!File,
     Operator!Unexpired, Operator!Valid
<1>2. CASE Operator!ONext
  BY <1>2, ProcessesStep, AloneIsEnough, RecoverersAlone, ClockAlone DEF Operator!ONext
<1> QED
  BY <1>1, <1>2

(* What is true of every step, in the states the invariant describes.      *)
LEMMA EachStepIsSound ==
  ASSUME OperatorInv, [Operator!ONext]_(Operator!operatorVars)
  PROVE  Operator!ActionsStep
<1> DEFINE still == record'.seq = record.seq /\ record'.by = record.by
<1>0. record.seq \in 0 .. 5
  BY DEF OperatorInv, ActionsTyped, EffectsTyped
<1>a. ASSUME still PROVE /\ record.seq <= record'.seq /\ record'.seq <= record.seq + 1
                         /\ record.seq > 0 => record'.by = record.by
  BY <1>0, <1>a
<1>1. CASE UNCHANGED proc /\ UNCHANGED record
  BY <1>1, <1>a DEF Operator!ActionsStep, Operator!Begins, Operator!At
<1>2. ASSUME NEW p \in Processes, StepsAlone(p), NEW q \in Processes \ {p}
      PROVE  ~Operator!Begins(q)
  BY <1>2 DEF StepsAlone, StaysApart, Operator!Begins, Operator!At
<1>3. ASSUME NEW p \in Processes, StepsAlone(p), still,
             Operator!Begins(p) => Operator!Begin(p)
      PROVE  Operator!ActionsStep
  <2>1. ASSUME Operator!Begins(p)
        PROVE  /\ Operator!Unexpired(p) /\ proc[p].conf \in consumed /\ record.by = proc[p].conf
               /\ command # "restore" => ~moved
    BY <2>1 DEF Operator!Begins, Operator!At, OperatorInv, Executes, ActsOnTheRecord
  <2>2. ASSUME Operator!Begins(p), command = "restore" PROVE ~moved
    <3>1. Operator!BeginChecked(p)
      BY <1>3, <2>2 DEF Operator!Begin, Operator!BeginPurge, Operator!BeginRotation, Operator!BeginRepair
    <3>2. proc'[p].pc = "finish" /\ proc' \in [Processes -> Places] /\ proc \in [Processes -> Places]
      BY <1>3, <2>2 DEF Operator!Begins, Operator!At, StepsAlone, ActionsTyped, ProcessesTyped, OperatorInv
    <3> QED
      BY <3>1, <3>2 DEF Operator!BeginChecked, Operator!Goto, Places
  <2> QED
    BY <1>2, <1>3, <1>a, <2>1, <2>2 DEF Operator!ActionsStep
<1>4. ASSUME NEW p \in Processes, Operator!Rename(p)
      PROVE  Operator!ActionsStep
  <2>1. StepsAlone(p) /\ ~Operator!Begins(p)
    BY <1>4, RenamesAlone DEF Operator!Rename, Operator!Begins, Operator!At
  <2>2. proc[p].pc = "rename" /\ proc[p].write \in 0 .. 5
    BY <1>4 DEF Operator!Rename, Operator!At, OperatorInv, ActionsTyped, ProcessesTyped, Places
  <2>3. \/ UNCHANGED record
        \/ /\ record'.seq = proc[p].write /\ record'.by = proc[p].conf
           /\ record.seq = proc[p].write - 1 /\ (record.seq > 0 => record.by = proc[p].conf)
    BY <1>4, <2>2 DEF Operator!Rename, OperatorInv, Executes, WritesTheNext
  <2>4. /\ record.seq <= record'.seq /\ record'.seq <= record.seq + 1
        /\ record.seq > 0 => record'.by = record.by
    BY <1>0, <2>2, <2>3
  <2> QED
    BY <1>2, <2>1, <2>4 DEF Operator!ActionsStep
<1>5. ASSUME NEW p \in Processes,
             \/ \E c \in Confirmations : Operator!Start(p, c)
             \/ Operator!Step(p) \/ Operator!Die(p) \/ Operator!Refused(p) \/ Operator!Lost(p)
      PROVE  Operator!ActionsStep
  <2>1. StepsAlone(p)
    BY <1>5, ProcessesStep
  <2>2. Operator!Rename(p) \/ still
    BY <1>5 DEF Operator!Start, Operator!Step, Operator!Die, Operator!Refused, Operator!Lost,
       Operator!Ended, Operator!ledgerVars, Operator!elseVars,
       Operator!LockConfirmation, Operator!NameConfirmation, Operator!LockOperation,
       Operator!NameOperation, Operator!Check, Operator!Prepare, Operator!Decide, Operator!Begin,
       Operator!Finish, Operator!RecordReceipt, Operator!UnlockOperation,
       Operator!UnlockConfirmation, Operator!End, OperatorInv, ActionsTyped, EffectsTyped
  <2>3. ASSUME Operator!Begins(p) PROVE Operator!Begin(p)
    <3>1. proc[p].pc = "effect" /\ proc'[p].pc = "finish"
      BY <2>3 DEF Operator!Begins, Operator!At
    <3>2. ~Operator!Ended(p)
      <4> SUFFICES ASSUME Operator!Ended(p) PROVE FALSE
        OBVIOUS
      <4>1. proc'[p] = Operator!Idle
        BY DEF Operator!Ended, OperatorInv, ActionsTyped, ProcessesTyped
      <4> QED
        BY <3>1, <4>1 DEF Operator!Idle
    <3>3. proc' # [proc EXCEPT ![p].pc = "unlockOp"]
      BY <3>1 DEF OperatorInv, ActionsTyped, ProcessesTyped, Places
    <3> QED
      BY <1>5, <3>1, <3>2, <3>3 DEF Operator!Start, Operator!Step, Operator!Die, Operator!Refused, Operator!Lost,
       Operator!LockConfirmation, Operator!NameConfirmation, Operator!LockOperation,
       Operator!NameOperation, Operator!Check, Operator!Prepare, Operator!Rename, Operator!Decide,
       Operator!Finish, Operator!RecordReceipt, Operator!UnlockOperation, Operator!Goto,
       Operator!UnlockConfirmation, Operator!End, Operator!At
  <2> QED
    BY <1>3, <1>4, <2>1, <2>2, <2>3
<1>6. CASE Operator!ONext
  <2>1. CASE Around
    BY <1>1, <2>1 DEF Around, Operator!Recover, Operator!Look, Operator!Remove, Operator!Tick,
       Operator!Move, Operator!ledgerVars
  <2> QED
    BY <1>5, <1>6, <2>1 DEF Operator!ONext, Around
<1>7. CASE UNCHANGED Operator!operatorVars
  BY <1>1, <1>7 DEF Operator!operatorVars
<1> QED
  BY <1>6, <1>7

LEMMA OperatorSafe == OperatorInv => Operator!ActionsSound
<1> SUFFICES ASSUME OperatorInv PROVE Operator!ActionsSound
  OBVIOUS
<1>1. Operator!TypeOK
  BY DEF OperatorInv, ActionsTyped, EffectsTyped, LocksTyped, LockFiles, Operator!TypeOK
<1>2. Operator!OneAtATime
  <2> SUFFICES ASSUME NEW p \in Processes, proc[p].pc \in Operator!Carrying
               PROVE  /\ locks[Operator!Op].owner = p /\ locks[proc[p].conf].owner = p
                      /\ Operator!At(p, "write") => Operator!File(p) \notin temps
    BY DEF Operator!OneAtATime
  <2>1. Operator!File(p)[1] \in {Operator!Op, proc[p].conf}
    BY DEF Operator!File
  <2> QED
    BY <2>1, SweptAlready DEF OperatorInv, Executes, HoldsItsLocks, ConfirmationHeld, OperationHeld, Operator!At
<1> QED
  BY <1>1, <1>2 DEF OperatorInv, Operator!ActionsSound

(* One execution at a time carries a destructive operation out, and its    *)
(* record, its effect and its receipt tell one story, however often it     *)
(* dies and however often it is begun again, when one recovery of its locks *)
(* runs at a time.                                                         *)
THEOREM OperatorIsSafe == ASSUME OneRecoverer PROVE Operator!OSpec => []Operator!ActionsSound
<1>1. Operator!OInit => OperatorInv
  BY OperatorStarts
<1>2. OperatorInv /\ [Operator!ONext]_(Operator!operatorVars) => OperatorInv'
  BY OperatorSteps
<1>3. OperatorInv => Operator!ActionsSound
  BY OperatorSafe
<1> QED
  BY <1>1, <1>2, <1>3, PTL DEF Operator!OSpec

(* An effect begins under a confirmation that was valid and has been       *)
(* consumed, in the state the intent describes, and the record advances by *)
(* one state at a time for the confirmation it began with.                 *)
THEOREM ActionsStayAuthorised ==
  ASSUME OneRecoverer PROVE Operator!OSpec => Operator!ActionsAreAuthorised
<1>1. Operator!OInit => OperatorInv
  BY OperatorStarts
<1>2. OperatorInv /\ [Operator!ONext]_(Operator!operatorVars) => OperatorInv'
  BY OperatorSteps
<1>3. OperatorInv /\ [Operator!ONext]_(Operator!operatorVars) => [Operator!ActionsStep]_(Operator!operatorVars)
  BY EachStepIsSound
<1> QED
  BY <1>1, <1>2, <1>3, PTL DEF Operator!OSpec, Operator!ActionsAreAuthorised

-----------------------------------------------------------------------------
(* The restores.  At most one operation can win: the one whose root was     *)
(* published while the recovery head was the backup's.  It keeps what it    *)
(* has won because a root that the recovery head has followed is nobody     *)
(* else's to open, to mark or to remove.  When the ledger keeps the         *)
(* executions of one operation apart, what an execution has found in the    *)
(* target is still there when it acts on it, too.                           *)

Inside == {"graph", "vector", "verify", "mark", "bind", "settle", "close", "check"}
Ending == {"catch", "inspect", "check", "release", "releaseDone", "answer"}
Won == {"inspect", "releaseDone", "answer"} \cup Inside
Finalizing == {"open", "graph", "vector", "verify", "mark", "bind", "settle"}
Plain == {"idle", "look", "reserve", "unlink", "again", "name", "stage", "publish", "catch", "release"}

Executing ==
    [pc : Plain \cup Finalizing \cup Won, op : Operations \cup {Restore!None},
     reserved : BOOLEAN, fresh : BOOLEAN, invalid : BOOLEAN, anchor : Nat]
Reservations ==
    [owner : Processes \cup {Restore!None, Restore!Gone}, op : Operations \cup {Restore!None},
     empty : BOOLEAN]
Markers ==
    {m \in [op : Operations \cup {Restore!None, "torn"}, head : Nat] :
       m.op \in Operations \/ m \in {Restore!NoMarker, Restore!Torn}}
Roots ==
    [by : Processes \cup {Restore!None, Restore!Gone}, intent : Operations \cup {Restore!None},
     marker : Markers, gen : -2 .. MaxHead, derived : SUBSET Restore!Derived, worked : BOOLEAN]

ExecutionsTyped ==
    /\ exec \in [Processes -> Executing]
    /\ \A p \in Processes : exec[p].pc # "idle" => exec[p].op \in Operations
    /\ opened \in Processes \cup {Restore!None, Restore!Host}
    /\ reservation \in Reservations /\ reported \subseteq Operations
HeadsTyped ==
    /\ anchor \in 0 .. MaxHead /\ origin \in 0 .. MaxHead /\ origin <= anchor
    /\ target \in Roots /\ target.gen <= anchor

OpenedByOne == \A p \in Processes : exec[p].pc \in Inside => opened = p

(* A root that turned out invalid is one that a host has worked in: its     *)
(* publisher has not answered, and so the head has moved.                   *)
InvalidWasWorked ==
    /\ target.worked => anchor > 0
    /\ \A p \in Processes : exec[p].invalid =>
         exec[p].pc \in Ending /\ (target.by = p => target.worked)

(* Before the first commit that follows the backup.                         *)
NothingWonYet == anchor = 0 =>
    /\ reported = {} /\ target.marker.op \notin Operations /\ target.gen # Restore!Blank.gen
    /\ \A p \in Processes :
         /\ exec[p].pc \notin Won \ {"graph"}
         /\ exec[p].pc \in {"open", "graph"} => target # Restore!Absent

Wins(p, o) == exec[p].op = o /\ (exec[p].pc \in Won \/ (exec[p].pc = "open" /\ target.gen = anchor))
Winner(o) ==
    \/ o \in reported \/ target.marker.op = o
    \/ target.gen = anchor /\ target.intent = o
    \/ \E p \in Processes : Wins(p, o)
OneWinner == \A a, b \in Operations : Winner(a) /\ Winner(b) => a = b

(* When the executions of one operation are kept apart.                     *)
Bound == target.marker.op \in Operations

OperationsDiffer == \A p, q \in Processes :
    p # q /\ exec[p].op \in Operations => exec[p].op # exec[q].op
FinalizesItsOwn == \A p \in Processes : exec[p].pc \in Finalizing => target.intent = exec[p].op
OwnIsOpen == \A p \in Processes : exec[p].fresh /\ target.by = p =>
    /\ target.intent \in {exec[p].op, Restore!None} /\ exec[p].op \notin reported
    /\ Bound => target.marker.op = exec[p].op
AnswersItsOwn ==
    /\ \A p \in Processes : exec[p].pc \in {"inspect", "check", "close", "releaseDone", "answer"} =>
         target.marker.op = exec[p].op
    /\ \A o \in reported : target.marker.op = o
BoundIsWhole == Bound =>
    /\ target.intent # Restore!None => target.marker.op = target.intent
    /\ target.gen >= target.marker.head /\ target.gen > 0 /\ target.derived = Restore!Derived
    /\ ~target.worked => target.marker.head = anchor
Finalizes(p) ==
    /\ exec[p].pc \in {"open", "graph", "vector", "verify", "mark", "bind"} /\ Bound => target.worked
    /\ exec[p].pc = "bind" => target.marker = Restore!Torn
    /\ exec[p].pc \in {"settle", "close"} => target.marker = Restore!Marker(p)
    /\ exec[p].pc = "vector" => "graph" \in target.derived
    /\ exec[p].pc \in {"verify", "mark", "bind", "settle", "close"} => target.derived = Restore!Derived
    /\ exec[p].pc \in {"vector", "verify", "mark", "bind", "settle", "close", "check"} =>
         target.gen = anchor /\ anchor > 0
    /\ exec[p].pc \in {"mark", "bind", "settle", "close"} => ~target.worked /\ exec[p].anchor = anchor
KeptApart == apart =>
    /\ OperationsDiffer /\ FinalizesItsOwn /\ OwnIsOpen /\ AnswersItsOwn /\ BoundIsWhole
    /\ \A p \in Processes : Finalizes(p)

RestoreTyped == ExecutionsTyped /\ HeadsTyped /\ OpenedByOne
RestoreInv ==
    RestoreTyped /\ InvalidWasWorked /\ NothingWonYet /\ OneWinner /\ Restore!OneLineage /\ KeptApart

(* The roots that are not published.                                        *)
LEMMA BareRoots ==
  /\ \A p \in Processes, o \in Operations :
       /\ Restore!Root(p, o) \in Roots
       /\ Restore!Root(p, o).by = p /\ Restore!Root(p, o).intent = o
       /\ Restore!Root(p, o).marker = Restore!NoMarker
       /\ Restore!Root(p, o).gen = 0 /\ Restore!Root(p, o).worked = FALSE
  /\ \A r \in {Restore!Absent, Restore!Blank} :
       /\ r \in Roots /\ r.by = Restore!None /\ r.intent = Restore!None
       /\ r.marker = Restore!NoMarker /\ r.worked = FALSE
  /\ Restore!Absent.gen = -1 /\ Restore!Blank.gen = -2
  /\ Restore!NoMarker \in Markers /\ Restore!NoMarker.op \notin Operations
  /\ Restore!Torn \in Markers /\ Restore!Torn.op \notin Operations /\ Restore!Torn # Restore!NoMarker
  /\ Restore!None \notin Operations /\ Restore!None \notin Processes
  /\ Restore!Gone \notin Processes /\ Restore!Host \notin Processes
  /\ Restore!None # Restore!Host /\ Restore!None # Restore!Gone
<1>1. /\ Restore!None \notin Operations /\ Restore!None \notin Processes
      /\ Restore!Gone \notin Processes /\ Restore!Host \notin Processes
      /\ Restore!None # Restore!Host /\ Restore!None # Restore!Gone
      /\ MaxHead \in Nat
  BY PartsAssumption DEF Restore!RestoreAssumption, Restore!None, Restore!Gone, Restore!Host
<1>2. /\ Restore!NoMarker \in Markers /\ Restore!NoMarker.op \notin Operations
      /\ Restore!Torn \in Markers /\ Restore!Torn.op \notin Operations
      /\ Restore!Torn # Restore!NoMarker
  BY PartsAssumption DEF Restore!RestoreAssumption, Restore!NoMarker, Restore!Torn, Restore!None, Markers
<1>3. \A p \in Processes \cup {Restore!None}, o \in Operations \cup {Restore!None} :
        /\ Restore!Root(p, o) \in Roots
        /\ Restore!Root(p, o).by = p /\ Restore!Root(p, o).intent = o
        /\ Restore!Root(p, o).marker = Restore!NoMarker
        /\ Restore!Root(p, o).gen = 0 /\ Restore!Root(p, o).worked = FALSE
  BY <1>1, <1>2 DEF Restore!Root, Roots
<1>4. \A r \in {Restore!Absent, Restore!Blank} :
        /\ r \in Roots /\ r.by = Restore!None /\ r.intent = Restore!None
        /\ r.marker = Restore!NoMarker /\ r.worked = FALSE
  <2> DEFINE bare == Restore!Root(Restore!None, Restore!None)
  <2>1. /\ bare \in Roots /\ bare.by = Restore!None /\ bare.intent = Restore!None
        /\ bare.marker = Restore!NoMarker /\ bare.worked = FALSE
        /\ -1 \in -2 .. MaxHead /\ -2 \in -2 .. MaxHead
    BY <1>1, <1>3
  <2>2. Restore!Absent = [bare EXCEPT !.gen = -1] /\ Restore!Blank = [bare EXCEPT !.gen = -2]
    BY DEF Restore!Absent, Restore!Blank
  <2> HIDE DEF bare
  <2> QED
    BY <2>1, <2>2 DEF Roots
<1>5. Restore!Absent.gen = -1 /\ Restore!Blank.gen = -2
  BY DEF Restore!Absent, Restore!Blank, Restore!Root
<1> QED
  BY <1>1, <1>2, <1>3, <1>4, <1>5

(* What a step of an execution does.  It changes nothing of the others, and *)
(* of what they share: nothing but the reservation and the lease ...        *)
Alone(p) ==
    /\ exec' \in [Processes -> Executing] /\ \A q \in Processes \ {p} : exec'[q] = exec[q]
    /\ opened' = opened \/ (opened \in {p, Restore!None} /\ opened' \in {p, Restore!None})
    /\ exec'[p].pc \in Inside => opened' = p
    /\ reservation' \in Reservations /\ UNCHANGED <<origin, apart>>
Remains(p) ==
    /\ Alone(p) /\ exec'[p].op = exec[p].op /\ exec[p].op \in Operations
    /\ exec'[p].fresh = exec[p].fresh /\ exec'[p].invalid = exec[p].invalid
Ends(p) == Alone(p) /\ exec'[p] = Restore!Idle /\ exec[p].op \in Operations

Turns(p) ==
    /\ UNCHANGED <<anchor, target, reported>>
    /\ \/ Ends(p)
       \/ Remains(p) /\ exec'[p].pc \in Plain
          /\ (exec[p].pc \in Ending => exec'[p].pc \in Ending) /\ exec'[p].pc # "idle"
       \/ /\ Alone(p) /\ exec'[p].op = exec[p].op /\ exec[p].op \in Operations
          /\ exec'[p].fresh = exec[p].fresh /\ exec'[p].pc = "catch"
          /\ target.worked \/ target = Restore!Absent
Begins(p) ==
    /\ UNCHANGED <<anchor, target, reported>> /\ Alone(p)
    /\ exec'[p].pc = "look" /\ exec'[p].op \in Operations /\ ~exec'[p].fresh /\ ~exec'[p].invalid
    /\ apart => \A q \in Processes : exec[q].op # exec'[p].op
Advances(p) ==
    /\ UNCHANGED <<anchor, target, reported>> /\ Remains(p)
    /\ \/ /\ exec'[p].pc = "inspect" /\ exec[p].pc \in {"look", "catch"}
          /\ Restore!Recognised(exec[p].op)
       \/ /\ exec'[p].pc = "open" /\ exec[p].pc = "look" /\ target # Restore!Absent
          /\ target.intent = exec[p].op /\ (anchor = 0 \/ ~Restore!Recognised(exec[p].op))
       \/ /\ exec'[p].pc = "graph" /\ exec[p].pc = "open" /\ target.gen = anchor
          /\ target # Restore!Absent
       \/ /\ exec'[p].pc = "mark" /\ exec[p].pc = "verify" /\ ~target.worked
          /\ exec'[p].anchor = anchor
       \/ /\ exec'[p].pc = "settle" /\ exec[p].pc = "mark" /\ target.marker = Restore!Marker(p)
          /\ exec'[p].anchor = exec[p].anchor
       \/ exec'[p].pc = "settle" /\ exec[p].pc = "bind" /\ target = Restore!Absent
       \/ exec'[p].pc = "check" /\ exec[p].pc = "inspect" /\ target.gen = anchor
       \/ exec'[p].pc \in {"releaseDone", "answer"} /\ exec[p].pc \in {"close", "check"}
          /\ (exec[p].pc = "check" => ~target.worked)
       \/ exec'[p].pc = "answer" /\ exec[p].pc = "releaseDone"

(* ... or the directory, the head, or what has been answered.               *)
Publishes(p) ==
    /\ UNCHANGED <<anchor, reported>> /\ Alone(p) /\ exec[p].pc = "publish"
    /\ target = Restore!Absent /\ target' = Restore!Root(p, exec[p].op)
    /\ exec'[p].pc \in {"open", "catch"} /\ exec'[p].op = exec[p].op /\ exec[p].op \in Operations
    /\ exec'[p].invalid = exec[p].invalid
Blanks(p) ==
    /\ UNCHANGED <<anchor, reported>> /\ exec[p].pc \in {"open", "inspect"}
    /\ target = Restore!Absent /\ target' = Restore!Blank
    /\ \/ Ends(p)
       \/ Alone(p) /\ exec'[p].pc \in {"catch", "release"} /\ exec'[p].op = exec[p].op
          /\ exec[p].op \in Operations
Degrades(p) ==
    /\ Remains(p) /\ UNCHANGED reported /\ exec'[p].anchor = exec[p].anchor
    /\ anchor < MaxHead /\ anchor' = anchor + 1
    /\ exec[p].pc \in {"graph", "vector"}
    /\ exec'[p].pc = IF exec[p].pc = "graph" THEN "vector" ELSE "verify"
    /\ \/ target = Restore!Absent /\ UNCHANGED target
       \/ /\ target.gen = anchor
          /\ target' = [target EXCEPT !.gen = @ + 1, !.derived = @ \cup {exec[p].pc}]
Marks(p) ==
    /\ Remains(p) /\ UNCHANGED <<anchor, reported>> /\ target # Restore!Absent
    /\ exec'[p].anchor = exec[p].anchor
    /\ \/ /\ exec[p].pc = "mark" /\ exec'[p].pc = "bind" /\ target.marker = Restore!NoMarker
          /\ target' = [target EXCEPT !.marker = Restore!Torn]
       \/ /\ exec[p].pc = "bind" /\ exec'[p].pc = "settle"
          /\ target' = [target EXCEPT !.marker = Restore!Marker(p)]
       \/ /\ exec[p].pc = "settle" /\ exec'[p].pc = "close"
          /\ target' = [target EXCEPT !.intent = Restore!None]
Removes(p) ==
    /\ UNCHANGED <<anchor, reported>> /\ exec[p].pc = "catch"
    /\ exec[p].invalid /\ exec[p].fresh /\ target.by = p /\ target' = Restore!Absent
    /\ Ends(p) \/ (Remains(p) /\ exec'[p].pc = "release")
Dies(p) ==
    /\ UNCHANGED <<anchor, reported>> /\ Ends(p) /\ target.by = p
    /\ target' = [target EXCEPT !.by = Restore!Gone]
Answers(p) ==
    /\ UNCHANGED <<anchor, target>> /\ exec[p].pc = "answer" /\ Ends(p)
    /\ reported' = reported \cup {exec[p].op}

Does(p) ==
    \/ Turns(p) \/ Begins(p) \/ Advances(p) \/ Publishes(p) \/ Blanks(p) \/ Degrades(p)
    \/ Marks(p) \/ Removes(p) \/ Dies(p) \/ Answers(p)

Attempts(p) == (\E op \in Operations : Restore!Begin(p, op)) \/ Restore!Step(p) \/ Restore!Die(p)

LEMMA IdleIsTyped ==
  /\ Restore!Idle \in Executing /\ Restore!Idle.pc = "idle" /\ Restore!Idle.op = Restore!None
  /\ ~Restore!Idle.fresh /\ ~Restore!Idle.invalid
BY DEF Restore!Idle, Executing, Plain

(* The four ways in which an execution goes on.                            *)
Same(p) ==
    /\ exec'[p].op = exec[p].op /\ exec'[p].fresh = exec[p].fresh
    /\ exec'[p].reserved = exec[p].reserved

LEMMA ExecutionGoes ==
  ASSUME ExecutionsTyped, NEW p \in Processes, NEW x \in Plain \cup Finalizing \cup Won, Restore!Goto(p, x)
  PROVE  /\ exec' \in [Processes -> Executing] /\ \A q \in Processes \ {p} : exec'[q] = exec[q]
         /\ exec'[p].pc = x /\ Same(p) /\ exec'[p].anchor = exec[p].anchor
         /\ exec'[p].invalid = exec[p].invalid
<1>1. exec[p] \in Executing
  BY DEF ExecutionsTyped
<1>2. exec'[p] = [exec[p] EXCEPT !.pc = x] /\ \A q \in Processes \ {p} : exec'[q] = exec[q]
  BY DEF ExecutionsTyped, Restore!Goto
<1>3. /\ exec'[p] \in Executing /\ exec'[p].pc = x /\ Same(p) /\ exec'[p].anchor = exec[p].anchor
      /\ exec'[p].invalid = exec[p].invalid
  BY <1>1, <1>2 DEF Executing, Same
<1> QED
  BY <1>2, <1>3 DEF ExecutionsTyped, Restore!Goto

LEMMA ExecutionEnds ==
  ASSUME ExecutionsTyped, NEW p \in Processes, exec' = [exec EXCEPT ![p] = Restore!Idle]
  PROVE  /\ exec' \in [Processes -> Executing] /\ \A q \in Processes \ {p} : exec'[q] = exec[q]
         /\ exec'[p] = Restore!Idle
BY IdleIsTyped DEF ExecutionsTyped

LEMMA ExecutionFails ==
  ASSUME ExecutionsTyped, NEW p \in Processes, Restore!Fails(p)
  PROVE  /\ exec' \in [Processes -> Executing] /\ \A q \in Processes \ {p} : exec'[q] = exec[q]
         /\ exec'[p] = Restore!Idle \/ (exec'[p].pc = "catch" /\ Same(p) /\ exec'[p].invalid = exec[p].invalid)
<1>1. exec[p] \in Executing
  BY DEF ExecutionsTyped
<1>2. exec'[p] \in {[exec[p] EXCEPT !.pc = "catch"], Restore!Idle}
  BY <1>1 DEF ExecutionsTyped, Restore!Fails
<1>3. /\ exec'[p] \in Executing
      /\ exec'[p] = Restore!Idle \/ (exec'[p].pc = "catch" /\ Same(p) /\ exec'[p].invalid = exec[p].invalid)
  BY <1>1, <1>2, IdleIsTyped DEF Executing, Plain, Same
<1> QED
  BY <1>3 DEF ExecutionsTyped, Restore!Fails

LEMMA ExecutionThrows ==
  ASSUME ExecutionsTyped, NEW p \in Processes, Restore!Throws(p)
  PROVE  /\ exec' \in [Processes -> Executing] /\ \A q \in Processes \ {p} : exec'[q] = exec[q]
         /\ exec'[p] = Restore!Idle \/ (exec'[p].pc = "release" /\ Same(p) /\ exec'[p].invalid = exec[p].invalid)
<1>1. exec[p] \in Executing
  BY DEF ExecutionsTyped
<1>2. exec'[p] \in {[exec[p] EXCEPT !.pc = "release"], Restore!Idle}
  BY <1>1 DEF ExecutionsTyped, Restore!Throws
<1>3. /\ exec'[p] \in Executing
      /\ exec'[p] = Restore!Idle \/ (exec'[p].pc = "release" /\ Same(p) /\ exec'[p].invalid = exec[p].invalid)
  BY <1>1, <1>2, IdleIsTyped DEF Executing, Plain, Same
<1> QED
  BY <1>3 DEF ExecutionsTyped, Restore!Throws

LEMMA ExecutionInvalid ==
  ASSUME ExecutionsTyped, NEW p \in Processes, Restore!Invalid(p)
  PROVE  /\ exec' \in [Processes -> Executing] /\ \A q \in Processes \ {p} : exec'[q] = exec[q]
         /\ exec'[p] = Restore!Idle \/ (exec'[p].pc = "catch" /\ Same(p))
<1>1. exec[p] \in Executing
  BY DEF ExecutionsTyped
<1>2. exec'[p] \in {[exec[p] EXCEPT !.pc = "catch", !.invalid = TRUE], Restore!Idle}
  BY <1>1 DEF ExecutionsTyped, Restore!Invalid
<1>3. /\ exec'[p] \in Executing
      /\ exec'[p] = Restore!Idle \/ (exec'[p].pc = "catch" /\ Same(p))
  BY <1>1, <1>2, IdleIsTyped DEF Executing, Plain, Same
<1> QED
  BY <1>3 DEF ExecutionsTyped, Restore!Invalid
(* Every step of an execution is one of these.                             *)
Shares == UNCHANGED <<anchor, origin, reported, apart>>

LEMMA ReservingDoes ==
  ASSUME RestoreTyped, NEW p \in Processes,
         \/ Restore!Look(p) \/ Restore!Reserve(p) \/ Restore!Unlink(p) \/ Restore!Again(p)
         \/ Restore!Name(p) \/ Restore!Stage(p) \/ Restore!Release(p)
  PROVE  Does(p)
<1> DEFINE x == exec'[p]
<1>1. /\ Shares /\ UNCHANGED <<target, opened>>
      /\ exec[p].pc \in {"look", "reserve", "unlink", "again", "name", "stage", "release", "releaseDone"}
  BY DEF Restore!Look, Restore!Reserve, Restore!Unlink, Restore!Again, Restore!Name, Restore!Stage,
     Restore!Release, Restore!At, Restore!worldVars, Shares
<1>2. exec[p].op \in Operations /\ exec[p] \in Executing /\ reservation \in Reservations
  BY <1>1 DEF RestoreTyped, ExecutionsTyped
<1>3. reservation' \in Reservations
  <2>1. Restore!Free \in Reservations
    BY DEF Restore!Free, Reservations
  <2>2. [owner |-> p, op |-> exec[p].op, empty |-> TRUE] \in Reservations
    BY <1>2 DEF Reservations
  <2>3. [reservation EXCEPT !.empty = FALSE] \in Reservations
    BY <1>2 DEF Reservations
  <2> QED
    BY <1>2, <2>1, <2>2, <2>3
       DEF Restore!Look, Restore!Reserve, Restore!Unlink, Restore!Again, Restore!Name, Restore!Stage,
           Restore!Release, Restore!Take, Restore!Op
<1>4. ASSUME NEW place \in Plain \cup Finalizing \cup Won, Restore!Goto(p, place)
      PROVE  /\ exec' \in [Processes -> Executing] /\ \A q \in Processes \ {p} : exec'[q] = exec[q]
             /\ x.pc = place /\ Same(p) /\ x.anchor = exec[p].anchor /\ x.invalid = exec[p].invalid
  BY <1>4, ExecutionGoes DEF RestoreTyped
<1>5. ASSUME exec' \in [Processes -> Executing], \A q \in Processes \ {p} : exec'[q] = exec[q],
             \/ x = Restore!Idle
             \/ /\ Same(p) /\ x.invalid = exec[p].invalid /\ x.pc \in Plain \ {"idle"}
                /\ exec[p].pc \in Ending => x.pc \in Ending
      PROVE  Does(p)
  BY <1>1, <1>2, <1>3, <1>5, IdleIsTyped
     DEF Does, Turns, Remains, Ends, Alone, Same, Shares, Plain, Inside
<1>6. ASSUME Restore!Throws(p), exec[p].pc \notin Ending PROVE Does(p)
  BY <1>5, <1>6, ExecutionThrows DEF RestoreTyped, Plain
<1>7. CASE Restore!Look(p)
  <2>1. CASE Restore!Goto(p, "inspect") /\ Restore!Recognised(exec[p].op)
    BY <1>1, <1>2, <1>3, <1>4, <1>7, <2>1
       DEF Does, Advances, Remains, Alone, Same, Shares, Inside, Won, Restore!Look, Restore!At
  <2>2. CASE /\ Restore!Goto(p, "open") /\ target # Restore!Absent /\ target.intent = exec[p].op
             /\ ~(Restore!Recognised(exec[p].op) /\ anchor # 0)
    BY <1>1, <1>2, <1>3, <1>4, <1>7, <2>2
       DEF Does, Advances, Remains, Alone, Same, Shares, Inside, Finalizing, Restore!Look, Restore!At
  <2>3. CASE Restore!Goto(p, "reserve")
    <3>1. exec[p].pc \notin Ending /\ "reserve" \in Plain \ {"idle"}
      BY <1>7 DEF Restore!Look, Restore!At, Ending, Plain
    <3> QED
      BY <1>4, <1>5, <2>3, <3>1
  <2> QED
    BY <1>6, <1>7, <2>1, <2>2, <2>3 DEF Restore!Look, Restore!At, Restore!Op, Ending
<1>8. CASE Restore!Reserve(p) \/ Restore!Again(p) \/ Restore!Unlink(p) \/ Restore!Name(p) \/ Restore!Stage(p)
  <2>1. exec[p].pc \notin Ending
    BY <1>8 DEF Restore!Reserve, Restore!Again, Restore!Unlink, Restore!Name, Restore!Stage, Restore!At, Ending
  <2>2. ASSUME NEW place \in Plain \ {"idle"}, Restore!Goto(p, place) PROVE Does(p)
    BY <1>4, <1>5, <2>1, <2>2
  <2>3. CASE Restore!Name(p)
    <3>1. exec'[p] = [exec[p] EXCEPT !.pc = "stage", !.reserved = TRUE]
      BY <2>3 DEF Restore!Name, RestoreTyped, ExecutionsTyped
    <3>2. /\ exec'[p] \in Executing /\ exec'[p].op = exec[p].op /\ exec'[p].fresh = exec[p].fresh
          /\ exec'[p].invalid = exec[p].invalid /\ exec'[p].pc = "stage"
      BY <1>2, <3>1 DEF Executing, Plain
    <3>3. exec' \in [Processes -> Executing] /\ \A q \in Processes \ {p} : exec'[q] = exec[q]
      BY <2>3, <3>2 DEF Restore!Name, RestoreTyped, ExecutionsTyped
    <3> QED
      BY <1>1, <1>2, <1>3, <2>1, <3>2, <3>3 DEF Does, Turns, Remains, Alone, Shares, Plain, Inside
  <2>4. CASE Restore!Stage(p)
    <3>1. CASE Restore!Fails(p)
      BY <1>5, <2>1, <3>1, ExecutionFails DEF RestoreTyped, Plain
    <3> QED
      BY <2>2, <2>4, <3>1 DEF Restore!Stage, Plain
  <2> QED
    BY <1>6, <1>8, <2>1, <2>2, <2>3, <2>4
       DEF Restore!Reserve, Restore!Unlink, Restore!Again, Restore!Take, Restore!Goto, Plain
<1>9. CASE Restore!Release(p)
  <2>1. CASE exec' = [exec EXCEPT ![p] = Restore!Idle]
    BY <1>5, <2>1, ExecutionEnds DEF RestoreTyped
  <2>2. CASE Restore!Goto(p, "answer") /\ exec[p].pc = "releaseDone"
    BY <1>1, <1>2, <1>3, <1>4, <2>2 DEF Does, Advances, Remains, Alone, Same, Shares, Inside, Won
  <2> QED
    BY <1>9, <2>1, <2>2 DEF Restore!Release, Restore!Goto, Restore!At
<1> QED
  BY <1>7, <1>8, <1>9

LEMMA FinalizingDoes ==
  ASSUME RestoreTyped, NEW p \in Processes,
         \/ Restore!Publish(p) \/ Restore!Open(p) \/ Restore!Verify(p) \/ Restore!CreateMarker(p)
         \/ Restore!WriteMarker(p) \/ Restore!Settle(p) \/ Restore!Close(p)
         \/ Restore!DegradeGraph(p) \/ Restore!DegradeVector(p)
  PROVE  Does(p)
<1> DEFINE x == exec'[p]
           goes(place) ==
             /\ exec' \in [Processes -> Executing]
             /\ \A q \in Processes \ {p} : exec'[q] = exec[q]
             /\ x.pc = place /\ Same(p) /\ x.anchor = exec[p].anchor
             /\ x.invalid = exec[p].invalid
<1>1. /\ UNCHANGED <<origin, reported, apart, reservation>>
      /\ exec[p].pc \in Finalizing \cup {"publish", "close"}
  BY DEF Restore!Publish, Restore!Open, Restore!Verify, Restore!CreateMarker, Restore!WriteMarker,
     Restore!Settle, Restore!Close, Restore!DegradeGraph, Restore!DegradeVector, Restore!Degrade,
     Restore!At, Restore!worldVars, Finalizing
<1>2. /\ exec[p].op \in Operations /\ exec[p] \in Executing /\ reservation' \in Reservations
      /\ exec[p].pc \notin Ending
      /\ exec[p].pc \in Inside => opened = p
  BY <1>1 DEF RestoreTyped, ExecutionsTyped, OpenedByOne, Finalizing, Ending
<1>3. ASSUME NEW place \in Plain \cup Finalizing \cup Won, Restore!Goto(p, place) PROVE goes(place)
  BY <1>3, ExecutionGoes DEF RestoreTyped
<1>4. ASSUME UNCHANGED <<anchor, target>>, Restore!Fails(p),
             opened' = opened \/ (opened' = Restore!None /\ opened = p)
      PROVE  Does(p)
  <2>1. /\ exec' \in [Processes -> Executing] /\ \A q \in Processes \ {p} : exec'[q] = exec[q]
        /\ x = Restore!Idle \/ (x.pc = "catch" /\ Same(p) /\ x.invalid = exec[p].invalid)
    BY <1>4, ExecutionFails DEF RestoreTyped
  <2> QED
    BY <1>1, <1>2, <1>4, <2>1, IdleIsTyped
       DEF Does, Turns, Remains, Ends, Alone, Same, Plain, Inside
<1>5. CASE Restore!Publish(p)
  <2>0. UNCHANGED <<anchor, opened>> /\ exec[p].pc = "publish"
    BY <1>5 DEF Restore!Publish, Restore!worldVars, Restore!At
  <2>1. CASE Restore!Fails(p) /\ UNCHANGED target
    BY <1>4, <2>0, <2>1
  <2>2. ASSUME NEW place \in {"open", "catch"}, target = Restore!Absent,
               target' = Restore!Root(p, exec[p].op),
               exec' = [exec EXCEPT ![p].pc = place, ![p].fresh = TRUE]
        PROVE  Does(p)
    <3>1. exec'[p] = [exec[p] EXCEPT !.pc = place, !.fresh = TRUE]
      BY <2>2 DEF RestoreTyped, ExecutionsTyped
    <3>2. /\ exec'[p] \in Executing /\ exec'[p].pc = place /\ exec'[p].op = exec[p].op
          /\ exec'[p].invalid = exec[p].invalid
      BY <1>2, <3>1 DEF Executing, Plain, Finalizing
    <3>3. exec' \in [Processes -> Executing] /\ \A q \in Processes \ {p} : exec'[q] = exec[q]
      BY <2>2, <3>2 DEF RestoreTyped, ExecutionsTyped
    <3>4. exec'[p].pc \notin Inside
      BY <3>2 DEF Inside
    <3> QED
      BY <1>1, <1>2, <2>0, <2>2, <3>2, <3>3, <3>4 DEF Does, Publishes, Alone
  <2> QED
    BY <1>5, <2>1, <2>2 DEF Restore!Publish, Restore!Rename, Restore!Op
<1>6. CASE Restore!Open(p)
  <2>0. UNCHANGED anchor /\ exec[p].pc = "open"
    BY <1>6 DEF Restore!Open, Restore!worldVars, Restore!At
  <2>1. CASE target = Restore!Absent /\ target' = Restore!Blank /\ Restore!Invalid(p) /\ UNCHANGED opened
    <3>1. /\ exec' \in [Processes -> Executing] /\ \A q \in Processes \ {p} : exec'[q] = exec[q]
          /\ x = Restore!Idle \/ (x.pc = "catch" /\ Same(p))
      BY <2>1, ExecutionInvalid DEF RestoreTyped
    <3> QED
      BY <1>1, <1>2, <2>0, <2>1, <3>1, IdleIsTyped DEF Does, Blanks, Ends, Alone, Same, Inside
  <2>2. CASE /\ target # Restore!Absent /\ Restore!Openable /\ opened' = p
             /\ Restore!Goto(p, "graph") /\ UNCHANGED target
    <3>1. goes("graph")
      BY <1>3, <2>2 DEF Finalizing
    <3> QED
      BY <1>1, <1>2, <2>0, <2>2, <3>1
         DEF Does, Advances, Remains, Alone, Same, Restore!Openable
  <2> QED
    BY <1>4, <1>6, <2>0, <2>1, <2>2 DEF Restore!Open
<1>7. CASE Restore!Verify(p)
  <2>0. UNCHANGED <<anchor, target>> /\ exec[p].pc = "verify" /\ opened = p
    BY <1>2, <1>7 DEF Restore!Verify, Restore!worldVars, Restore!At, Inside
  <2>1. CASE Restore!Verified /\ UNCHANGED opened /\ exec' = [exec EXCEPT ![p].pc = "mark", ![p].anchor = anchor]
    <3>1. exec'[p] = [exec[p] EXCEPT !.pc = "mark", !.anchor = anchor] /\ anchor \in Nat
      BY <2>1 DEF RestoreTyped, ExecutionsTyped, HeadsTyped
    <3>2. /\ exec'[p] \in Executing /\ exec'[p].pc = "mark" /\ Same(p)
          /\ exec'[p].invalid = exec[p].invalid /\ exec'[p].anchor = anchor
      BY <1>2, <3>1 DEF Executing, Finalizing, Same
    <3>3. exec' \in [Processes -> Executing] /\ \A q \in Processes \ {p} : exec'[q] = exec[q]
      BY <2>1, <3>2 DEF RestoreTyped, ExecutionsTyped
    <3> QED
      BY <1>1, <1>2, <2>0, <2>1, <3>2, <3>3 DEF Does, Advances, Remains, Alone, Same, Restore!Verified
  <2>2. CASE (~Restore!Verified \/ target = Restore!Absent) /\ opened' = Restore!None /\ Restore!Invalid(p)
    <3>1. /\ exec' \in [Processes -> Executing] /\ \A q \in Processes \ {p} : exec'[q] = exec[q]
          /\ x = Restore!Idle \/ (x.pc = "catch" /\ Same(p))
      BY <2>2, ExecutionInvalid DEF RestoreTyped
    <3>2. target.worked \/ target = Restore!Absent
      BY <2>2 DEF Restore!Verified, RestoreTyped, HeadsTyped, Roots
    <3> QED
      BY <1>1, <1>2, <2>0, <2>2, <3>1, <3>2, IdleIsTyped DEF Does, Turns, Ends, Alone, Same, Inside
  <2> QED
    BY <1>7, <2>1, <2>2 DEF Restore!Verify
<1>8. CASE Restore!CreateMarker(p)
  <2>0. UNCHANGED anchor /\ exec[p].pc = "mark" /\ opened = p
    BY <1>2, <1>8 DEF Restore!CreateMarker, Restore!worldVars, Restore!At, Inside
  <2>1. CASE target.marker = Restore!Marker(p) /\ Restore!Goto(p, "settle") /\ UNCHANGED <<target, opened>>
    <3>1. goes("settle")
      BY <1>3, <2>1 DEF Finalizing
    <3> QED
      BY <1>1, <1>2, <2>0, <2>1, <3>1 DEF Does, Advances, Remains, Alone, Same
  <2>2. CASE /\ target # Restore!Absent /\ target.marker = Restore!NoMarker /\ Restore!Goto(p, "bind")
             /\ UNCHANGED opened /\ target' = [target EXCEPT !.marker = Restore!Torn]
    <3>1. goes("bind")
      BY <1>3, <2>2 DEF Finalizing
    <3> QED
      BY <1>1, <1>2, <2>0, <2>2, <3>1 DEF Does, Marks, Remains, Alone, Same
  <2> QED
    BY <1>4, <1>8, <2>0, <2>1, <2>2 DEF Restore!CreateMarker
<1>9. CASE Restore!WriteMarker(p)
  <2>0. UNCHANGED <<anchor, opened>> /\ exec[p].pc = "bind" /\ opened = p /\ goes("settle")
    BY <1>2, <1>3, <1>9 DEF Restore!WriteMarker, Restore!worldVars, Restore!At, Inside, Finalizing
  <2>1. CASE target = Restore!Absent /\ UNCHANGED target
    BY <1>1, <1>2, <2>0, <2>1 DEF Does, Advances, Remains, Alone, Same
  <2>2. CASE target # Restore!Absent /\ target' = [target EXCEPT !.marker = Restore!Marker(p)]
    BY <1>1, <1>2, <2>0, <2>2 DEF Does, Marks, Remains, Alone, Same
  <2> QED
    BY <1>9, <2>1, <2>2 DEF Restore!WriteMarker
<1>10. CASE Restore!Settle(p)
  <2>0. UNCHANGED anchor /\ exec[p].pc = "settle" /\ opened = p
    BY <1>2, <1>10 DEF Restore!Settle, Restore!worldVars, Restore!At, Inside
  <2>1. CASE /\ target # Restore!Absent /\ Restore!Goto(p, "close") /\ UNCHANGED opened
             /\ target' = [target EXCEPT !.intent = Restore!None]
    <3>1. goes("close")
      BY <1>3, <2>1 DEF Won, Inside
    <3> QED
      BY <1>1, <1>2, <2>0, <2>1, <3>1 DEF Does, Marks, Remains, Alone, Same
  <2> QED
    BY <1>4, <1>10, <2>0, <2>1 DEF Restore!Settle
<1>11. CASE Restore!Close(p)
  <2>0. /\ UNCHANGED <<anchor, target>> /\ exec[p].pc = "close" /\ opened = p
        /\ opened' = Restore!None
    BY <1>2, <1>11 DEF Restore!Close, Restore!worldVars, Restore!At, Inside
  <2>1. PICK place \in {"releaseDone", "answer"} : Restore!Goto(p, place)
    BY <1>11 DEF Restore!Close, Restore!Succeeds
  <2>2. goes(place) /\ place \notin Inside
    BY <1>3, <2>1 DEF Won, Inside
  <2> QED
    BY <1>1, <1>2, <2>0, <2>1, <2>2 DEF Does, Advances, Remains, Alone, Same
<1>12. CASE Restore!DegradeGraph(p) \/ Restore!DegradeVector(p)
  <2> DEFINE next == IF exec[p].pc = "graph" THEN "vector" ELSE "verify"
  <2>0. /\ exec[p].pc \in {"graph", "vector"} /\ opened = p
        /\ Restore!Degrade(p, exec[p].pc, exec[p].pc, next)
    BY <1>2, <1>12
       DEF Restore!DegradeGraph, Restore!DegradeVector, Restore!Degrade, Restore!At, Inside
  <2>1. CASE /\ Restore!Goto(p, next) /\ UNCHANGED opened
             /\ anchor < MaxHead /\ anchor' = anchor + 1
             /\ \/ target = Restore!Absent /\ UNCHANGED target
                \/ /\ target.gen = anchor
                   /\ target' = [target EXCEPT !.gen = @ + 1, !.derived = @ \cup {exec[p].pc}]
    <3>1. goes(next)
      BY <1>3, <2>1 DEF Finalizing
    <3> QED
      BY <1>1, <1>2, <2>0, <2>1, <3>1 DEF Does, Degrades, Remains, Alone, Same
  <2> QED
    BY <1>4, <2>0, <2>1 DEF Restore!Degrade
<1> QED
  BY <1>5, <1>6, <1>7, <1>8, <1>9, <1>10, <1>11, <1>12

LEMMA EndingDoes ==
  ASSUME RestoreTyped, NEW p \in Processes,
         \/ Restore!Inspect(p) \/ Restore!CheckHealth(p) \/ Restore!Catch(p) \/ Restore!Answer(p)
         \/ Restore!Die(p) \/ \E op \in Operations : Restore!Begin(p, op)
  PROVE  Does(p)
<1> DEFINE x == exec'[p]
           goes(place) ==
             /\ exec' \in [Processes -> Executing]
             /\ \A q \in Processes \ {p} : exec'[q] = exec[q]
             /\ x.pc = place /\ Same(p) /\ x.anchor = exec[p].anchor
             /\ x.invalid = exec[p].invalid
           shares == UNCHANGED <<anchor, origin, apart>>
<1>1. /\ exec[p] \in Executing /\ reservation \in Reservations
      /\ exec[p].pc # "idle" => exec[p].op \in Operations
      /\ exec[p].pc \in Inside => opened = p
  BY DEF RestoreTyped, ExecutionsTyped, OpenedByOne
<1>2. ASSUME NEW place \in Plain \cup Finalizing \cup Won, Restore!Goto(p, place) PROVE goes(place)
  BY <1>2, ExecutionGoes DEF RestoreTyped
<1>3. ASSUME Restore!Throws(p)
      PROVE  /\ exec' \in [Processes -> Executing] /\ \A q \in Processes \ {p} : exec'[q] = exec[q]
             /\ x = Restore!Idle \/ (x.pc = "release" /\ Same(p) /\ x.invalid = exec[p].invalid)
  BY <1>3, ExecutionThrows DEF RestoreTyped
<1>4. ASSUME Restore!Throws(p), shares, UNCHANGED <<target, reported, reservation>>,
             exec[p].pc # "idle",
             opened' = opened \/ (opened' = Restore!None /\ opened = p)
      PROVE  Does(p)
  BY <1>1, <1>3, <1>4, IdleIsTyped
     DEF Does, Turns, Remains, Ends, Alone, Same, Plain, Inside, Ending
<1>5. CASE Restore!Inspect(p)
  <2>0. /\ shares /\ UNCHANGED <<reported, reservation>> /\ exec[p].pc = "inspect"
        /\ exec[p].op \in Operations
    BY <1>1, <1>5 DEF Restore!Inspect, Restore!worldVars, Restore!At
  <2>1. CASE target = Restore!Absent /\ target' = Restore!Blank /\ Restore!Throws(p) /\ UNCHANGED opened
    BY <1>1, <1>3, <2>0, <2>1, IdleIsTyped DEF Does, Blanks, Ends, Alone, Same, Inside
  <2>2. CASE /\ Restore!Openable /\ Restore!Goto(p, "check") /\ opened' = p /\ UNCHANGED target
    <3>1. goes("check")
      BY <1>2, <2>2 DEF Won, Inside
    <3> QED
      BY <1>1, <2>0, <2>2, <3>1 DEF Does, Advances, Remains, Alone, Same, Restore!Openable
  <2> QED
    BY <1>4, <1>5, <2>0, <2>1, <2>2 DEF Restore!Inspect
<1>6. CASE Restore!CheckHealth(p)
  <2>0. /\ shares /\ UNCHANGED <<target, reported, reservation>> /\ exec[p].pc = "check"
        /\ exec[p].op \in Operations /\ opened = p /\ opened' = Restore!None
    BY <1>1, <1>6 DEF Restore!CheckHealth, Restore!worldVars, Restore!At, Inside
  <2>1. CASE Restore!Verified /\ Restore!Succeeds(p)
    <3>1. PICK place \in {"releaseDone", "answer"} : Restore!Goto(p, place)
      BY <2>1 DEF Restore!Succeeds
    <3>2. goes(place) /\ place \notin Inside
      BY <1>2, <3>1 DEF Won, Inside
    <3> QED
      BY <1>1, <2>0, <2>1, <3>1, <3>2 DEF Does, Advances, Remains, Alone, Same, Restore!Verified
  <2> QED
    BY <1>4, <1>6, <2>0, <2>1 DEF Restore!CheckHealth
<1>7. CASE Restore!Catch(p)
  <2>0. /\ shares /\ UNCHANGED <<reported, reservation, opened>> /\ exec[p].pc = "catch"
        /\ exec[p].op \in Operations
    BY <1>1, <1>7 DEF Restore!Catch, Restore!worldVars, Restore!At
  <2>1. CASE Restore!Recognised(exec[p].op) /\ Restore!Goto(p, "inspect") /\ UNCHANGED target
    <3>1. goes("inspect") /\ "inspect" \notin Inside
      BY <1>2, <2>1 DEF Won, Inside
    <3> QED
      BY <1>1, <2>0, <2>1, <3>1 DEF Does, Advances, Remains, Alone, Same
  <2>2. CASE /\ Restore!Throws(p) /\ exec[p].invalid /\ exec[p].fresh /\ target.by = p
             /\ target' = Restore!Absent
    BY <1>1, <1>3, <2>0, <2>2, IdleIsTyped DEF Does, Removes, Remains, Ends, Alone, Same, Inside
  <2> QED
    BY <1>4, <1>7, <2>0, <2>1, <2>2 DEF Restore!Catch, Restore!Op
<1>8. CASE Restore!Answer(p)
  <2>0. /\ shares /\ UNCHANGED <<target, reservation, opened>> /\ exec[p].pc = "answer"
        /\ exec[p].op \in Operations /\ reported' = reported \cup {exec[p].op}
        /\ exec' = [exec EXCEPT ![p] = Restore!Idle]
    BY <1>1, <1>8 DEF Restore!Answer, Restore!At, Restore!Op
  <2>1. /\ exec' \in [Processes -> Executing] /\ \A q \in Processes \ {p} : exec'[q] = exec[q]
        /\ x = Restore!Idle
    BY <2>0, ExecutionEnds DEF RestoreTyped
  <2> QED
    BY <1>1, <2>0, <2>1, IdleIsTyped DEF Does, Answers, Ends, Alone, Inside
<1>9. CASE Restore!Die(p)
  <2>0. /\ shares /\ UNCHANGED reported /\ exec[p].op \in Operations
        /\ exec' = [exec EXCEPT ![p] = Restore!Idle]
        /\ opened' = opened \/ (opened' = Restore!None /\ opened = p)
        /\ UNCHANGED target \/ (target.by = p /\ target' = [target EXCEPT !.by = Restore!Gone])
    BY <1>1, <1>9 DEF Restore!Die, Restore!At
  <2>1. reservation' \in Reservations
    BY <1>1, <1>9 DEF Restore!Die, Reservations
  <2>2. /\ exec' \in [Processes -> Executing] /\ \A q \in Processes \ {p} : exec'[q] = exec[q]
        /\ x = Restore!Idle
    BY <2>0, ExecutionEnds DEF RestoreTyped
  <2> QED
    BY <2>0, <2>1, <2>2, IdleIsTyped DEF Does, Turns, Dies, Ends, Alone, Inside
<1>10. ASSUME NEW op \in Operations, Restore!Begin(p, op) PROVE Does(p)
  <2> DEFINE begun == [Restore!Idle EXCEPT !.pc = "look", !.op = op]
  <2>0. /\ shares /\ UNCHANGED <<reported, target, reservation, opened>>
        /\ exec' = [exec EXCEPT ![p] = begun] /\ (apart => \A q \in Processes : exec[q].op # op)
    BY <1>10 DEF Restore!Begin, Restore!worldVars, Restore!Op
  <2>1. begun \in Executing /\ begun.pc = "look" /\ begun.op = op /\ ~begun.fresh /\ ~begun.invalid
    BY IdleIsTyped DEF Executing, Plain
  <2> HIDE DEF begun
  <2>2. /\ exec' \in [Processes -> Executing] /\ \A q \in Processes \ {p} : exec'[q] = exec[q]
        /\ x = begun
    BY <2>0, <2>1 DEF RestoreTyped, ExecutionsTyped
  <2> QED
    BY <1>1, <2>0, <2>1, <2>2 DEF Does, Begins, Alone, Inside
<1> QED
  BY <1>5, <1>6, <1>7, <1>8, <1>9, <1>10

LEMMA AttemptsDo ==
  ASSUME RestoreTyped, NEW p \in Processes, Attempts(p) PROVE Does(p)
<1>1. CASE Restore!Step(p)
  BY <1>1, ReservingDoes, FinalizingDoes, EndingDoes DEF Restore!Step
<1> QED
  BY <1>1, EndingDoes DEF Attempts

(* What a step leaves of the directory.                                    *)
LEMMA DegradesRoot ==
  ASSUME RestoreTyped, NEW p \in Processes, Degrades(p)
  PROVE  /\ target' \in Roots /\ target'.by = target.by /\ target'.intent = target.intent
         /\ target'.marker = target.marker /\ target'.worked = target.worked
         /\ \/ UNCHANGED target /\ target = Restore!Absent
            \/ /\ target'.gen = target.gen + 1 /\ target.gen = anchor
               /\ target'.derived = target.derived \cup {exec[p].pc}
<1>1. target \in Roots /\ anchor \in 0 .. MaxHead
  BY DEF RestoreTyped, HeadsTyped
<1>2. CASE UNCHANGED target /\ target = Restore!Absent
  BY <1>1, <1>2
<1>3. CASE target.gen = anchor /\ target' = [target EXCEPT !.gen = @ + 1, !.derived = @ \cup {exec[p].pc}]
  <2>1. target.gen + 1 \in -2 .. MaxHead /\ target.derived \cup {exec[p].pc} \in SUBSET Restore!Derived
    BY <1>1, <1>3, PartsAssumption DEF Degrades, Roots, Restore!Derived, Restore!RestoreAssumption
  <2> QED
    BY <1>1, <1>3, <2>1 DEF Roots
<1> QED
  BY <1>2, <1>3 DEF Degrades

LEMMA MarksRoot ==
  ASSUME RestoreTyped, NEW p \in Processes, Marks(p)
  PROVE  /\ target' \in Roots /\ target'.by = target.by /\ target'.gen = target.gen
         /\ target'.derived = target.derived /\ target'.worked = target.worked
         /\ exec[p].pc = "mark" => target'.marker = Restore!Torn
         /\ exec[p].pc = "bind" => target'.marker = Restore!Marker(p)
         /\ exec[p].pc = "settle" => target'.marker = target.marker /\ target'.intent = Restore!None
         /\ exec[p].pc # "settle" => target'.intent = target.intent
<1>1. target \in Roots /\ exec[p].op \in Operations /\ exec[p].anchor \in Nat
  BY DEF RestoreTyped, HeadsTyped, ExecutionsTyped, Executing, Marks, Remains
<1>2. Restore!Marker(p) \in Markers
  BY <1>1 DEF Restore!Marker, Restore!Op, Markers
<1> QED
  BY <1>1, <1>2, BareRoots DEF Marks, Roots

LEMMA DiesRoot ==
  ASSUME RestoreTyped, NEW p \in Processes, Dies(p)
  PROVE  /\ target' \in Roots /\ target'.by = Restore!Gone /\ target'.intent = target.intent
         /\ target'.marker = target.marker /\ target'.gen = target.gen
         /\ target'.derived = target.derived /\ target'.worked = target.worked
BY DEF Dies, Roots, RestoreTyped, HeadsTyped

LEMMA RootsStay ==
  ASSUME RestoreTyped, NEW p \in Processes, Does(p) PROVE target' \in Roots
<1>1. CASE Turns(p) \/ Begins(p) \/ Advances(p) \/ Answers(p)
  BY <1>1 DEF Turns, Begins, Advances, Answers, RestoreTyped, HeadsTyped
<1>2. CASE Publishes(p) \/ Blanks(p) \/ Removes(p)
  BY <1>2, BareRoots DEF Publishes, Blanks, Removes
<1> QED
  BY <1>1, <1>2, DegradesRoot, MarksRoot, DiesRoot DEF Does

LEMMA RestoreTypedStays ==
  ASSUME RestoreTyped, NEW p \in Processes, Does(p)
  PROVE  RestoreTyped'
<1>1. target' \in Roots
  BY RootsStay
<1>2. Alone(p) /\ (exec'[p].pc # "idle" => exec'[p].op \in Operations)
  BY IdleIsTyped
     DEF Does, Turns, Begins, Advances, Publishes, Blanks, Degrades, Marks, Removes, Dies, Answers,
         Remains, Ends
<1>3. /\ ~Degrades(p) => UNCHANGED anchor
      /\ ~Answers(p) => UNCHANGED reported
      /\ Degrades(p) => anchor' = anchor + 1 /\ anchor < MaxHead /\ UNCHANGED reported
      /\ Answers(p) => reported' = reported \cup {exec[p].op} /\ exec[p].op \in Operations
  BY DEF Does, Turns, Begins, Advances, Publishes, Blanks, Degrades, Marks, Removes, Dies, Answers, Ends
<1>4. target'.gen <= anchor'
  <2>1. target.gen <= anchor /\ anchor \in Nat /\ target.gen \in Int
    BY DEF RestoreTyped, HeadsTyped, Roots
  <2> QED
    BY <1>3, <2>1, DegradesRoot, MarksRoot, DiesRoot, BareRoots
       DEF Does, Turns, Begins, Advances, Publishes, Blanks, Removes, Answers
<1>5. HeadsTyped'
  BY <1>1, <1>2, <1>3, <1>4, PartsAssumption DEF RestoreTyped, HeadsTyped, Alone, Restore!RestoreAssumption
<1>6. ExecutionsTyped'
  BY <1>2, <1>3 DEF RestoreTyped, ExecutionsTyped, Alone
<1>7. OpenedByOne'
  BY <1>2, BareRoots DEF RestoreTyped, OpenedByOne, Alone
<1> QED
  BY <1>5, <1>6, <1>7 DEF RestoreTyped

LEMMA InvalidStays ==
  ASSUME RestoreTyped, InvalidWasWorked, NEW p \in Processes, Does(p)
  PROVE  InvalidWasWorked'
<1>1. anchor \in Nat /\ (anchor' = anchor \/ anchor' = anchor + 1)
  BY DEF RestoreTyped, HeadsTyped, Does, Turns, Begins, Advances, Publishes, Blanks, Degrades, Marks,
     Removes, Dies, Answers
<1>2. ASSUME NEW q \in Processes \ {p}
      PROVE  exec'[q] = exec[q]
  BY DEF Does, Turns, Begins, Advances, Publishes, Blanks, Degrades, Marks, Removes, Dies, Answers,
     Remains, Ends, Alone
<1>3. /\ target'.worked => target.worked
      /\ \A q \in Processes \ {p} : target'.by = q => target.by = q /\ (target.worked => target'.worked)
  <2>1. CASE Turns(p) \/ Begins(p) \/ Advances(p) \/ Answers(p)
    BY <2>1 DEF Turns, Begins, Advances, Answers
  <2>2. CASE Publishes(p)
    BY <2>2, BareRoots DEF Publishes
  <2>3. CASE Blanks(p) \/ Removes(p)
    BY <2>3, BareRoots DEF Blanks, Removes
  <2> QED
    BY <2>1, <2>2, <2>3, DegradesRoot, MarksRoot, DiesRoot, BareRoots DEF Does
<1>4. ASSUME exec'[p].invalid
      PROVE  exec'[p].pc \in Ending /\ (target'.by = p => target'.worked)
  <2>1. CASE Turns(p)
    <3>1. CASE Remains(p)
      BY <1>4, <2>1, <3>1, IdleIsTyped DEF InvalidWasWorked, Turns, Remains, Ends, Plain, Ending
    <3>2. target = Restore!Absent => target.by # p
      BY BareRoots
    <3> QED
      BY <1>4, <2>1, <3>1, <3>2, IdleIsTyped DEF Turns, Ends, Ending
  <2>2. CASE Begins(p) \/ Answers(p) \/ Dies(p)
    BY <1>4, <2>2, IdleIsTyped DEF Begins, Answers, Dies, Ends
  <2>3. CASE Advances(p)
    BY <1>4, <2>3 DEF InvalidWasWorked, Advances, Remains, Ending
  <2>4. CASE Publishes(p) \/ Degrades(p) \/ Marks(p)
    BY <1>4, <2>4 DEF InvalidWasWorked, Publishes, Degrades, Marks, Remains, Ending
  <2>5. CASE Blanks(p) \/ Removes(p)
    <3>1. target'.by = Restore!None
      BY <2>5, BareRoots DEF Blanks, Removes
    <3>2. exec'[p] # Restore!Idle
      BY <1>4, IdleIsTyped
    <3> QED
      BY <2>5, <3>1, <3>2, BareRoots DEF Blanks, Removes, Ends, Remains, Ending
  <2> QED
    BY <2>1, <2>2, <2>3, <2>4, <2>5 DEF Does
<1>5. target'.worked => anchor' > 0
  BY <1>1, <1>3 DEF InvalidWasWorked
<1>6. ASSUME NEW q \in Processes, exec'[q].invalid
      PROVE  exec'[q].pc \in Ending /\ (target'.by = q => target'.worked)
  BY <1>2, <1>3, <1>4, <1>6 DEF InvalidWasWorked
<1> QED
  BY <1>5, <1>6 DEF InvalidWasWorked

LEMMA NothingWonStays ==
  ASSUME RestoreTyped, InvalidWasWorked, NothingWonYet, NEW p \in Processes, Does(p)
  PROVE  NothingWonYet'
<1> SUFFICES ASSUME anchor' = 0 PROVE NothingWonYet'
  BY DEF NothingWonYet
<1>1. anchor = 0 /\ ~Degrades(p)
  BY DEF RestoreTyped, HeadsTyped, Does, Turns, Begins, Advances, Publishes, Blanks, Degrades, Marks,
     Removes, Dies, Answers
<1>2. /\ reported = {} /\ target.marker.op \notin Operations /\ target.gen # -2
      /\ \A q \in Processes :
           /\ exec[q].pc \notin Won \ {"graph"}
           /\ exec[q].pc \in {"open", "graph"} => target # Restore!Absent
  BY <1>1, BareRoots DEF NothingWonYet
<1>3. ~Marks(p) /\ ~Answers(p) /\ ~Blanks(p) /\ ~Removes(p)
  <2>1. ~Removes(p)
    BY <1>1 DEF Removes, InvalidWasWorked
  <2> QED
    BY <1>2, <2>1 DEF Marks, Answers, Blanks, Won, Inside
<1>4. \A q \in Processes \ {p} : exec'[q] = exec[q]
  BY <1>1, <1>3 DEF Does, Turns, Begins, Advances, Publishes, Dies, Remains, Ends, Alone
<1>5. CASE Publishes(p)
  <2>1. \A q \in Processes : exec'[q].pc \notin Won \ {"graph"}
    BY <1>2, <1>4, <1>5 DEF Publishes, Won, Inside
  <2>2. target' # Restore!Absent /\ target'.gen # -2 /\ target'.marker.op \notin Operations
    BY <1>5, BareRoots DEF Publishes
  <2> QED
    BY <1>2, <1>5, <2>1, <2>2, BareRoots DEF Publishes, NothingWonYet
<1>6. CASE Turns(p) \/ Begins(p) \/ Advances(p) \/ Dies(p)
  <2>1. /\ UNCHANGED reported /\ target'.marker.op \notin Operations /\ target'.gen # -2
        /\ target # Restore!Absent => target' # Restore!Absent
    BY <1>2, <1>6, DiesRoot, BareRoots DEF Turns, Begins, Advances, Dies
  <2>2. exec'[p].pc \notin Won \ {"graph"} /\ (exec'[p].pc \in {"open", "graph"} => target # Restore!Absent)
    <3>1. CASE Turns(p) \/ Begins(p) \/ Dies(p)
      BY <3>1, IdleIsTyped DEF Turns, Begins, Dies, Remains, Ends, Plain, Won, Inside
    <3>2. CASE Advances(p)
      <4>1. ~Restore!Recognised(exec[p].op)
        BY <1>2, <3>2 DEF Advances, Remains, Restore!Recognised
      <4>2. exec[p].pc \notin Won \ {"graph"}
        BY <1>2
      <4> QED
        BY <3>2, <4>1, <4>2 DEF Advances, Won, Inside
    <3> QED
      BY <1>6, <3>1, <3>2
  <2> QED
    BY <1>2, <1>4, <2>1, <2>2, BareRoots DEF NothingWonYet
<1> QED
  BY <1>1, <1>3, <1>5, <1>6 DEF Does

LEMMA LineageStays ==
  ASSUME RestoreTyped, Restore!OneLineage, NEW p \in Processes, Does(p)
  PROVE  Restore!OneLineage'
<1>1. target.gen \in Int /\ anchor \in Nat /\ origin \in Nat /\ origin <= anchor
  BY DEF RestoreTyped, HeadsTyped, Roots
<1>2. UNCHANGED origin /\ (UNCHANGED anchor \/ (Degrades(p) /\ anchor' = anchor + 1))
  BY DEF Does, Turns, Begins, Advances, Publishes, Blanks, Degrades, Marks, Removes, Dies, Answers,
     Remains, Ends, Alone
<1>3. ~Degrades(p) => target'.gen = target.gen \/ target'.gen <= 0
  BY MarksRoot, DiesRoot, BareRoots DEF Does, Turns, Begins, Advances, Publishes, Blanks, Removes, Answers
<1>4. target'.gen \in Int
  BY RootsStay DEF Roots
<1>5. CASE anchor' = anchor /\ ~Degrades(p)
  BY <1>1, <1>2, <1>3, <1>4, <1>5 DEF Restore!OneLineage
<1>6. CASE anchor' = anchor + 1
  BY <1>1, <1>2, <1>6 DEF Restore!OneLineage
<1>7. Degrades(p) => anchor' = anchor + 1
  BY DEF Degrades
<1> QED
  BY <1>2, <1>5, <1>6, <1>7

(* A step lets nobody win who has not won, but the publication of a root    *)
(* that the recovery head is still of.                                      *)
LEMMA NoNewWinner ==
  ASSUME RestoreTyped, NEW p \in Processes, Does(p), ~(Publishes(p) /\ anchor = 0),
         NEW o \in Operations, Winner(o)'
  PROVE  Winner(o)
<1>0. /\ target.gen \in Int /\ anchor \in Nat
      /\ (exec[p].op = o /\ exec[p].pc \in Won) => Winner(o)
      /\ \A q \in Processes \ {p} : exec'[q] = exec[q]
  BY DEF RestoreTyped, HeadsTyped, Roots, Winner, Wins, Does, Turns, Begins, Advances, Publishes,
     Blanks, Degrades, Marks, Removes, Dies, Answers, Remains, Ends, Alone
<1>1. target'.gen = anchor' /\ ~(target' = target /\ anchor' = anchor) =>
        target.gen = anchor /\ target'.intent \in {target.intent, Restore!None}
  <2>1. CASE Publishes(p) \/ Blanks(p) \/ Removes(p)
    BY <1>0, <2>1, BareRoots DEF Publishes, Blanks, Removes
  <2>2. CASE Degrades(p)
    <3>1. target = Restore!Absent /\ UNCHANGED target => target'.gen = -1
      BY BareRoots
    <3>2. anchor' = anchor + 1 /\ target'.intent = target.intent
      BY <2>2, DegradesRoot DEF Degrades
    <3>3. target.gen = anchor \/ (UNCHANGED target /\ target = Restore!Absent)
      BY <2>2, DegradesRoot
    <3> QED
      BY <1>0, <3>1, <3>2, <3>3
  <2>3. CASE Marks(p) \/ Dies(p)
    BY <1>0, <2>3, MarksRoot, DiesRoot DEF Marks, Dies
  <2>4. CASE Turns(p) \/ Begins(p) \/ Advances(p) \/ Answers(p)
    BY <2>4 DEF Turns, Begins, Advances, Answers
  <2> QED
    BY <2>1, <2>2, <2>3, <2>4 DEF Does
<1>2. CASE o \in reported'
  BY <1>0, <1>2
     DEF Winner, Won, Does, Turns, Begins, Advances, Publishes, Blanks, Degrades, Marks, Removes, Dies, Answers
<1>3. CASE target'.marker.op = o
  <2>1. CASE Marks(p)
    <3>1. Restore!Marker(p).op = exec[p].op
      BY DEF Restore!Marker, Restore!Op
    <3> QED
      BY <1>0, <1>3, <2>1, <3>1, MarksRoot, BareRoots DEF Marks, Winner, Won, Inside
  <2>2. CASE Publishes(p) \/ Blanks(p) \/ Removes(p)
    BY <1>3, <2>2, BareRoots DEF Publishes, Blanks, Removes
  <2>3. CASE Turns(p) \/ Begins(p) \/ Advances(p) \/ Answers(p) \/ Degrades(p) \/ Dies(p)
    BY <1>3, <2>3, DegradesRoot, DiesRoot DEF Turns, Begins, Advances, Answers, Winner
  <2> QED
    BY <2>1, <2>2, <2>3 DEF Does
<1>4. CASE target'.gen = anchor' /\ target'.intent = o
  BY <1>1, <1>4, BareRoots DEF Winner
<1>5. ASSUME NEW q \in Processes \ {p}, Wins(q, o)' PROVE Winner(o)
  BY <1>0, <1>1, <1>5 DEF Winner, Wins
<1>6. CASE Wins(p, o)'
  <2>1. CASE Turns(p) \/ Begins(p) \/ Blanks(p) \/ Removes(p) \/ Dies(p) \/ Answers(p)
    BY <1>6, <2>1, IdleIsTyped
       DEF Turns, Begins, Blanks, Removes, Dies, Answers, Remains, Ends, Plain, Wins, Won, Inside
  <2>2. CASE Publishes(p)
    BY <1>0, <1>6, <2>2, BareRoots DEF Publishes, Wins, Won, Inside
  <2>3. CASE Degrades(p) \/ Marks(p)
    BY <1>0, <1>6, <2>3 DEF Degrades, Marks, Remains, Wins, Won, Inside
  <2>4. CASE Advances(p)
    <3>1. exec[p].op = o /\ UNCHANGED <<target, anchor>>
      BY <1>6, <2>4 DEF Advances, Remains, Wins
    <3>2. CASE exec'[p].pc = "inspect"
      <4>1. target.marker = [op |-> o, head |-> anchor]
        BY <2>4, <3>1, <3>2 DEF Advances, Restore!Recognised
      <4> QED
        BY <4>1 DEF Winner
    <3>3. CASE exec'[p].pc = "open"
      BY <1>6, <2>4, <3>1, <3>3 DEF Advances, Winner, Wins, Won, Inside
    <3>4. CASE exec'[p].pc = "graph"
      BY <1>6, <2>4, <3>1, <3>4 DEF Advances, Winner, Wins
    <3>5. CASE exec'[p].pc \notin {"inspect", "open", "graph"}
      BY <1>0, <2>4, <3>1, <3>5 DEF Advances, Won, Inside
    <3> QED
      BY <3>2, <3>3, <3>4, <3>5
  <2> QED
    BY <2>1, <2>2, <2>3, <2>4 DEF Does
<1>7. \/ o \in reported' \/ target'.marker.op = o
      \/ target'.gen = anchor' /\ target'.intent = o
      \/ \E q \in Processes : Wins(q, o)'
  BY DEF Winner
<1> QED
  BY <1>2, <1>3, <1>4, <1>5, <1>6, <1>7

LEMMA OneWinnerStays ==
  ASSUME RestoreTyped, NothingWonYet, OneWinner, NEW p \in Processes, Does(p)
  PROVE  OneWinner'
<1>1. CASE Publishes(p) /\ anchor = 0
  <2> SUFFICES ASSUME NEW o \in Operations, Winner(o)' PROVE o = exec[p].op
    BY DEF OneWinner
  <2>1. /\ target = Restore!Absent /\ reported = {}
        /\ target' = Restore!Root(p, exec[p].op) /\ UNCHANGED reported
        /\ exec[p].op \in Operations /\ exec'[p].op = exec[p].op
        /\ \A q \in Processes : exec[q].pc \notin Won \cup {"open"}
        /\ \A q \in Processes \ {p} : exec'[q] = exec[q]
    BY <1>1 DEF Publishes, NothingWonYet, Alone
  <2>2. target'.intent = exec[p].op /\ target'.marker.op # o
    BY <2>1, BareRoots
  <2>3. \A q \in Processes \ {p} : ~Wins(q, o)'
    BY <2>1 DEF Wins
  <2> QED
    BY <2>1, <2>2, <2>3 DEF Winner, Wins
<1>2. CASE ~(Publishes(p) /\ anchor = 0)
  BY <1>2, NoNewWinner DEF OneWinner
<1> QED
  BY <1>1, <1>2

(* What holds when the executions of one operation are kept apart.         *)
LEMMA OperationsStayDifferent ==
  ASSUME RestoreTyped, OperationsDiffer, apart, NEW p \in Processes, Does(p)
  PROVE  OperationsDiffer'
<1>1. \A q \in Processes \ {p} : exec'[q] = exec[q]
  BY DEF Does, Turns, Begins, Advances, Publishes, Blanks, Degrades, Marks, Removes, Dies, Answers,
     Remains, Ends, Alone
<1>2. \/ exec'[p].op \in {exec[p].op, Restore!None}
      \/ exec'[p].op \in Operations /\ \A q \in Processes : exec[q].op # exec'[p].op
  BY IdleIsTyped
     DEF Does, Turns, Begins, Advances, Publishes, Blanks, Degrades, Marks, Removes, Dies, Answers,
     Remains, Ends
<1> QED
  BY <1>1, <1>2, BareRoots DEF OperationsDiffer

Others(p) ==
    /\ RestoreTyped /\ OperationsDiffer /\ FinalizesItsOwn /\ OwnIsOpen /\ AnswersItsOwn
    /\ Does(p) /\ (\A q \in Processes \ {p} : exec'[q] = exec[q])
    /\ exec'[p] = Restore!Idle \/ exec'[p].op = exec[p].op \/ Begins(p)

\* Nobody but its own operation changes the root in which an execution is.
LEMMA OthersLeaveTheIntent ==
  ASSUME NEW p \in Processes, Others(p), NEW o \in Operations,
         target.intent = o, exec[p].op # o
  PROVE  /\ target'.intent = o /\ target'.marker.op \in {target.marker.op, "torn"}
         /\ target'.worked = target.worked
<1>1. target # Restore!Absent
  BY BareRoots
<1>2. ~Removes(p) /\ ~Publishes(p) /\ ~Blanks(p)
  BY <1>1, BareRoots DEF Removes, Publishes, Blanks, Others, OwnIsOpen
<1>3. Marks(p) => exec[p].pc = "mark" /\ Restore!Torn.op = "torn"
  BY DEF Marks, Others, FinalizesItsOwn, Finalizing, Restore!Torn
<1> QED
  BY <1>2, <1>3, DegradesRoot, MarksRoot, DiesRoot
     DEF Others, Does, Turns, Begins, Advances, Answers

LEMMA OthersLeaveTheMarker ==
  ASSUME NEW p \in Processes, Others(p), Finalizes(p), NEW o \in Operations,
         target.marker.op = o, (exec[p].op # o \/ o \in reported)
  PROVE  target'.marker.op = o
<1>1. target # Restore!Absent /\ Bound /\ target.marker # Restore!NoMarker /\ target.marker # Restore!Torn
  BY BareRoots DEF Bound
<1>2. ~Removes(p) /\ ~Publishes(p) /\ ~Blanks(p)
  BY <1>1 DEF Removes, Publishes, Blanks, Others, OwnIsOpen
<1>3. Marks(p) => exec[p].pc = "settle"
  BY <1>1 DEF Marks, Finalizes
<1> QED
  BY <1>2, <1>3, DegradesRoot, MarksRoot, DiesRoot
     DEF Others, Does, Turns, Begins, Advances, Answers

LEMMA FinalizesItsOwnStays ==
  ASSUME NEW p \in Processes, Others(p) PROVE FinalizesItsOwn'
<1>1. ASSUME NEW q \in Processes \ {p}, exec'[q].pc \in Finalizing
      PROVE  target'.intent = exec'[q].op
  <2>1. exec'[q] = exec[q] /\ target.intent = exec[q].op /\ exec[q].op \in Operations
    BY <1>1 DEF Others, FinalizesItsOwn, RestoreTyped, ExecutionsTyped, Finalizing
  <2>2. exec[p].op # exec[q].op
    BY <2>1 DEF Others, OperationsDiffer
  <2> QED
    BY <2>1, <2>2, OthersLeaveTheIntent
<1>2. ASSUME exec'[p].pc \in Finalizing
      PROVE  target'.intent = exec'[p].op
  <2>1. CASE Publishes(p)
    BY <2>1, BareRoots DEF Publishes
  <2>2. CASE Advances(p)
    <3>1. exec[p].pc = "bind" => target # Restore!Absent
      BY <2>2, BareRoots DEF Advances, Remains, Others, FinalizesItsOwn, Finalizing
    <3> QED
      BY <1>2, <2>2, <3>1 DEF Advances, Remains, Others, FinalizesItsOwn, Finalizing
  <2>3. CASE Degrades(p)
    BY <2>3, DegradesRoot DEF Degrades, Remains, Others, FinalizesItsOwn, Finalizing
  <2>4. CASE Marks(p)
    BY <1>2, <2>4, MarksRoot DEF Marks, Remains, Others, FinalizesItsOwn, Finalizing
  <2>5. ~(Turns(p) \/ Begins(p) \/ Blanks(p) \/ Removes(p) \/ Dies(p) \/ Answers(p))
    BY <1>2, IdleIsTyped
       DEF Turns, Begins, Blanks, Removes, Dies, Answers, Remains, Ends, Plain, Finalizing
  <2> QED
    BY <2>1, <2>2, <2>3, <2>4, <2>5 DEF Others, Does
<1> QED
  BY <1>1, <1>2 DEF FinalizesItsOwn

LEMMA OwnIsOpenStays ==
  ASSUME NEW p \in Processes, Others(p) PROVE OwnIsOpen'
<1>1. target'.intent \in {target.intent, Restore!None} \/ Publishes(p)
  BY DegradesRoot, MarksRoot, DiesRoot, BareRoots
     DEF Others, Does, Turns, Begins, Advances, Answers, Blanks, Removes, Marks
<1>2. \A q \in Processes : target'.by = q => target.by = q \/ (Publishes(p) /\ q = p)
  BY DegradesRoot, MarksRoot, DiesRoot, BareRoots
     DEF Others, Does, Turns, Begins, Advances, Answers, Blanks, Removes, Publishes
<1>3. reported' = reported \/ (Answers(p) /\ reported' = reported \cup {exec[p].op} /\ exec[p].op \in Operations)
  BY DEF Others, Does, Turns, Begins, Advances, Answers, Blanks, Removes, Publishes, Degrades, Marks,
     Dies, Ends
<1>4. Bound' => \/ target'.marker = target.marker
                \/ /\ target'.marker.op = exec[p].op /\ target.intent = exec[p].op
                   /\ exec[p].op \in Operations /\ Marks(p)
  <2>1. CASE Marks(p)
    <3>1. Restore!Marker(p).op = exec[p].op /\ exec[p].op \in Operations
      BY <2>1 DEF Restore!Marker, Restore!Op, Marks, Remains
    <3>2. exec[p].pc = "bind" => target.intent = exec[p].op
      BY DEF Others, FinalizesItsOwn, Finalizing
    <3> QED
      BY <2>1, <3>1, <3>2, MarksRoot, BareRoots DEF Others, Marks, Bound
  <2>2. CASE Publishes(p) \/ Blanks(p) \/ Removes(p)
    BY <2>2, BareRoots DEF Publishes, Blanks, Removes, Bound
  <2> QED
    BY <2>1, <2>2, DegradesRoot, DiesRoot DEF Others, Does, Turns, Begins, Advances, Answers
<1>5. ASSUME NEW q \in Processes \ {p}, exec'[q].fresh, target'.by = q
      PROVE  /\ target'.intent \in {exec'[q].op, Restore!None} /\ exec'[q].op \notin reported'
             /\ Bound' => target'.marker.op = exec'[q].op
  <2>1. exec'[q] = exec[q] /\ target.by = q
    BY <1>2, <1>5 DEF Others
  <2>2. /\ target.intent \in {exec[q].op, Restore!None} /\ exec[q].op \notin reported
        /\ Bound => target.marker.op = exec[q].op
    BY <1>5, <2>1 DEF Others, OwnIsOpen
  <2>3. ~Publishes(p)
    BY <2>1, BareRoots DEF Publishes
  <2>4. exec[p].op \in Operations => exec[p].op # exec[q].op
    BY DEF Others, OperationsDiffer
  <2> QED
    BY <1>1, <1>3, <1>4, <2>1, <2>2, <2>3, <2>4, BareRoots DEF Bound
<1>6. ASSUME exec'[p].fresh, target'.by = p
      PROVE  /\ target'.intent \in {exec'[p].op, Restore!None} /\ exec'[p].op \notin reported'
             /\ Bound' => target'.marker.op = exec'[p].op
  <2>1. exec'[p].op = exec[p].op /\ ~Answers(p) /\ ~Begins(p)
    BY <1>6, IdleIsTyped DEF Others, Begins, Answers, Ends
  <2>2. CASE Publishes(p)
    <3>1. target = Restore!Absent /\ target'.intent = exec[p].op /\ target'.marker.op \notin Operations
      BY <2>2, BareRoots DEF Publishes
    <3>2. reported = {}
      BY <3>1, BareRoots DEF Others, AnswersItsOwn, RestoreTyped, ExecutionsTyped
    <3> QED
      BY <1>3, <2>1, <3>1, <3>2 DEF Bound
  <2>3. CASE ~Publishes(p)
    <3>1. exec[p].fresh
      BY <1>6, <2>1, <2>3, IdleIsTyped, BareRoots
         DEF Others, Does, Turns, Advances, Blanks, Removes, Degrades, Marks, Dies, Remains, Ends
    <3>2. /\ target.intent \in {exec[p].op, Restore!None} /\ exec[p].op \notin reported
          /\ Bound => target.marker.op = exec[p].op
      BY <1>2, <1>6, <2>3, <3>1 DEF Others, OwnIsOpen
    <3> QED
      BY <1>1, <1>3, <1>4, <2>1, <2>3, <3>2 DEF Bound
  <2> QED
    BY <2>2, <2>3
<1> QED
  BY <1>5, <1>6 DEF OwnIsOpen

LEMMA AnswersItsOwnStays ==
  ASSUME NEW p \in Processes, Others(p), Finalizes(p) PROVE AnswersItsOwn'
<1> DEFINE S == {"inspect", "check", "close", "releaseDone", "answer"}
<1>0. exec[p].pc \in S => target.marker.op = exec[p].op
  BY DEF Others, AnswersItsOwn
<1>1. ASSUME NEW q \in Processes \ {p}, exec'[q].pc \in S
      PROVE  target'.marker.op = exec'[q].op
  <2>1. exec'[q] = exec[q] /\ target.marker.op = exec[q].op /\ exec[q].op \in Operations
    BY <1>1 DEF Others, AnswersItsOwn, RestoreTyped, ExecutionsTyped
  <2>2. exec[p].op # exec[q].op
    BY <2>1 DEF Others, OperationsDiffer
  <2> QED
    BY <2>1, <2>2, OthersLeaveTheMarker
<1>2. ASSUME exec'[p].pc \in S
      PROVE  target'.marker.op = exec'[p].op
  <2>1. CASE Advances(p)
    <3>1. target' = target /\ exec'[p].op = exec[p].op
      BY <2>1 DEF Advances, Remains
    <3>2. Restore!Recognised(exec[p].op) => target.marker.op = exec[p].op
      <4>1. [op |-> exec[p].op, head |-> anchor].op = exec[p].op
        OBVIOUS
      <4> QED
        BY <4>1 DEF Restore!Recognised
    <3> QED
      BY <1>0, <1>2, <2>1, <3>1, <3>2 DEF Advances
  <2>2. CASE Marks(p)
    <3>1. exec[p].pc = "settle" /\ exec'[p].op = exec[p].op
      BY <1>2, <2>2 DEF Marks, Remains
    <3>2. target.marker.op = exec[p].op
      BY <3>1 DEF Finalizes, Restore!Marker, Restore!Op
    <3> QED
      BY <2>2, <3>1, <3>2, MarksRoot DEF Others
  <2>3. ~(Turns(p) \/ Begins(p) \/ Blanks(p) \/ Removes(p) \/ Dies(p) \/ Answers(p) \/ Publishes(p) \/ Degrades(p))
    BY <1>2, IdleIsTyped
       DEF Turns, Begins, Blanks, Removes, Dies, Answers, Publishes, Degrades, Remains, Ends, Plain
  <2> QED
    BY <2>1, <2>2, <2>3 DEF Others, Does
<1>3. ASSUME NEW o \in reported' PROVE target'.marker.op = o
  <2>1. CASE Answers(p)
    <3>1. target' = target /\ (o \in reported \/ o = exec[p].op) /\ exec[p].pc = "answer"
      BY <1>3, <2>1 DEF Answers
    <3> QED
      BY <1>0, <3>1 DEF Others, AnswersItsOwn
  <2>2. CASE ~Answers(p)
    <3>1. o \in reported /\ o \in Operations
      BY <1>3, <2>2
         DEF Others, RestoreTyped, ExecutionsTyped, Does, Turns, Begins, Advances, Publishes, Blanks,
             Degrades, Marks, Removes, Dies
    <3> QED
      BY <3>1, OthersLeaveTheMarker DEF Others, AnswersItsOwn
  <2> QED
    BY <2>1, <2>2
<1> QED
  BY <1>1, <1>2, <1>3 DEF AnswersItsOwn

LEMMA BoundIsWholeStays ==
  ASSUME NEW p \in Processes, Others(p), Finalizes(p), BoundIsWhole PROVE BoundIsWhole'
<1> SUFFICES ASSUME Bound' PROVE BoundIsWhole'
  BY DEF BoundIsWhole
<1>0. anchor \in Nat /\ target.gen \in Int /\ target.marker.head \in Nat /\ target.derived \subseteq Restore!Derived
  BY DEF Others, RestoreTyped, HeadsTyped, Roots, Markers
<1>1. CASE Marks(p) /\ exec[p].pc = "bind"
  <2>1. /\ target'.marker.op = exec[p].op /\ target'.marker.head = exec[p].anchor
        /\ target'.intent = target.intent /\ target'.gen = target.gen /\ target'.derived = target.derived
        /\ UNCHANGED anchor
    <3>1. Restore!Marker(p).op = exec[p].op /\ Restore!Marker(p).head = exec[p].anchor
      BY DEF Restore!Marker, Restore!Op
    <3>2. UNCHANGED anchor
      BY <1>1 DEF Marks
    <3> QED
      BY <1>1, <3>1, <3>2, MarksRoot DEF Others
  <2>2. /\ target.intent = exec[p].op /\ target.gen = anchor /\ anchor > 0
        /\ exec[p].anchor = anchor /\ target.derived = Restore!Derived
    BY <1>1 DEF Others, FinalizesItsOwn, Finalizes, Finalizing
  <2> QED
    BY <1>0, <2>1, <2>2 DEF BoundIsWhole
<1>2. CASE Marks(p) /\ exec[p].pc # "bind"
  <2>1. exec[p].pc = "settle"
    BY <1>2, MarksRoot, BareRoots DEF Others, Marks, Bound
  <2>2. /\ target'.marker = target.marker /\ target'.intent = Restore!None /\ target'.gen = target.gen
        /\ target'.derived = target.derived /\ target'.worked = target.worked /\ UNCHANGED anchor
    BY <1>2, <2>1, MarksRoot DEF Others, Marks
  <2>3. Bound
    BY <2>2 DEF Bound
  <2> QED
    BY <2>2, <2>3 DEF BoundIsWhole
<1>3. CASE Degrades(p)
  <2>1. /\ target'.marker = target.marker /\ target'.intent = target.intent /\ target'.worked = target.worked
        /\ Bound /\ exec[p].pc \in {"graph", "vector"}
    BY <1>3, DegradesRoot DEF Others, Degrades, Bound
  <2>2. target.worked /\ target # Restore!Absent
    BY <2>1, BareRoots DEF Finalizes, Bound
  <2>3. target'.gen = target.gen + 1 /\ target'.derived = target.derived \cup {exec[p].pc}
    BY <1>3, <2>2, DegradesRoot DEF Others
  <2>4. target'.derived = Restore!Derived
    BY <2>1, <2>3 DEF BoundIsWhole, Restore!Derived
  <2> QED
    BY <1>0, <2>1, <2>2, <2>3, <2>4 DEF BoundIsWhole
<1>4. CASE Turns(p) \/ Begins(p) \/ Advances(p) \/ Answers(p)
  <2>1. target' = target /\ anchor' = anchor
    BY <1>4 DEF Turns, Begins, Advances, Answers
  <2> QED
    BY <2>1 DEF BoundIsWhole, Bound
<1>5. CASE Dies(p)
  <2>1. /\ target'.marker = target.marker /\ target'.intent = target.intent /\ target'.gen = target.gen
        /\ target'.derived = target.derived /\ target'.worked = target.worked /\ UNCHANGED anchor
    BY <1>5, DiesRoot DEF Others, Dies
  <2> QED
    BY <2>1 DEF BoundIsWhole, Bound
<1>6. ~(Publishes(p) \/ Blanks(p) \/ Removes(p))
  BY BareRoots DEF Publishes, Blanks, Removes, Bound
<1> QED
  BY <1>1, <1>2, <1>3, <1>4, <1>5, <1>6 DEF Others, Does

LEMMA OthersFinalize ==
  ASSUME NEW p \in Processes, Others(p), Finalizes(p), NEW q \in Processes \ {p}, Finalizes(q)
  PROVE  Finalizes(q)'
<1>0. /\ exec'[q] = exec[q] /\ (exec[q].pc \in Inside => ~Degrades(p) /\ ~Marks(p))
      /\ exec[q].pc # "idle" => exec[q].op \in Operations /\ exec[p].op # exec[q].op
  BY DEF Others, RestoreTyped, OpenedByOne, ExecutionsTyped, OperationsDiffer, Degrades, Marks, Inside
<1>1. CASE exec[q].pc = "open"
  <2>1. target.intent = exec[q].op
    BY <1>1 DEF Others, FinalizesItsOwn, Finalizing
  <2>2. target'.marker.op \in {target.marker.op, "torn"} /\ target'.worked = target.worked
    BY <1>0, <1>1, <2>1, OthersLeaveTheIntent
  <2>3. "torn" \notin Operations
    BY BareRoots DEF Restore!Torn
  <2>4. Bound' => target'.worked
    BY <1>1, <2>2, <2>3 DEF Finalizes, Bound
  <2> QED
    BY <1>0, <1>1, <2>4 DEF Finalizes
<1>2. CASE exec[q].pc \in Inside
  <2>1. target # Restore!Absent
    BY <1>0, <1>2, BareRoots DEF Others, FinalizesItsOwn, AnswersItsOwn, Finalizing, Inside
  <2>2. target.intent = exec[q].op \/ target.marker.op = exec[q].op
    BY <1>2 DEF Others, FinalizesItsOwn, AnswersItsOwn, Finalizing, Inside
  <2>3. ~Removes(p)
    BY <1>0, <1>2, <2>2, BareRoots DEF Others, OwnIsOpen, Removes, Bound, Inside
  <2>4. /\ UNCHANGED anchor /\ target'.marker = target.marker /\ target'.gen = target.gen
        /\ target'.derived = target.derived /\ target'.worked = target.worked
    BY <1>0, <1>2, <2>1, <2>3, DiesRoot
       DEF Others, Does, Turns, Begins, Advances, Answers, Publishes, Blanks, Dies
  <2>5. Restore!Marker(q)' = Restore!Marker(q)
    BY <1>0 DEF Restore!Marker, Restore!Op
  <2>6. Bound' <=> Bound
    BY <2>4 DEF Bound
  <2> QED
    BY <1>0, <2>4, <2>5, <2>6 DEF Finalizes
<1>3. CASE exec[q].pc \notin Inside \cup {"open"}
  BY <1>0, <1>3 DEF Finalizes, Inside
<1> QED
  BY <1>1, <1>2, <1>3

LEMMA FinalizesStays ==
  ASSUME NEW p \in Processes, Others(p), Finalizes(p), BoundIsWhole, NothingWonYet
  PROVE  Finalizes(p)'
<1>0. /\ anchor \in Nat /\ target.gen \in Int /\ target.gen <= anchor /\ target.marker \in Markers
      /\ target.derived \subseteq Restore!Derived
  BY DEF Others, RestoreTyped, HeadsTyped, Roots
<1>1. exec[p].pc \in Finalizing => target.intent = exec[p].op /\ (exec[p].op \in Operations => target # Restore!Absent)
  BY BareRoots DEF Others, FinalizesItsOwn
<1>2. CASE Advances(p)
  <2>0. UNCHANGED <<anchor, target>> /\ exec'[p].op = exec[p].op /\ exec[p].op \in Operations
        /\ (Bound' <=> Bound)
    BY <1>2 DEF Advances, Remains, Bound
  <2>1. CASE exec'[p].pc = "open"
    <3>1. target.intent = exec[p].op /\ (anchor = 0 \/ ~Restore!Recognised(exec[p].op)) /\ target # Restore!Absent
      BY <1>2, <2>1 DEF Advances
    <3>2. ASSUME Bound, ~target.worked PROVE FALSE
      <4>1. target.marker.op = exec[p].op /\ target.marker.head = anchor /\ target.gen > 0
        BY <2>0, <3>1, <3>2, BareRoots DEF BoundIsWhole
      <4>2. target.marker = [op |-> exec[p].op, head |-> anchor]
        BY <1>0, <4>1 DEF Markers
      <4> QED
        BY <1>0, <3>1, <4>1, <4>2 DEF Restore!Recognised
    <3> QED
      BY <2>0, <2>1, <3>2 DEF Finalizes
  <2>2. CASE exec'[p].pc = "graph"
    BY <1>2, <2>0, <2>2 DEF Advances, Finalizes
  <2>3. CASE exec'[p].pc = "mark"
    BY <1>2, <2>0, <2>3 DEF Advances, Finalizes
  <2>4. CASE exec'[p].pc = "settle"
    <3>1. /\ exec[p].pc = "mark" /\ target.marker = Restore!Marker(p)
          /\ exec'[p].anchor = exec[p].anchor
      BY <1>1, <1>2, <2>0, <2>4 DEF Advances, Finalizing
    <3>2. Restore!Marker(p)' = Restore!Marker(p)
      BY <2>0, <3>1 DEF Restore!Marker, Restore!Op
    <3> QED
      BY <2>0, <2>4, <3>1, <3>2 DEF Finalizes
  <2>5. CASE exec'[p].pc = "check"
    <3>1. exec[p].pc = "inspect" /\ target.gen = anchor
      BY <1>2, <2>5 DEF Advances
    <3>2. anchor # 0
      BY <3>1 DEF NothingWonYet, Won
    <3> QED
      BY <1>0, <2>0, <2>5, <3>1, <3>2 DEF Finalizes
  <2>6. CASE exec'[p].pc \in {"inspect", "releaseDone", "answer"}
    BY <2>6 DEF Finalizes
  <2> QED
    BY <1>2, <2>1, <2>2, <2>3, <2>4, <2>5, <2>6 DEF Advances
<1>3. CASE Publishes(p)
  <2>1. ~Bound' /\ exec'[p].pc \in {"open", "catch"}
    BY <1>3, BareRoots DEF Publishes, Bound
  <2> QED
    BY <2>1 DEF Finalizes
<1>4. CASE Degrades(p)
  <2>1. /\ target'.marker = target.marker /\ target'.worked = target.worked
        /\ target'.gen = target.gen + 1 /\ target.gen = anchor /\ anchor' = anchor + 1
        /\ target'.derived = target.derived \cup {exec[p].pc}
    BY <1>1, <1>4, DegradesRoot DEF Others, Degrades, Remains, Finalizing
  <2>2. Bound' <=> Bound
    BY <2>1 DEF Bound
  <2>3. Bound => target.worked
    BY <1>4 DEF Degrades, Finalizes
  <2>4. CASE exec[p].pc = "graph"
    BY <1>0, <1>4, <2>1, <2>2, <2>3, <2>4 DEF Degrades, Finalizes
  <2>5. CASE exec[p].pc = "vector"
    <3>1. target'.derived = Restore!Derived
      BY <1>0, <2>1, <2>5 DEF Finalizes, Restore!Derived
    <3> QED
      BY <1>0, <1>4, <2>1, <2>2, <2>3, <2>5, <3>1 DEF Degrades, Finalizes
  <2> QED
    BY <1>4, <2>4, <2>5 DEF Degrades
<1>5. CASE Marks(p)
  <2>1. /\ target'.gen = target.gen /\ target'.derived = target.derived
        /\ target'.worked = target.worked /\ UNCHANGED anchor
        /\ exec'[p].anchor = exec[p].anchor /\ exec'[p].op = exec[p].op
    BY <1>5, MarksRoot DEF Others, Marks, Remains
  <2>2. Restore!Marker(p)' = Restore!Marker(p)
    BY <2>1 DEF Restore!Marker, Restore!Op
  <2>3. CASE exec[p].pc = "mark"
    <3>1. target'.marker = Restore!Torn /\ ~Bound' /\ exec'[p].pc = "bind"
      BY <1>5, <2>3, MarksRoot, BareRoots DEF Others, Bound, Marks
    <3> QED
      BY <2>1, <2>3, <3>1 DEF Finalizes
  <2>4. CASE exec[p].pc = "bind"
    <3>1. target'.marker = Restore!Marker(p) /\ exec'[p].pc = "settle"
      BY <1>5, <2>4, MarksRoot DEF Others, Marks
    <3> QED
      BY <2>1, <2>2, <2>4, <3>1 DEF Finalizes
  <2>5. CASE exec[p].pc = "settle"
    <3>1. target'.marker = target.marker /\ exec'[p].pc = "close"
      BY <1>5, <2>5, MarksRoot DEF Others, Marks
    <3> QED
      BY <2>1, <2>2, <2>5, <3>1 DEF Finalizes
  <2> QED
    BY <1>5, <2>3, <2>4, <2>5 DEF Marks
<1>6. CASE Turns(p) \/ Begins(p) \/ Blanks(p) \/ Removes(p) \/ Dies(p) \/ Answers(p)
  <2>1. exec'[p].pc \in Plain
    BY <1>6, IdleIsTyped DEF Turns, Begins, Blanks, Removes, Dies, Answers, Remains, Ends, Plain
  <2> QED
    BY <2>1 DEF Finalizes, Plain
<1> QED
  BY <1>2, <1>3, <1>4, <1>5, <1>6 DEF Others, Does

(* The root of the backup is written, and a host works in the restored one. *)
Surroundings == Restore!Write \/ Restore!HostOpens \/ Restore!HostWorks \/ Restore!HostCloses

LEMMA HostAndOrigin ==
  ASSUME RestoreInv, Surroundings
  PROVE  /\ RestoreTyped' /\ UNCHANGED <<exec, reported, apart>>
         /\ target'.by = target.by /\ target'.intent = target.intent /\ target'.marker = target.marker
         /\ target'.derived = target.derived
         /\ \/ UNCHANGED <<anchor, target>>
            \/ /\ anchor' = anchor + 1 /\ target' = target /\ target.gen <= 0
            \/ /\ anchor' = anchor + 1 /\ (\A p \in Processes : exec[p].pc \notin Inside)
               /\ \/ target' = target /\ target = Restore!Absent
                  \/ target'.gen = target.gen + 1 /\ target'.worked /\ target.gen \in {anchor, -1}
         /\ target'.gen > 0 => origin' < anchor'
<1>0. /\ anchor \in 0 .. MaxHead /\ origin \in 0 .. MaxHead /\ origin <= anchor /\ target \in Roots
      /\ target.gen <= anchor /\ target.gen \in Int /\ MaxHead \in Nat
      /\ target.gen > 0 => origin < anchor
      /\ opened \notin Processes => \A p \in Processes : exec[p].pc \notin Inside
  BY PartsAssumption
     DEF RestoreInv, RestoreTyped, HeadsTyped, Roots, OpenedByOne, Restore!OneLineage,
         Restore!RestoreAssumption
<1>1. CASE Restore!Write
  <2>1. /\ UNCHANGED <<target, reservation, opened, exec, reported, apart>>
        /\ origin = anchor /\ anchor' = anchor + 1 /\ origin' = origin + 1 /\ anchor < MaxHead
    BY <1>1 DEF Restore!Write
  <2>2. RestoreTyped'
    BY <1>0, <2>1 DEF RestoreInv, RestoreTyped, HeadsTyped, ExecutionsTyped, OpenedByOne
  <2> QED
    BY <1>0, <2>1, <2>2
<1>2. CASE Restore!HostOpens \/ Restore!HostCloses
  <2>1. /\ UNCHANGED <<target, reservation, exec, reported, apart, anchor, origin>>
        /\ opened \notin Processes /\ opened' \in {Restore!None, Restore!Host}
    BY <1>2, BareRoots DEF Restore!HostOpens, Restore!HostCloses, Restore!worldVars, Restore!Openable
  <2>2. RestoreTyped'
    BY <1>0, <2>1 DEF RestoreInv, RestoreTyped, HeadsTyped, ExecutionsTyped, OpenedByOne
  <2> QED
    BY <1>0, <2>1, <2>2
<1>3. CASE Restore!HostWorks
  <2>1. /\ UNCHANGED <<reservation, exec, reported, apart, origin, opened>>
        /\ opened = Restore!Host /\ anchor' = anchor + 1 /\ anchor < MaxHead
        /\ target.gen \in {anchor, -1}
    BY <1>3, BareRoots DEF Restore!HostWorks
  <2>2. CASE target' = target /\ target = Restore!Absent
    <3>1. RestoreTyped'
      BY <1>0, <2>1, <2>2 DEF RestoreInv, RestoreTyped, HeadsTyped, ExecutionsTyped, OpenedByOne
    <3> QED
      BY <1>0, <2>1, <2>2, <3>1, BareRoots
  <2>3. CASE target' = [target EXCEPT !.gen = @ + 1, !.worked = TRUE]
    <3>1. target.gen + 1 \in -2 .. MaxHead
      BY <1>0, <2>1
    <3>2. /\ target' \in Roots /\ target'.gen = target.gen + 1 /\ target'.worked
          /\ target'.by = target.by /\ target'.intent = target.intent /\ target'.marker = target.marker
          /\ target'.derived = target.derived
      BY <1>0, <2>3, <3>1 DEF Roots
    <3>3. RestoreTyped'
      BY <1>0, <2>1, <3>2 DEF RestoreInv, RestoreTyped, HeadsTyped, ExecutionsTyped, OpenedByOne
    <3> QED
      BY <1>0, <2>1, <3>2, <3>3, BareRoots
  <2> QED
    BY <1>3, <2>2, <2>3 DEF Restore!HostWorks
<1> QED
  BY <1>1, <1>2, <1>3 DEF Surroundings

LEMMA SurroundingsKeep ==
  ASSUME RestoreInv, Surroundings PROVE RestoreInv'
<1>0. /\ anchor \in Nat /\ target.gen \in Int /\ target.gen <= anchor
  BY DEF RestoreInv, RestoreTyped, HeadsTyped, Roots
<1>1. /\ RestoreTyped' /\ UNCHANGED <<exec, reported, apart>>
      /\ target'.by = target.by /\ target'.intent = target.intent /\ target'.marker = target.marker
      /\ target'.derived = target.derived
      /\ target'.gen > 0 => origin' < anchor'
  BY HostAndOrigin
<1>2. \/ UNCHANGED <<anchor, target>>
      \/ /\ anchor' = anchor + 1 /\ target' = target /\ target.gen <= 0
      \/ /\ anchor' = anchor + 1 /\ (\A p \in Processes : exec[p].pc \notin Inside)
         /\ \/ target' = target /\ target = Restore!Absent
            \/ target'.gen = target.gen + 1 /\ target'.worked /\ target.gen \in {anchor, -1}
  BY HostAndOrigin
<1>3. InvalidWasWorked' /\ Restore!OneLineage'
  <2>1. target.worked => target'.worked
    BY <1>2
  <2>2. anchor' >= anchor /\ (target'.worked => target.worked \/ anchor' > 0) /\ (anchor' = anchor \/ anchor' > 0)
    BY <1>0, <1>2
  <2> QED
    BY <1>0, <1>1, <2>1, <2>2 DEF RestoreInv, InvalidWasWorked, Restore!OneLineage
<1>4. NothingWonYet'
  <2> SUFFICES ASSUME anchor' = 0 PROVE NothingWonYet'
    BY DEF NothingWonYet
  <2>1. UNCHANGED <<anchor, target>>
    BY <1>0, <1>2
  <2> QED
    BY <1>1, <2>1 DEF RestoreInv, NothingWonYet
<1>5. OneWinner'
  <2>1. target'.gen = anchor' => target.gen = anchor
    BY <1>0, <1>2, BareRoots
  <2>2. \A o \in Operations : Winner(o)' => Winner(o)
    BY <1>1, <2>1 DEF Winner, Wins
  <2> QED
    BY <2>2 DEF RestoreInv, OneWinner
<1>6. ASSUME apart PROVE KeptApart'
  <2>0. OperationsDiffer /\ FinalizesItsOwn /\ OwnIsOpen /\ AnswersItsOwn /\ BoundIsWhole
        /\ \A p \in Processes : Finalizes(p)
    BY <1>6 DEF RestoreInv, KeptApart
  <2>1. OperationsDiffer' /\ FinalizesItsOwn' /\ OwnIsOpen' /\ AnswersItsOwn'
    BY <1>1, <2>0 DEF OperationsDiffer, FinalizesItsOwn, OwnIsOpen, AnswersItsOwn, Bound
  <2>2. Bound' <=> Bound
    BY <1>1 DEF Bound
  <2>3. Bound => target.gen > 0 /\ target # Restore!Absent
    BY <2>0, BareRoots DEF BoundIsWhole
  <2>4. BoundIsWhole'
    <3>1. CASE ~Bound
      BY <2>2, <3>1 DEF BoundIsWhole
    <3>2. CASE Bound
      <4>1. \/ UNCHANGED <<anchor, target>>
            \/ target'.gen = target.gen + 1 /\ target'.worked
        BY <1>0, <1>2, <2>3, <3>2
      <4>2. target.marker.head \in Nat
        BY DEF RestoreInv, RestoreTyped, HeadsTyped, Roots, Markers
      <4> QED
        BY <1>0, <1>1, <2>0, <3>2, <4>1, <4>2 DEF BoundIsWhole
    <3> QED
      BY <3>1, <3>2
  <2>5. ASSUME NEW p \in Processes PROVE Finalizes(p)'
    <3>0. Restore!Marker(p)' = Restore!Marker(p)
      BY <1>1 DEF Restore!Marker, Restore!Op
    <3>1. CASE UNCHANGED <<anchor, target>>
      BY <1>1, <2>0, <2>2, <3>0, <3>1 DEF Finalizes
    <3>2. CASE anchor' = anchor + 1 /\ target' = target /\ target.gen <= 0
      <4>1. exec[p].pc \notin {"vector", "verify", "mark", "bind", "settle", "close", "check"}
        BY <1>0, <2>0, <3>2 DEF Finalizes
      <4> QED
        BY <1>1, <2>0, <2>2, <3>2, <4>1 DEF Finalizes
    <3>3. CASE /\ \A q \in Processes : exec[q].pc \notin Inside
               /\ \/ target' = target /\ target = Restore!Absent
                  \/ target'.worked
      BY <1>1, <2>2, <2>3, <3>3 DEF Finalizes, Inside
    <3> QED
      BY <1>2, <3>1, <3>2, <3>3
  <2> QED
    BY <2>1, <2>4, <2>5 DEF KeptApart
<1> QED
  BY <1>1, <1>3, <1>4, <1>5, <1>6 DEF RestoreInv, KeptApart

LEMMA AttemptsKeep ==
  ASSUME RestoreInv, NEW p \in Processes, Attempts(p) PROVE RestoreInv'
<1>1. /\ RestoreTyped /\ InvalidWasWorked /\ NothingWonYet /\ OneWinner /\ Restore!OneLineage
      /\ Does(p)
  BY AttemptsDo DEF RestoreInv
<1>2. RestoreTyped' /\ InvalidWasWorked' /\ NothingWonYet' /\ OneWinner' /\ Restore!OneLineage'
  BY <1>1, RestoreTypedStays, InvalidStays, NothingWonStays, OneWinnerStays, LineageStays
<1>3. UNCHANGED apart /\ (\A q \in Processes \ {p} : exec'[q] = exec[q])
      /\ (exec'[p] = Restore!Idle \/ exec'[p].op = exec[p].op \/ Begins(p))
  BY <1>1 DEF Does, Turns, Begins, Advances, Publishes, Blanks, Degrades, Marks, Removes, Dies,
     Answers, Remains, Ends, Alone
<1>4. ASSUME apart PROVE KeptApart'
  <2>1. Others(p) /\ BoundIsWhole /\ \A q \in Processes : Finalizes(q)
    BY <1>1, <1>3, <1>4 DEF Others, RestoreInv, KeptApart
  <2>2. OperationsDiffer'
    BY <1>4, <2>1, OperationsStayDifferent DEF Others
  <2>3. FinalizesItsOwn' /\ OwnIsOpen' /\ AnswersItsOwn' /\ BoundIsWhole'
    BY <2>1, FinalizesItsOwnStays, OwnIsOpenStays, AnswersItsOwnStays, BoundIsWholeStays
  <2>4. ASSUME NEW q \in Processes PROVE Finalizes(q)'
    BY <1>1, <2>1, OthersFinalize, FinalizesStays
  <2> QED
    BY <2>2, <2>3, <2>4 DEF KeptApart
<1> QED
  BY <1>2, <1>3, <1>4 DEF RestoreInv, KeptApart

LEMMA RestoreStarts == Restore!RInit => RestoreInv
<1> SUFFICES ASSUME Restore!RInit PROVE RestoreInv
  OBVIOUS
<1>1. /\ anchor = 0 /\ origin = 0 /\ target = Restore!Absent /\ reservation = Restore!Free
      /\ opened = Restore!None /\ exec = [p \in Processes |-> Restore!Idle] /\ reported = {}
      /\ apart \in BOOLEAN /\ MaxHead \in Nat
  BY PartsAssumption DEF Restore!RInit, Restore!RestoreAssumption
<1>2. target \in Roots /\ target.gen = -1 /\ target.marker.op \notin Operations /\ target.worked = FALSE
      /\ target.marker = Restore!NoMarker /\ target.intent = Restore!None
  BY <1>1, BareRoots
<1>3. Restore!Free \in Reservations
  BY DEF Restore!Free, Reservations
<1>4. RestoreTyped
  BY <1>1, <1>2, <1>3, IdleIsTyped
     DEF RestoreTyped, ExecutionsTyped, HeadsTyped, OpenedByOne, Inside
<1>5. InvalidWasWorked /\ NothingWonYet /\ Restore!OneLineage
  BY <1>1, <1>2, BareRoots, IdleIsTyped
     DEF InvalidWasWorked, NothingWonYet, Restore!OneLineage, Won, Inside
<1>6. OneWinner
  BY <1>1, <1>2, IdleIsTyped DEF OneWinner, Winner, Wins, Won, Inside
<1>7. KeptApart
  <2>1. ~Bound
    BY <1>2 DEF Bound
  <2>2. \A p \in Processes : exec[p].pc = "idle" /\ exec[p].op \notin Operations /\ ~exec[p].fresh
    BY <1>1, IdleIsTyped, BareRoots
  <2> QED
    BY <1>1, <2>1, <2>2
       DEF KeptApart, OperationsDiffer, FinalizesItsOwn, OwnIsOpen, AnswersItsOwn, BoundIsWhole,
           Finalizes, Finalizing
<1> QED
  BY <1>4, <1>5, <1>6, <1>7 DEF RestoreInv

LEMMA RestoreSteps ==
  ASSUME RestoreInv, [Restore!RNext]_(Restore!restoreVars) PROVE RestoreInv'
<1>1. CASE Restore!RNext
  BY <1>1, AttemptsKeep, SurroundingsKeep DEF Restore!RNext, Attempts, Surroundings
<1>2. CASE UNCHANGED Restore!restoreVars
  <2>1. RestoreTyped'
    BY <1>2 DEF Restore!restoreVars, RestoreInv, RestoreTyped, ExecutionsTyped, HeadsTyped, OpenedByOne
  <2>2. InvalidWasWorked' /\ NothingWonYet' /\ OneWinner' /\ Restore!OneLineage'
    BY <1>2 DEF Restore!restoreVars, RestoreInv, InvalidWasWorked, NothingWonYet, OneWinner, Winner,
       Wins, Restore!OneLineage
  <2>3. KeptApart'
    BY <1>2 DEF Restore!restoreVars, RestoreInv, KeptApart, OperationsDiffer, FinalizesItsOwn,
       OwnIsOpen, AnswersItsOwn, BoundIsWhole, Finalizes, Bound, Restore!Marker, Restore!Op
  <2> QED
    BY <2>1, <2>2, <2>3 DEF RestoreInv
<1> QED
  BY <1>1, <1>2

LEMMA RestoreSafe == RestoreInv => Restore!RestoreSound
<1> SUFFICES ASSUME RestoreInv PROVE Restore!RestoreSound
  OBVIOUS
<1>1. Restore!TypeOK
  BY DEF RestoreInv, RestoreTyped, ExecutionsTyped, HeadsTyped, Roots, Reservations, Restore!TypeOK
<1>2. Restore!MarkerIsLast
  <2>1. target.marker \in {Restore!NoMarker, Restore!Torn} \/ Bound
    BY DEF RestoreInv, RestoreTyped, HeadsTyped, Roots, Markers, Bound
  <2> QED
    BY <2>1 DEF RestoreInv, KeptApart, BoundIsWhole, Restore!MarkerIsLast
<1>3. Restore!OneOperation
  BY DEF RestoreInv, RestoreTyped, ExecutionsTyped, OneWinner, Winner, Restore!OneOperation
<1> QED
  BY <1>1, <1>2, <1>3 DEF RestoreInv, Restore!RestoreSound

LEMMA EachStepIsExclusive ==
  ASSUME RestoreInv, [Restore!RNext]_(Restore!restoreVars)
  PROVE  [Restore!RestoreStep]_(Restore!restoreVars)
<1> SUFFICES ASSUME Restore!RNext PROVE Restore!RestoreStep
  OBVIOUS
<1>0. target \in Roots /\ target.gen \in Int /\ target.gen <= anchor /\ anchor \in Nat
  BY DEF RestoreInv, RestoreTyped, HeadsTyped, Roots
<1>1. CASE Surroundings
  <2>1. target'.by = target.by /\ (target # Restore!Absent => target' # Restore!Absent) /\ UNCHANGED exec
    BY <1>1, HostAndOrigin, BareRoots
  <2> QED
    BY <2>1 DEF Restore!RestoreStep, Restore!Succeeding
<1>2. ASSUME NEW p \in Processes, Attempts(p) PROVE Restore!RestoreStep
  <2>1. Does(p) /\ RestoreTyped
    BY <1>2, AttemptsDo DEF RestoreInv
  <2>2. target # Restore!Absent => target' = Restore!Absent \/ target'.by \in {target.by, Restore!Gone}
    <3> SUFFICES ASSUME target # Restore!Absent
                 PROVE  target' = Restore!Absent \/ target'.by \in {target.by, Restore!Gone}
      OBVIOUS
    <3>1. ~Publishes(p) /\ ~Blanks(p)
      BY DEF Publishes, Blanks
    <3> QED
      BY <2>1, <3>1, DegradesRoot, MarksRoot, DiesRoot DEF Does, Turns, Begins, Advances, Answers, Removes
  <2>3. ASSUME apart, NEW q \in Processes, Restore!Succeeding(q) PROVE Restore!Whole(Restore!Op(q))
    <3>1. exec[q].pc \in {"close", "check"} /\ exec'[q].pc \in {"releaseDone", "answer"}
      BY <2>3 DEF Restore!Succeeding
    <3>2. p = q
      BY <2>1, <3>1 DEF Does, Turns, Begins, Advances, Publishes, Blanks, Degrades, Marks, Removes,
         Dies, Answers, Remains, Ends, Alone
    <3>3. Advances(p)
      BY <2>1, <3>1, <3>2, IdleIsTyped
         DEF Does, Turns, Begins, Publishes, Blanks, Degrades, Marks, Removes, Dies, Answers,
             Remains, Ends, Plain
    <3>4. /\ target.gen = anchor /\ anchor > 0 /\ target.marker.op = exec[p].op
          /\ exec[p].op \in Operations /\ target # Restore!Absent
      BY <2>3, <3>1, <3>2, BareRoots
         DEF RestoreInv, KeptApart, Finalizes, AnswersItsOwn, RestoreTyped, ExecutionsTyped
    <3>5. CASE exec[p].pc = "close"
      <4>1. ~target.worked /\ target.marker = [op |-> exec[p].op, head |-> anchor]
        BY <2>3, <3>5 DEF RestoreInv, KeptApart, Finalizes, Restore!Marker, Restore!Op
      <4> QED
        BY <3>2, <3>4, <4>1 DEF Restore!Whole, Restore!Recognised, Restore!Op
    <3>6. CASE exec[p].pc = "check"
      <4>1. ~target.worked
        BY <3>1, <3>2, <3>3, <3>6 DEF Advances
      <4>2. target.marker.head = anchor /\ target.marker \in Markers
        BY <1>0, <2>3, <3>4, <4>1 DEF RestoreInv, KeptApart, BoundIsWhole, Bound, Roots
      <4>3. target.marker = [op |-> exec[p].op, head |-> anchor]
        BY <3>4, <4>2 DEF Markers
      <4> QED
        BY <3>2, <3>4, <4>1, <4>3 DEF Restore!Whole, Restore!Recognised, Restore!Op
    <3> QED
      BY <3>1, <3>2, <3>5, <3>6
  <2>4. ASSUME apart, target # Restore!Absent, target' = Restore!Absent PROVE reported = {}
    <3>1. ~Publishes(p) /\ ~Blanks(p) /\ ~Turns(p) /\ ~Begins(p) /\ ~Advances(p) /\ ~Answers(p)
      BY <2>4 DEF Publishes, Blanks, Turns, Begins, Advances, Answers
    <3>2. ~Degrades(p) /\ ~Dies(p)
      BY <1>0, <2>1, <2>4, DegradesRoot, DiesRoot, BareRoots
    <3>3. ~Marks(p)
      <4> SUFFICES ASSUME Marks(p) PROVE FALSE
        OBVIOUS
      <4>1. target'.gen = target.gen /\ exec[p].pc \in {"mark", "bind", "settle"}
        BY <2>1, MarksRoot DEF Marks
      <4>2. target.gen = anchor
        BY <2>4, <4>1 DEF RestoreInv, KeptApart, Finalizes
      <4> QED
        BY <1>0, <2>4, <4>1, <4>2, BareRoots
    <3>4. Removes(p)
      BY <2>1, <3>1, <3>2, <3>3 DEF Does
    <3> QED
      BY <2>4, <3>4 DEF Removes, RestoreInv, KeptApart, OwnIsOpen, AnswersItsOwn, Bound,
         RestoreTyped, ExecutionsTyped
  <2> QED
    BY <2>2, <2>3, <2>4 DEF Restore!RestoreStep
<1> QED
  BY <1>1, <1>2 DEF Restore!RNext, Attempts, Surroundings

(* A backup is restored by one operation at most, and of the root of the    *)
(* backup and the restored one, one at most is written.  When the           *)
(* executions of one operation are kept apart, a root that bears the marker *)
(* is whole.                                                                *)
THEOREM RestoreIsSafe == Restore!RSpec => []Restore!RestoreSound
<1>1. Restore!RInit => RestoreInv
  BY RestoreStarts
<1>2. RestoreInv /\ [Restore!RNext]_(Restore!restoreVars) => RestoreInv'
  BY RestoreSteps
<1>3. RestoreInv => Restore!RestoreSound
  BY RestoreSafe
<1> QED
  BY <1>1, <1>2, <1>3, PTL DEF Restore!RSpec

(* No directory is replaced, and only its publisher removes it; when the    *)
(* executions of one operation are kept apart, what is answered is whole,   *)
(* and it is not removed.                                                   *)
THEOREM RestoreStaysExclusive == Restore!RSpec => Restore!RestoreIsExclusive
<1>1. Restore!RInit => RestoreInv
  BY RestoreStarts
<1>2. RestoreInv /\ [Restore!RNext]_(Restore!restoreVars) => RestoreInv'
  BY RestoreSteps
<1>3. RestoreInv /\ [Restore!RNext]_(Restore!restoreVars) => [Restore!RestoreStep]_(Restore!restoreVars)
  BY EachStepIsExclusive
<1> QED
  BY <1>1, <1>2, <1>3, PTL DEF Restore!RSpec, Restore!RestoreIsExclusive

-----------------------------------------------------------------------------
(* The parts of MCFiles.  A part whose turn it is not rests, so that every  *)
(* behaviour of MCFiles is one of each part.                               *)

LEMMA PartsRun == AllSpec => /\ Spool!HSpec /\ Journal!JSpec /\ Launch!Spec
                          /\ Operator!OSpec /\ Restore!RSpec
<1>1. AllInit => /\ Spool!HInit /\ Journal!JInit /\ Launch!Init
                 /\ Operator!OInit /\ Restore!RInit
  BY DEF AllInit
<1>2. [AllNext]_allVars =>
        [Spool!HNext]_(Spool!vars) /\ [Journal!JNext]_(Journal!jVars) /\ [Launch!Next]_(Launch!vars)
  BY DEF AllNext, In, Shared, allVars, leaseVars, spoolVars, journalVars, launchVars, Spool!vars,
         Journal!jVars, Journal!files, Journal!local, Launch!vars, Launch!launcher, Launch!held, Launch!host
<1>3. [AllNext]_allVars =>
        [Operator!ONext]_(Operator!operatorVars) /\ [Restore!RNext]_(Restore!restoreVars)
  BY DEF AllNext, In, Shared, allVars, operatorVars, restoreVars, Operator!operatorVars,
         Restore!restoreVars
<1> QED
  BY <1>1, <1>2, <1>3, PTL
     DEF AllSpec, Spool!HSpec, Journal!JSpec, Launch!Spec, Operator!OSpec, Restore!RSpec

(* In every behaviour of MCFiles the entries of the spool are kept until   *)
(* they are acknowledged, within the bound: SpoolIsSound for its hooks.    *)
THEOREM SpoolOfFiles == AllSpec => []SpoolSound
<1>1. Spool!HSpec => []Spool!SpoolSound
  BY Spool!SpoolIsSound, PartsAssumption
<1>2. Spool!SpoolSound => SpoolSound
  BY DEF SpoolSound
<1> QED
  BY <1>1, <1>2, PartsRun, PTL

(* In every behaviour of MCFiles the files of the journal agree:           *)
(* JournalIsSound for its processes, keys and reservations.                *)
THEOREM JournalOfFiles == AllSpec => []JournalSound
<1>1. Journal!JSpec => []Journal!JournalSound
  BY Journal!JournalIsSound, PartsAssumption
<1>2. Journal!JournalSound => JournalSound
  BY DEF JournalSound
<1> QED
  BY <1>1, <1>2, PartsRun, PTL

(* And the journal implements the atomic provider (JournalImplements).     *)
THEOREM HeadProviderOfFiles == AllSpec => HeadProviderSpec
<1>1. Journal!JSpec => Journal!HeadProviderSpec
  BY Journal!JournalImplements, PartsAssumption
<1> QED
  BY <1>1, PartsRun, PTL DEF HeadProviderSpec

(* And the workbench's launches are sound (LaunchIsSound).                 *)
THEOREM LaunchOfFiles == AllSpec => []HostIsFound
<1>1. Launch!HostIsFound => HostIsFound
  BY DEF HostIsFound
<1> QED
  BY <1>1, LaunchIsSound, PartsRun, PTL

(* And the operator's actions and the restores are sound: OperatorIsSafe,   *)
(* ActionsStayAuthorised, RestoreIsSafe and RestoreStaysExclusive.          *)
THEOREM OperatorOfFiles == ASSUME OneRecoverer PROVE AllSpec => OperatorSound
<1>1. [Operator!ActionsStep]_(Operator!operatorVars)
        => [part = "operator" => Operator!ActionsStep]_operatorVars
  BY DEF operatorVars, Operator!operatorVars
<1>2. Operator!OSpec => [][part = "operator" => Operator!ActionsStep]_operatorVars
  BY <1>1, ActionsStayAuthorised, PTL DEF Operator!ActionsAreAuthorised
<1> QED
  BY <1>2, OperatorIsSafe, RestoreIsSafe, RestoreStaysExclusive, PartsRun, PTL DEF OperatorSound
=============================================================================
