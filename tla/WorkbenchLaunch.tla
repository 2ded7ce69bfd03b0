--------------------------- MODULE WorkbenchLaunch ---------------------------
(***************************************************************************)
(* How the workbench gets its one host process (apps/memory-workbench-     *)
(* host): any number of launchers (lifecycle/launcher.ts) look for a host  *)
(* to reuse, take the launch lock (lifecycle/launch-lock.ts), clear what a *)
(* dead host left (lifecycle/artifacts.ts), spawn a host and wait for it.  *)
(* The host (host.ts, and packages/runtime-host, host.ts) takes the root   *)
(* lease and publishes its credentials, socket and descriptors one after   *)
(* the other, each by linking a finished file to a name nobody may have,   *)
(* and takes back on shutdown those that are still its own.                *)
(*                                                                         *)
(* A launcher spawns at most one host, which has its launcher's name here. *)
(* Files are named by what they are and hold the host that wrote them.     *)
(***************************************************************************)
EXTENDS Naturals, FiniteSets

CONSTANTS Launchers,
          MaxCrashes        \* bound: processes that die

LaunchAssumption == MaxCrashes \in Nat

Nobody == "nobody"
NobodyAssumption == Nobody \notin Launchers

VARIABLES lpc,          \* what each launcher does next, or how it ended
          result,       \* the state of the host it returned
          early,        \* could the runtime be opened when it began?
          lock,         \* maker of the launch lock directory
          named,        \* whose name is in it
          hpc,          \* what each host does next
          state,        \* its runtime_state
          files,        \* artifact -> host that published it
          lease,        \* the root writer lease
          blocked,      \* is there a reason the runtime cannot open?
          crashes,
          undercut      \* history: has a recovery taken away the lock of a launch
                        \* that was under way?  Only properties read it.

launcher == <<lpc, result, early>>
held == <<lock, named>>
host == <<hpc, state>>
vars == <<launcher, held, host, files, lease, blocked, crashes, undercut>>

(* The credentials of the operator and the hooks, published together, are  *)
(* "control"; the descriptor for the hooks is "hook".                       *)
RuntimeFiles == {"key", "socket", "descriptor"}
Artifacts == {"control", "hook", "endpoint"} \cup RuntimeFiles

LauncherEnds == {"done", "failed", "dead"}
HostEnds == {"exited", "dead"}
Starting == {"spawned", "open", "key", "socket", "descriptor", "hook", "endpoint"}
Serving  == {"hook", "endpoint", "up"}          \* its HTTP server listens
Listens(h) == hpc[h] \in {"descriptor", "hook", "endpoint", "up"} /\ lease = h
Running(h) == hpc[h] \notin HostEnds \cup {"none"}

TypeOK ==
  /\ lpc \in [Launchers -> LauncherEnds \cup
       {"idle", "look", "lock", "steal", "name", "recheck", "live", "clean", "spawn", "wait"}]
  /\ result \in [Launchers -> {"none", "ready", "health_only"}]
  /\ early \in [Launchers -> BOOLEAN]
  /\ hpc \in [Launchers -> HostEnds \cup Starting \cup {"none", "up", "draining", "removing"}]
  /\ state \in [Launchers -> {"ready", "health_only"}]
  /\ files \in [Artifacts -> Launchers \cup {Nobody}]
  /\ {lock, named, lease} \subseteq Launchers \cup {Nobody}
  /\ blocked \in BOOLEAN /\ undercut \in BOOLEAN /\ crashes \in 0 .. MaxCrashes

Init ==
  /\ lpc = [l \in Launchers |-> "idle"]
  /\ result = [l \in Launchers |-> "none"] /\ early = [l \in Launchers |-> FALSE]
  /\ hpc = [l \in Launchers |-> "none"] /\ state = [l \in Launchers |-> "health_only"]
  /\ files = [f \in Artifacts |-> Nobody]
  /\ lock = Nobody /\ named = Nobody /\ undercut = FALSE
  /\ lease = Nobody /\ blocked \in BOOLEAN /\ crashes = 0

-----------------------------------------------------------------------------
(* Files. *)

Owned(h, f) == files[f] = h
Without(h, fs) == [f \in Artifacts |-> IF f \in fs /\ Owned(h, f) THEN Nobody ELSE files[f]]
Free(f) == files[f] = Nobody

-----------------------------------------------------------------------------
(* A launcher. *)

Goto(l, step) == lpc' = [lpc EXCEPT ![l] = step]

(* It ends, and gives back the lock if that is still the one it made.      *)
End(l, how, found) ==
  /\ Goto(l, how)
  /\ result' = [result EXCEPT ![l] = found]
  /\ IF lock = l THEN lock' = Nobody /\ named' = Nobody ELSE UNCHANGED held

Begin(l) ==
  /\ lpc[l] = "idle" /\ Goto(l, "look")
  /\ early' = [early EXCEPT ![l] = ~blocked /\ (lease = Nobody \/ hpc[lease] = "up")]
  /\ UNCHANGED <<result, held, host, files, lease, blocked, crashes, undercut>>

(* existingEndpoint: the host that answers is reused, with its runtime or  *)
(* without; one that does not answer but lives is left alone.              *)
Reusable(e) == e # Nobody /\ hpc[e] \in Serving /\ files["control"] = e

(* runtimeIsLive: the descriptor's host answers on its socket.             *)
RuntimeAnswers ==
  LET d == files["descriptor"] IN d # Nobody /\ Listens(d) /\ files["key"] = d

HoldsOn(e) == e # Nobody /\ (Running(e) \/ RuntimeAnswers)

Look(l) ==
  /\ lpc[l] \in {"look", "recheck"}
  /\ LET e == files["endpoint"]
     IN IF Reusable(e) THEN End(l, "done", state[e])
        ELSE IF HoldsOn(e) THEN End(l, "failed", "none")
        ELSE /\ Goto(l, IF lpc[l] = "look" THEN "lock" ELSE "live")
             /\ UNCHANGED <<result, held>>
  /\ UNCHANGED <<early, host, files, lease, blocked, crashes, undercut>>

NoSecondLook == "live"                          \* mutation: the first look stands
AfterLock == "recheck"

(* A lock is given up a second after it was made if its owner is dead, or  *)
(* if it does not name one.                                                *)
Expired == IF named = Nobody THEN TRUE ELSE lpc[named] = "dead"

Lock(l) ==
  /\ lpc[l] = "lock"
  /\ \/ lock = Nobody /\ lock' = l /\ Goto(l, "name")
     \/ lock # Nobody /\ Goto(l, "look") /\ UNCHANGED lock
     \/ lock # Nobody /\ Expired /\ Goto(l, "steal") /\ UNCHANGED lock
  /\ UNCHANGED <<named, result, early, host, files, lease, blocked, crashes, undercut>>

(* The lock is taken away by its path: it may be another one by now than   *)
(* the one that was looked at, and a host may still be starting for a      *)
(* launcher that is dead.                                                  *)
UnderWay(m) == m # Nobody /\ (lpc[m] # "dead" \/ hpc[m] \in Starting)
TakenAway ==
  lock' = Nobody /\ named' = Nobody /\ undercut' = (undercut \/ UnderWay(lock))

(* It names its owner; where that fails, the directory goes.               *)
Name(l) ==
  /\ lpc[l] = "name"
  /\ IF lock # Nobody /\ named = Nobody
     THEN named' = l /\ Goto(l, AfterLock) /\ UNCHANGED <<lock, undercut>>
     ELSE TakenAway /\ Goto(l, "failed")
  /\ UNCHANGED <<result, early, host, files, lease, blocked, crashes>>

Steal(l) ==
  /\ lpc[l] = "steal" /\ Goto(l, "look") /\ TakenAway
  /\ UNCHANGED <<result, early, host, files, lease, blocked, crashes>>

(* lockTimeoutMs has passed, or the lock went as its owner was looked up.  *)
Busy(l) ==
  /\ lpc[l] \in {"look", "lock"} /\ lock \notin {Nobody, l}
  /\ End(l, "failed", "none")
  /\ UNCHANGED <<early, host, files, lease, blocked, crashes, undercut>>

Live(l) ==
  /\ lpc[l] = "live"
  /\ IF RuntimeAnswers THEN End(l, "failed", "none")
     ELSE Goto(l, "clean") /\ UNCHANGED <<result, held>>
  /\ UNCHANGED <<early, host, files, lease, blocked, crashes, undercut>>

Clean(l) ==
  /\ lpc[l] = "clean" /\ Goto(l, "spawn")
  /\ files' = [f \in Artifacts |-> Nobody]
  /\ UNCHANGED <<result, early, held, host, lease, blocked, crashes, undercut>>

Spawn(l) ==
  /\ lpc[l] = "spawn" /\ Goto(l, "wait")
  /\ hpc' = [hpc EXCEPT ![l] = "spawned"]
  /\ UNCHANGED <<result, early, held, state, files, lease, blocked, crashes, undercut>>

(* A host that is up handles SIGTERM; one that starts dies of it.          *)
Signalled(h) ==
  hpc' = [hpc EXCEPT ![h] = IF @ = "up" THEN "draining" ELSE IF @ \in Starting THEN "dead" ELSE @]

(* The host says it is ready, and what it says is what it published.       *)
Ready(l) ==
  /\ lpc[l] = "wait" /\ hpc[l] = "up"
  /\ IF files["endpoint"] = l
     THEN End(l, "done", state[l]) /\ UNCHANGED hpc
     ELSE End(l, "failed", "none") /\ Signalled(l)
  /\ UNCHANGED <<early, state, files, lease, blocked, crashes, undercut>>

(* startupTimeoutMs has passed, or the host has ended.                     *)
GiveUp(l) ==
  /\ lpc[l] = "wait"
  /\ End(l, "failed", "none") /\ Signalled(l)
  /\ UNCHANGED <<early, state, files, lease, blocked, crashes, undercut>>

-----------------------------------------------------------------------------
(* A host. *)

Become(h, step) == hpc' = [hpc EXCEPT ![h] = step]

(* It cannot start: it takes back what it published and ends.              *)
Abandon(h) ==
  /\ Become(h, "exited")
  /\ files' = Without(h, Artifacts)
  /\ lease' = IF lease = h THEN Nobody ELSE lease
  /\ UNCHANGED state

(* It has no runtime: it goes on, to show its health.                      *)
HealthOnly(h) ==
  /\ Become(h, "hook") /\ state' = [state EXCEPT ![h] = "health_only"]
  /\ files' = Without(h, RuntimeFiles)
  /\ lease' = IF lease = h THEN Nobody ELSE lease

Publish(h, f, next) ==
  /\ files' = [files EXCEPT ![f] = h] /\ Become(h, next)
  /\ UNCHANGED <<state, lease>>

PublishControl(h) ==
  /\ hpc[h] = "spawned"
  /\ IF Free("control") THEN Publish(h, "control", "open") ELSE Abandon(h)

OpenRuntime(h) ==
  /\ hpc[h] = "open"
  /\ IF blocked \/ lease # Nobody THEN HealthOnly(h)
     ELSE lease' = h /\ Become(h, "key") /\ UNCHANGED <<state, files>>

PublishRuntime(h) ==
  \/ /\ hpc[h] = "key"
     /\ IF Free("key") THEN Publish(h, "key", "socket") ELSE HealthOnly(h)
  \/ /\ hpc[h] = "socket"
     /\ IF Free("socket") THEN Publish(h, "socket", "descriptor") ELSE HealthOnly(h)
  \/ /\ hpc[h] = "descriptor"
     /\ IF Free("descriptor")
        THEN /\ files' = [files EXCEPT !["descriptor"] = h] /\ Become(h, "hook")
             /\ state' = [state EXCEPT ![h] = "ready"] /\ UNCHANGED lease
        ELSE HealthOnly(h)

PublishEndpoint(h) ==
  \/ /\ hpc[h] = "hook"
     /\ IF Free("hook") THEN Publish(h, "hook", "endpoint") ELSE Abandon(h)
  \/ /\ hpc[h] = "endpoint"
     /\ IF Free("endpoint") THEN Publish(h, "endpoint", "up") ELSE Abandon(h)

(* Shutdown: HTTP, then the runtime, whose lease goes first, then the      *)
(* files, which the process removes without giving up control.             *)
Terminate(h) ==
  /\ hpc[h] = "up" /\ Become(h, "draining") /\ UNCHANGED <<state, files, lease>>
Release(h) ==
  /\ hpc[h] = "draining" /\ Become(h, "removing")
  /\ lease' = IF lease = h THEN Nobody ELSE lease
  /\ UNCHANGED <<state, files>>
Remove(h) ==
  /\ hpc[h] = "removing" /\ Become(h, "exited")
  /\ files' = Without(h, Artifacts) /\ UNCHANGED <<state, lease>>

HostStep(h) ==
  /\ \/ PublishControl(h) \/ OpenRuntime(h) \/ PublishRuntime(h) \/ PublishEndpoint(h)
     \/ Terminate(h) \/ Release(h) \/ Remove(h)
  /\ UNCHANGED <<launcher, held, blocked, crashes, undercut>>

-----------------------------------------------------------------------------
(* What happens to them. *)

HostDies(h) ==
  /\ Running(h) /\ crashes < MaxCrashes
  /\ crashes' = crashes + 1 /\ Become(h, "dead")
  /\ UNCHANGED <<launcher, held, state, files, lease, blocked, undercut>>

LauncherDies(l) ==
  /\ lpc[l] \notin LauncherEnds \cup {"idle"} /\ crashes < MaxCrashes
  /\ crashes' = crashes + 1 /\ Goto(l, "dead")
  /\ UNCHANGED <<result, early, held, host, files, lease, blocked, undercut>>

(* Someone proves the lease expired and its owner dead (RootLease).        *)
RecoverLease ==
  /\ lease # Nobody /\ hpc[lease] = "dead"
  /\ lease' = Nobody
  /\ UNCHANGED <<launcher, held, host, files, blocked, crashes, undercut>>

(* The operator repairs what kept the runtime from opening.                *)
Repair ==
  /\ blocked /\ blocked' = FALSE
  /\ UNCHANGED <<launcher, held, host, files, lease, crashes, undercut>>

LauncherStep(l) ==
  Begin(l) \/ Look(l) \/ Lock(l) \/ Name(l) \/ Steal(l) \/ Busy(l) \/ Live(l) \/ Clean(l)
  \/ Spawn(l) \/ Ready(l) \/ GiveUp(l)

Next ==
  \/ \E l \in Launchers : LauncherStep(l)
  \/ \E h \in Launchers : HostStep(h)
  \/ \E h \in Launchers : HostDies(h)
  \/ \E l \in Launchers : LauncherDies(l)
  \/ RecoverLease \/ Repair

Spec == Init /\ [][Next]_vars

-----------------------------------------------------------------------------
(* Nobody's start takes away a host that is up: it can be found, and asked *)
(* for a ticket with the credential it knows, as long as it serves.        *)
Reachable ==
  \A h \in Launchers :
    hpc[h] = "up" => files["endpoint"] = h /\ files["control"] = h /\ files["hook"] = h

(* A host with a runtime is the one that holds the root ...                *)
HasRuntime(h) == hpc[h] = "up" /\ state[h] = "ready"
HoldsRoot == \A h \in Launchers : HasRuntime(h) => lease = h

(* ... and can be reached by its MCP sessions.                             *)
RuntimeIsReachable ==
  \A h \in Launchers : HasRuntime(h) => \A f \in RuntimeFiles : files[f] = h

(* A host that ended by itself leaves nothing a later one could trip over. *)
LeavesNothing ==
  \A h \in Launchers : hpc[h] = "exited" => lease # h /\ \A f \in Artifacts : files[f] # h

(* However launchers race and whoever dies, one host at most has a runtime, *)
(* and one that ended is in nobody's way; a live host can be found by the   *)
(* next launcher and by its sessions, unless a recovery has taken away the  *)
(* lock of a launch that was under way.                                     *)
HostIsFound ==
  /\ TypeOK /\ HoldsRoot /\ LeavesNothing
  /\ ~undercut => Reachable /\ RuntimeIsReachable

(* Once its cause is repaired, a relaunch gets a host with a runtime.      *)
RelaunchIsReady ==
  \A l \in Launchers : early[l] => result[l] # "health_only"
=============================================================================
