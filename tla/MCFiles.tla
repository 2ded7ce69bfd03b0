-------------------------------- MODULE MCFiles --------------------------------
(* The components that keep their state in files which processes share:    *)
(* the root lease, the spool of the Codex hooks, the journal of the        *)
(* recovery head, the artifacts of the workbench's launch, the ledger of   *)
(* the operator's actions and the directory a restore publishes.  Each is  *)
(* on its own here: a behaviour is one of one of them.                     *)
EXTENDS RootLease, TLC

CONSTANTS Launchers,                \* of the workbench
          MaxDead,                  \* bound: processes of a launch that die
          Processes, Confirmations, Issued, Recoverers, Commands,   \* of the operator
          Ttl, MaxTime, MaxFaults,
          Operations, MaxHead, MaxKilled,                           \* of the restores
          h1, h2, h3, b1, b2,       \* processes and hooks
          e1, e2, k1, k2,           \* events and idempotency keys
          p1, p2, c1, c2            \* the operator's processes and confirmations

InTurn == c1 :> 0 @@ c2 :> 1     \* when the confirmations are signed
ThreeHosts == {h1, h2, h3}
TwoBootstraps == {b1, b2}

VARIABLES part,
          spool, quarantine, hook, seen, captured, kept,
          journal, head, records, index, sequence, headLock, pc, snap, job, made, crashes,
          lpc, result, early, launchLock, launchName, hpc, state, files, root, blocked,
          deaths, undercut,
          command, locks, temps, consumed, record, effect, receipt, moved, storage,
          proc, recoverer, time, faults, runs,
          anchor, origin, target, reservation, opened, exec, reported, apart, killed

leaseVars == vars
spoolVars == <<spool, quarantine, hook, seen, captured, kept>>
journalVars ==
  <<journal, head, records, index, sequence, headLock, pc, snap, job, made, crashes>>
launchVars ==
  <<lpc, result, early, launchLock, launchName, hpc, state, files, root, blocked,
    deaths, undercut>>
operatorVars ==
  <<command, locks, temps, consumed, record, effect, receipt, moved, storage,
    proc, recoverer, time, faults, runs>>
restoreVars ==
  <<anchor, origin, target, reservation, opened, exec, reported, apart, killed>>
allVars ==
  <<part, leaseVars, spoolVars, journalVars, launchVars, operatorVars, restoreVars>>

\* One event is delivered twice, and there is another one.  The instances of
\* the spool and of the journal bring their theorems with them (FilesProofs).
Spool == INSTANCE HookSpoolProofs WITH
  Hooks <- {h1, h2, h3}, Events <- {e1, e2},
  EventOf <- (h1 :> e1 @@ h2 :> e1 @@ h3 :> e2), Visitor <- NoHost,
  MaxEntries <- 1, FlushLimit <- 2, MaxActive <- 3,
  Overlap <- FALSE, Kills <- TRUE, Outages <- TRUE

Journal == INSTANCE JournalProofs WITH
  Keys <- {k1, k2}, Ids <- 1 .. 2, MaxPending <- 2, Readers <- {"reader"},
  Aborts <- TRUE, MaxJournal <- 3, MaxGen <- 4, MaxCrashes <- 2, lock <- headLock

Launch == INSTANCE WorkbenchLaunch WITH
  MaxCrashes <- MaxDead, lock <- launchLock, named <- launchName,
  lease <- root, crashes <- deaths

Operator == INSTANCE OperatorActions WITH lease <- storage

\* Executions of the operator's command line restore one backup to one target.
Restore == INSTANCE RestorePublication WITH
  Executions <- Processes, MaxDeaths <- MaxKilled,
  head <- anchor, locked <- apart, deaths <- killed

Sym == Permutations({h1, h2}) \cup Permutations({p1, p2})

ASSUME PartsAssumption ==
  /\ Spool!HookAssumption
  /\ Journal!ProcsAssumption /\ Journal!IdsAssumption /\ Journal!JournalAssumption
  /\ Launch!LaunchAssumption /\ Launch!NobodyAssumption
  /\ Operator!OperatorAssumption
  /\ Restore!RestoreAssumption

-----------------------------------------------------------------------------
Parts == {"lease", "spool", "journal", "launch", "operator", "restore"}
AllInit ==
  /\ part \in Parts
  /\ Init /\ Spool!HInit /\ Journal!JInit
  /\ Launch!Init /\ (part # "launch" => ~blocked)
  /\ Operator!OInit /\ (part # "operator" => command = CHOOSE c \in Commands : TRUE)
  /\ Restore!RInit /\ (part # "restore" => apart)

In(p, Action) == part = p /\ Action /\ UNCHANGED part
Shared == <<leaseVars, spoolVars, journalVars, launchVars>>

AllNext ==
  \/ In("lease", Next)
     /\ UNCHANGED <<spoolVars, journalVars, launchVars, operatorVars, restoreVars>>
  \/ In("spool", Spool!HNext)
     /\ UNCHANGED <<leaseVars, journalVars, launchVars, operatorVars, restoreVars>>
  \/ In("journal", Journal!JNext)
     /\ UNCHANGED <<leaseVars, spoolVars, launchVars, operatorVars, restoreVars>>
  \/ In("launch", Launch!Next)
     /\ UNCHANGED <<leaseVars, spoolVars, journalVars, operatorVars, restoreVars>>
  \/ In("operator", Operator!ONext) /\ UNCHANGED <<Shared, restoreVars>>
  \/ In("restore", Restore!RNext) /\ UNCHANGED <<Shared, operatorVars>>

AllSpec == AllInit /\ [][AllNext]_allVars

-----------------------------------------------------------------------------
(* The properties of the parts, where they are stated; those of RootLease  *)
(* have their own names.  Of a part that rests there is nothing to check.  *)
SpoolSound == part = "spool" => Spool!SpoolSound
JournalSound == part = "journal" => Journal!JournalSound
HeadProviderSpec == Journal!HeadProviderSpec
HostIsFound == part = "launch" => Launch!HostIsFound
OperatorSound ==
  /\ [](part = "operator" => Operator!ActionsSound)
  /\ [][part = "operator" => Operator!ActionsStep]_operatorVars
  /\ [](part = "restore" => Restore!RestoreSound) /\ Restore!RestoreIsExclusive
=============================================================================
