------------------------------- MODULE MCRetries -------------------------------
(* What is tried again and again until it succeeds, each on a small        *)
(* instance: the purge of a deleted memory, the delivery of spooled hook   *)
(* events, the recovery of a dead host's root lease, the rotation of the   *)
(* key of secrets, the operator's destructive operations and a restore.  A *)
(* behaviour is one of one of them, under the fairness its module states.  *)
EXTENDS Naturals, TLC

VARIABLES part,
  memory, evidence, copies, indexed, queued, rows, files, intent, unswept, job, guard,
    maint, receipt, epoch, frontier, backups, call, crashes,
  spool, quarantine, hook, seen, captured, kept,
  lockOwner, lockFence, expired, fence, host, mine, writing, boots,
  keys, rotation, items, reservations, content, bound, gone, secretFiles, used,
    secretBackups, intents, secretMaint, op, faults,
  command, locks, temps, consumed, record, effect, answer, moved, storage,
    proc, recoverer, time, failures, runs,
  head, origin, target, reservation, opened, exec, reported, apart, deaths

purgeVars ==
  <<memory, evidence, copies, indexed, queued, rows, files, intent, unswept, job, guard,
    maint, receipt, epoch, frontier, backups, call, crashes>>
spoolVars == <<spool, quarantine, hook, seen, captured, kept>>
leaseVars == <<lockOwner, lockFence, expired, fence, host, mine, writing, boots>>
secretVars ==
  <<keys, rotation, items, reservations, content, bound, gone, secretFiles, used,
    secretBackups, intents, secretMaint, op, faults>>
operatorVars ==
  <<command, locks, temps, consumed, record, effect, answer, moved, storage,
    proc, recoverer, time, failures, runs>>
restoreVars == <<head, origin, target, reservation, opened, exec, reported, apart, deaths>>
allVars ==
  <<part, purgeVars, spoolVars, leaseVars, secretVars, operatorVars, restoreVars>>

\* Two memories that share nothing, one on text and one on a blob.
Memories == {"m1", "m2"}
Callers == {"c1", "c2"}
Saga == INSTANCE PurgeSaga WITH
  Evidence <- {"e1", "e2"}, Cites <- ("m1" :> {"e1"} @@ "m2" :> {"e2"}),
  Contents <- {"k"}, NoBlob <- "none", BlobOf <- ("e1" :> "none" @@ "e2" :> "k"),
  MaxAttempts <- 2, MaxBackups <- 0, MaxCrashes <- 2, FailAt <- {}, Operators <- {}

\* One hook of each of two events, and those that only flush.
Invocations == {"h1", "h2", "visitor"}
Spool == INSTANCE HookSpool WITH
  Hooks <- {"h1", "h2"}, Events <- {"e1", "e2"}, EventOf <- ("h1" :> "e1" @@ "h2" :> "e2"),
  Visitor <- "visitor", MaxEntries <- 2, FlushLimit <- 2, MaxActive <- 3,
  Overlap <- FALSE, Kills <- TRUE, Outages <- TRUE

Bootstraps == {"b1", "b2"}
Root == INSTANCE RootLease WITH
  Hosts <- {"h1", "h2", "h3"}, NoHost <- "nobody", Overlap <- FALSE, MaxFence <- 5

\* Two secrets, and a rotation of their key.
Secrets == INSTANCE SecretStore WITH
  Owners <- {1, 2}, Requests <- {"r1", "r2"}, OwnerOf <- ("r1" :> 1 @@ "r2" :> 2),
  Backups <- {}, MaxKeys <- 2, MaxFaults <- 1, purged <- gone, files <- secretFiles,
  backups <- secretBackups, maint <- secretMaint

\* One execution at a time, of any command, cut off once.
Operator == INSTANCE OperatorActions WITH
  Processes <- {"p"}, Confirmations <- {"signed"}, Issued <- ("signed" :> 0),
  Recoverers <- {"recoverer"}, Ttl <- 1, MaxTime <- 1, MaxFaults <- 1,
  Commands <- {"rollback", "rebuild", "purge", "rotate", "restore"},
  receipt <- answer, lease <- storage, faults <- failures

Restore == INSTANCE RestorePublication WITH
  Executions <- {"p"}, Operations <- {"o"}, MaxHead <- 5, MaxDeaths <- 1, locked <- apart

ASSUME PartsAssumption ==
  /\ Saga!PurgeAssumption /\ Spool!HookAssumption /\ Secrets!SecretAssumption
  /\ Operator!OperatorAssumption /\ Restore!RestoreAssumption

-----------------------------------------------------------------------------
Init ==
  /\ part \in {"purge", "spool", "lease", "secrets", "operator", "restore"}
  /\ Saga!PInit /\ Spool!HInit /\ Root!Init /\ Secrets!SInit
  /\ Operator!OInit /\ (part # "operator" => command = "purge")
  /\ Restore!RInit /\ apart

In(p, Action) == part = p /\ Action /\ UNCHANGED part
Others == <<operatorVars, restoreVars>>
Purging(Action) == In("purge", Action) /\ UNCHANGED <<spoolVars, leaseVars, secretVars, Others>>
Spooling(Action) == In("spool", Action) /\ UNCHANGED <<purgeVars, leaseVars, secretVars, Others>>
Leasing(Action) == In("lease", Action) /\ UNCHANGED <<purgeVars, spoolVars, secretVars, Others>>
Keeping(Action) == In("secrets", Action) /\ UNCHANGED <<purgeVars, spoolVars, leaseVars, Others>>
Firsts == <<purgeVars, spoolVars, leaseVars, secretVars>>
Operating(Action) == In("operator", Action) /\ UNCHANGED <<Firsts, restoreVars>>
Restoring(Action) == In("restore", Action) /\ UNCHANGED <<Firsts, operatorVars>>

Next == Purging(Saga!PNext) \/ Spooling(Spool!HNext) \/ Leasing(Root!Next)
        \/ Keeping(Secrets!SNext) \/ Operating(Operator!ONext) \/ Restoring(Restore!RNext)

(* As a part's actions are enabled in its own behaviours only, fairness of *)
(* a disjunction of actions of different parts is fairness of each.        *)
FairSpec ==
  /\ Init /\ [][Next]_allVars
  /\ SF_allVars(\/ Purging(\E c \in Callers : Saga!Prepare(c, "m1") \/ Saga!Resume(c, "m1"))
                \/ Spooling(Spool!Deliver("visitor"))
                \/ Leasing(\E b \in Bootstraps : Root!Take(b))
                \/ Keeping(Secrets!Resume(2))
                \/ Operating(Operator!Start("p", "signed"))
                \/ Restoring(Restore!Begin("p", "o")))
  /\ WF_allVars(\/ Keeping(Secrets!Proceed)
                \/ Operating(Operator!Step("p"))
                \/ Restoring(Restore!Step("p")))
  /\ WF_allVars(Operating(Operator!Tick) \/ Restoring(Restore!HostCloses))
  /\ SF_allVars(Purging(\E c \in Callers : Saga!Prepare(c, "m2") \/ Saga!Resume(c, "m2")))
  /\ \A c \in Callers : WF_allVars(Purging(
       Saga!Finalize(c) \/ Saga!Publish(c) \/ Saga!PublishRefused(c)))
  /\ \A h \in Invocations : WF_allVars(Spooling(Spool!Step(h)))
  /\ WF_allVars(Leasing(Root!Expire))
  /\ WF_allVars(\/ Leasing(\E b \in Bootstraps : Root!Examine(b))
                \/ Operating(Operator!Look("recoverer") \/ Operator!Remove("recoverer")))
  /\ SF_allVars(Operating(Operator!Recover("recoverer", "signed")))

-----------------------------------------------------------------------------
(* The properties of the parts, where they are stated.                     *)
PurgesComplete == Saga!PurgesComplete
SpoolDrains == Spool!SpoolDrains
StaleIsRecovered == Root!StaleIsRecovered
RotationEnds == Secrets!RotationEnds
OperationsEnd ==
  /\ [](part = "operator" => Operator!ActionsSound) /\ Operator!ActionsAreAuthorised
  /\ Operator!EffectIsReported /\ Restore!RestoreEnds
=============================================================================
