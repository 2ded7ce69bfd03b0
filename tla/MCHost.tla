-------------------------------- MODULE MCHost ---------------------------------
(* The components of a running host, each on a small instance: its storage *)
(* client, the sessions of its proxies and pages, what a page does in its  *)
(* session, the slots of its learning lab, its keys and secrets, and one   *)
(* recall of its memories.  A behaviour is one of one of them: what one    *)
(* expects of another is stated in their modules.                          *)
EXTENDS HostSessions, SecretStore

VARIABLES part,
  ask, phase, lease, at, queue, late, waiting, worker, inbox, answers, stored,
    disk, wal, busy, tries, readOnly, breaks,
  history, dropped, demoted, snapshots, retained, expired, reader, draft, preview,
    known, posted, told, lists, ops, changes,
  holds, state, target, evaluated, canary, invalid, control, pointer, rows, revs, alive,
    asked, flights, written, lift, trial, pausing,
  memory, epochs, shelf, tool, attempt, kept, bounds

clientVars ==
  <<ask, phase, lease, at, queue, late, waiting, worker, inbox, answers, stored,
    disk, wal, busy, tries, readOnly, breaks>>
pageVars ==
  <<history, dropped, demoted, snapshots, retained, expired, reader, draft, preview,
    known, posted, told, lists, ops, changes>>
labVars ==
  <<holds, state, target, evaluated, canary, invalid, control, pointer, rows, revs, alive,
    asked, flights, written, lift, trial, pausing>>
recallVars == <<memory, epochs, shelf, tool, attempt, kept, bounds>>
allVars == <<part, clientVars, sessionVars, pageVars, labVars, secretVars, recallVars>>

(* Writes that share a key, one of them with another hash; or a write      *)
(* beside a checkpoint and a backup.                                       *)
Write(h) == [kind |-> "write", key |-> "k", hash |-> h]
Other(kind) == [kind |-> kind, key |-> "", hash |-> ""]
Asks(x, y, z) == [a |-> x, b |-> y, c |-> z]
Client == INSTANCE StorageClient WITH
  Calls <- {"a", "b", "c"}, MaxDepth <- 2, MaxBreaks <- 1, CloseAfterError <- FALSE,
  Workloads <- {Asks(Write("h"), Write("h"), Write("g")),
                Asks(Write("h"), Other("checkpoint"), Other("backup"))}

(* Two sessions that read lists page by page, or that change one memory.   *)
Reading == INSTANCE WorkbenchService WITH
  Sessions <- {"s", "t"}, Memories <- {1, 2, 3}, PageSize <- 1,
  MaxSnapshots <- 2, MaxMembers <- 5, MaxLists <- 3, MaxOps <- 0, MaxChanges <- 2,
  purged <- dropped
Fixing == INSTANCE WorkbenchService WITH
  Sessions <- {"s", "t"}, Memories <- {1}, PageSize <- 1,
  MaxSnapshots <- 2, MaxMembers <- 5, MaxLists <- 0, MaxOps <- 2, MaxChanges <- 1,
  purged <- dropped

(* Two candidates for one slot, with three releases and rollbacks of them; *)
(* or one candidate whose learning is paused and resumed.                  *)
Slot == INSTANCE LearningReleases WITH
  Candidates <- {1, 2}, Requests <- {1, 2, 3}, MaxEpoch <- 0, MaxRevisions <- 2, MaxFlights <- 1
Paused == INSTANCE LearningReleases WITH
  Candidates <- {1}, Requests <- {1, 2}, MaxEpoch <- 2, MaxRevisions <- 2, MaxFlights <- 2

(* Two secrets.                                                            *)
AdmittedFor == [r \in Requests |-> IF r = "r2" THEN 2 ELSE 1]

(* A layered context of two scopes; of two memories of one scope, that     *)
(* derive a relation; of one memory, asked for twice; and the flat answers *)
(* (a legacy context, a search, an automatic context), asked for twice.    *)
Apart == INSTANCE ContextRecall WITH
  Scopes <- {1, 2}, Memories <- {1, 2}, ScopeOf <- <<1, 2>>, Attempts <- {1},
  Tools <- {"layered"}, Budget <- 2, SourceLimit <- 2, MaxChanges <- 1, MaxFailures <- 0
Related == INSTANCE ContextRecall WITH
  Scopes <- {1}, Memories <- {1, 2}, ScopeOf <- <<1, 1>>, Attempts <- {1},
  Tools <- {"layered"}, Budget <- 2, SourceLimit <- 2, MaxChanges <- 2, MaxFailures <- 1
Again == INSTANCE ContextRecall WITH
  Scopes <- {1}, Memories <- {1}, ScopeOf <- <<1>>, Attempts <- {1, 2},
  Tools <- {"layered"}, Budget <- 2, SourceLimit <- 2, MaxChanges <- 1, MaxFailures <- 0
Flat == INSTANCE ContextRecall WITH
  Scopes <- {1}, Memories <- {1, 2}, ScopeOf <- <<1, 1>>, Attempts <- {1, 2},
  Tools <- {"legacy", "search", "automatic"}, Budget <- 1, SourceLimit <- 2,
  MaxChanges <- 1, MaxFailures <- 1

ASSUME PartsAssumption ==
  /\ Client!ClientAssumption /\ SessionsAssumption
  /\ Reading!ServiceAssumption /\ Fixing!ServiceAssumption
  /\ Slot!LearningAssumption /\ Paused!LearningAssumption
  /\ SecretAssumption
  /\ Apart!RecallAssumption /\ Related!RecallAssumption
  /\ Again!RecallAssumption /\ Flat!RecallAssumption

-----------------------------------------------------------------------------
OneWorkload == CHOOSE w \in {Asks(Write("h"), Write("h"), Write("g"))} : TRUE

Recalls == {"apart", "related", "again", "flat"}

Init ==
  /\ part \in {"client", "sessions", "reading", "fixing", "slot", "paused", "secrets"} \cup Recalls
  /\ Client!Init /\ (part # "client" => ask = OneWorkload)
  /\ SessionInit
  /\ IF part = "fixing" THEN Fixing!Init ELSE Reading!Init
  /\ IF part = "paused" THEN Paused!Init ELSE Slot!Init
  /\ part \notin {"slot", "paused"} => holds = "policy"
  /\ SInit
  /\ CASE part = "apart" -> Apart!RInit
       [] part = "again" -> Again!RInit
       [] part = "flat" -> Flat!RInit
       [] OTHER -> Related!RInit

In(p, Action) == part = p /\ Action /\ UNCHANGED part

Host == <<clientVars, sessionVars, pageVars, labVars, secretVars>>
Next ==
  \/ In("client", Client!Next)
     /\ UNCHANGED <<sessionVars, pageVars, labVars, secretVars, recallVars>>
  \/ In("sessions", SessionNext)
     /\ UNCHANGED <<clientVars, pageVars, labVars, secretVars, recallVars>>
  \/ In("reading", Reading!Next)
     /\ UNCHANGED <<clientVars, sessionVars, labVars, secretVars, recallVars>>
  \/ In("fixing", Fixing!Next)
     /\ UNCHANGED <<clientVars, sessionVars, labVars, secretVars, recallVars>>
  \/ In("slot", Slot!Next)
     /\ UNCHANGED <<clientVars, sessionVars, pageVars, secretVars, recallVars>>
  \/ In("paused", Paused!Next)
     /\ UNCHANGED <<clientVars, sessionVars, pageVars, secretVars, recallVars>>
  \/ In("secrets", SNext)
     /\ UNCHANGED <<clientVars, sessionVars, pageVars, labVars, recallVars>>
  \/ In("apart", Apart!RNext) /\ UNCHANGED Host
  \/ In("related", Related!RNext) /\ UNCHANGED Host
  \/ In("again", Again!RNext) /\ UNCHANGED Host
  \/ In("flat", Flat!RNext) /\ UNCHANGED Host

Spec == Init /\ [][Next]_allVars

-----------------------------------------------------------------------------
(* The properties of the parts, where they are stated; of a part that      *)
(* rests there is nothing to check.  Those of the sessions and of the      *)
(* secrets (SessionsSound, SecretsSound) are taken as they are.            *)
ClientSound ==
  /\ [](part = "client" => Client!TypeOK /\ Client!NothingOutlivesLease /\ Client!AnswersAreOwn)
  /\ Client!BeginsWithRoom
AnswersSound ==
  /\ [](/\ part = "reading" => Reading!TypeOK /\ Reading!SnapshotsSound
        /\ part = "fixing" => Fixing!TypeOK /\ Fixing!ConfirmedOnce
        /\ part = "apart" => Apart!RecallSound
        /\ part = "related" => Related!RecallSound
        /\ part = "again" => Again!RecallSound
        /\ part = "flat" => Flat!RecallSound)
  /\ [][/\ part = "apart" => Apart!RecallStep
        /\ part = "related" => Related!RecallStep
        /\ part = "again" => Again!RecallStep
        /\ part = "flat" => Flat!RecallStep]_recallVars
LearningKept ==
  /\ [](/\ part = "slot" => Slot!LearningSound
        /\ part = "paused" => Paused!LearningSound)
  /\ [][/\ part = "slot" => Slot!LearningStep
        /\ part = "paused" => Paused!LearningStep]_labVars
=============================================================================
