-------------------------- MODULE RestorePublication --------------------------
(* The restore of a backup to a data root that does not exist yet:         *)
(* restoreBackupToEmptyDataRoot (restore.ts) and the reservation of the    *)
(* target's name (no-replace-publish.ts).  An execution reserves the name, *)
(* copies the backup to a directory of its own, verifies it there, renames *)
(* it to the target without replacing anything, and finalizes the target:  *)
(* the derived projections are marked as to be rebuilt, which are two      *)
(* anchored commits, everything is verified again, a marker binds the      *)
(* operation to the recovery head, and the marker of the intent goes.  An  *)
(* execution may die between any two of these; another one of the same     *)
(* operation finds the target and finalizes it, or recognises its marker.  *)
(* Beside them runs the root the backup is of, as long as the recovery     *)
(* head is its own, and a host that opens the restored root.               *)
(* The recovery head is counted from the one the backup is bound to, 0; a  *)
(* root can be opened and written while its generation is the head's.  The *)
(* contents of a backup, their hashes and keys are taken as they should be.*)
EXTENDS Integers

CONSTANTS Executions,   \* executions of a restore
          Operations,   \* operations: restores of the one backup to the one target
          MaxHead,      \* bound on the recovery head
          MaxDeaths

RestoreAssumption ==
  /\ {MaxHead, MaxDeaths} \subseteq Nat
  /\ Executions \cap {"none", "gone", "host"} = {} /\ Operations \cap {"none", "torn"} = {}

VARIABLES head,         \* the external recovery head
          origin,       \* generation of the root the backup is of
          target,       \* the published directory, or Absent
          reservation,  \* the file that reserves the target's name, or Free
          opened,       \* who has the target open under its root lease, or None
          exec,         \* each execution: where it is, and what it has found
          reported,     \* operations some execution has answered
          locked,       \* whether the operator's ledger keeps the executions of one
                        \* operation apart, as it does for the command line
          deaths
restoreVars == <<head, origin, target, reservation, opened, exec, reported, locked, deaths>>

None == "none"
Gone == "gone"          \* the pid of an execution that died
Host == "host"

(* A published directory: who published it, the operation of its intent    *)
(* marker (or None), its publication marker, its generation, the derived   *)
(* projections marked, and whether a host has worked in it.                *)
NoMarker == [op |-> None, head |-> 0]
Torn == [op |-> "torn", head |-> 0]
Root(p, op) == [by |-> p, intent |-> op, marker |-> NoMarker, gen |-> 0,
                derived |-> {}, worked |-> FALSE]
Absent == [Root(None, None) EXCEPT !.gen = -1]
\* What opening a root that is not there any more leaves behind: an empty root.
Blank == [Root(None, None) EXCEPT !.gen = -2]
Free == [owner |-> None, op |-> None, empty |-> FALSE]

Idle == [pc |-> "idle", op |-> None, reserved |-> FALSE, fresh |-> FALSE,
         invalid |-> FALSE, anchor |-> 0]

RInit ==
  /\ head = 0 /\ origin = 0 /\ target = Absent /\ reservation = Free /\ opened = None
  /\ exec = [p \in Executions |-> Idle] /\ reported = {} /\ locked \in BOOLEAN /\ deaths = 0

At(p, pc) == exec[p].pc = pc
Goto(p, pc) == exec' = [exec EXCEPT ![p].pc = pc]
Op(p) == exec[p].op
worldVars == <<head, origin, reported, locked, deaths>>

\* hasExactPublicationMarker, of the operation and the current recovery head.
Recognised(op) == target # Absent /\ target.marker = [op |-> op, head |-> head]
Openable == opened = None /\ target.gen = head
Derived == {"graph", "vector"}

\* assertManifestHealth: what a host has added is not in the manifest.
Verified == target.derived \subseteq Derived /\ ~target.worked

\* An error after the reservation is caught; before it, it ends the execution.
Fails(p) == exec' = [exec EXCEPT ![p] =
  IF exec[p].reserved THEN [@ EXCEPT !.pc = "catch"] ELSE Idle]
Invalid(p) == exec' = [exec EXCEPT ![p] =
  IF exec[p].reserved THEN [@ EXCEPT !.pc = "catch", !.invalid = TRUE] ELSE Idle]
Throws(p) == exec' = [exec EXCEPT ![p] =
  IF exec[p].reserved THEN [@ EXCEPT !.pc = "release"] ELSE Idle]
Succeeds(p) == Goto(p, IF exec[p].reserved THEN "releaseDone" ELSE "answer")

-----------------------------------------------------------------------------
Begin(p, op) ==
  /\ At(p, "idle") /\ (locked => \A q \in Executions : Op(q) # op)
  /\ exec' = [exec EXCEPT ![p] = [Idle EXCEPT !.pc = "look", !.op = op]]
  /\ UNCHANGED <<target, reservation, opened, worldVars>>

\* Is the target there, and is it this operation's?  If not, is the backup current?
Look(p) ==
  /\ At(p, "look")
  /\ \/ target # Absent /\ Recognised(Op(p)) /\ head # 0 /\ Goto(p, "inspect")
     \/ /\ target # Absent /\ ~(Recognised(Op(p)) /\ head # 0)
        /\ IF target.intent = Op(p) THEN Goto(p, "open") ELSE Throws(p)
     \/ target = Absent /\ head = 0 /\ Goto(p, "reserve")
     \/ target = Absent /\ head # 0 /\ Throws(p)
  /\ UNCHANGED <<target, reservation, opened, worldVars>>

(* TargetNameReservation.acquire: created exclusively; one that a dead     *)
(* execution of the same operation has left is removed first.              *)
MayRecover(p) ==
  reservation.owner = Gone /\ ~reservation.empty /\ reservation.op = Op(p)
MayRecoverAny(p) == reservation.owner = Gone

Take(p) ==
  /\ exec' = [exec EXCEPT ![p].pc = "name"]
  /\ reservation' = [owner |-> p, op |-> Op(p), empty |-> TRUE]

Reserve(p) ==
  /\ At(p, "reserve")
  /\ \/ target # Absent /\ Throws(p) /\ UNCHANGED reservation
     \/ target = Absent /\ reservation = Free /\ Take(p)
     \/ /\ target = Absent /\ reservation # Free /\ UNCHANGED reservation
        /\ IF MayRecover(p) THEN Goto(p, "unlink") ELSE Throws(p)
  /\ UNCHANGED <<target, opened, worldVars>>

\* The path is removed, whatever is there by now, and created again.
Unlink(p) ==
  /\ At(p, "unlink") /\ Goto(p, "again") /\ reservation' = Free
  /\ UNCHANGED <<target, opened, worldVars>>

Again(p) ==
  /\ At(p, "again")
  /\ \/ reservation = Free /\ Take(p)
     \/ reservation # Free /\ Throws(p) /\ UNCHANGED reservation
  /\ UNCHANGED <<target, opened, worldVars>>

Name(p) ==
  /\ At(p, "name")
  /\ exec' = [exec EXCEPT ![p].pc = "stage", ![p].reserved = TRUE]
  /\ reservation' = IF reservation.owner = p THEN [reservation EXCEPT !.empty = FALSE]
                    ELSE reservation
  /\ UNCHANGED <<target, opened, worldVars>>

\* The copy is opened and verified, and the marker of the intent is in it.
Stage(p) ==
  /\ At(p, "stage") /\ (IF head = 0 THEN Goto(p, "publish") ELSE Fails(p))
  /\ UNCHANGED <<target, reservation, opened, worldVars>>

(* publishDirectoryNoReplace.  The answer of the helper may be lost, or    *)
(* what it did may not be confirmed.                                       *)
NothingThere == target = Absent
Rename(p) == target = Absent /\ target' = Root(p, Op(p))
Publish(p) ==
  /\ At(p, "publish")
  /\ \/ ~NothingThere /\ Fails(p) /\ UNCHANGED target
     \/ /\ NothingThere /\ Rename(p)
        /\ \E pc \in {"open", "catch"} :
             exec' = [exec EXCEPT ![p].pc = pc, ![p].fresh = TRUE]
  /\ UNCHANGED <<reservation, opened, worldVars>>

-----------------------------------------------------------------------------
(* finalizePublishedTarget.  Opening a root that has been removed creates  *)
(* an empty one, which is not the one the recovery head is of.             *)
Open(p) ==
  /\ At(p, "open")
  /\ \/ target = Absent /\ target' = Blank /\ Invalid(p) /\ UNCHANGED opened
     \/ target # Absent /\ Openable /\ opened' = p /\ Goto(p, "graph") /\ UNCHANGED target
     \/ target # Absent /\ ~Openable /\ Fails(p) /\ UNCHANGED <<target, opened>>
  /\ UNCHANGED <<reservation, worldVars>>

(* markGraphRestoreUnavailable and markVectorRestoreDegraded: anchored     *)
(* commits.  A root that is removed while it is open can still be written, *)
(* and its files may be found or not; no file can be created in it.        *)
Degrade(p, pc, kind, next) ==
  /\ At(p, pc)
  /\ \/ target = Absent /\ head < MaxHead /\ head' = head + 1 /\ Goto(p, next)
        /\ UNCHANGED <<opened, target>>
     \/ /\ target.gen = head /\ head < MaxHead
        /\ head' = head + 1 /\ Goto(p, next) /\ UNCHANGED opened
        /\ target' = [target EXCEPT !.gen = @ + 1, !.derived = @ \cup {kind}]
     \/ target # Absent /\ target.gen # head
        /\ opened' = None /\ Fails(p) /\ UNCHANGED <<head, target>>
  /\ UNCHANGED <<origin, reservation, reported, locked, deaths>>
DegradeGraph(p) == Degrade(p, "graph", "graph", "vector")
DegradeVector(p) == Degrade(p, "vector", "vector", "verify")

Verify(p) ==
  /\ At(p, "verify")
  /\ \/ /\ Verified /\ UNCHANGED opened
        /\ exec' = [exec EXCEPT ![p].pc = "mark", ![p].anchor = head]
     \/ (~Verified \/ target = Absent) /\ opened' = None /\ Invalid(p)
  /\ UNCHANGED <<target, reservation, worldVars>>

\* writePublicationMarker creates its file exclusively, and then writes it.
Marker(p) == [op |-> Op(p), head |-> exec[p].anchor]
CreateMarker(p) ==
  /\ At(p, "mark")
  /\ \/ target.marker = Marker(p) /\ Goto(p, "settle") /\ UNCHANGED <<target, opened>>
     \/ /\ target # Absent /\ target.marker = NoMarker /\ Goto(p, "bind") /\ UNCHANGED opened
        /\ target' = [target EXCEPT !.marker = Torn]
     \/ /\ (target = Absent \/ target.marker \notin {NoMarker, Marker(p)})
        /\ opened' = None /\ Fails(p) /\ UNCHANGED target
  /\ UNCHANGED <<reservation, worldVars>>

WriteMarker(p) ==
  /\ At(p, "bind") /\ Goto(p, "settle")
  /\ target' = IF target = Absent THEN Absent ELSE [target EXCEPT !.marker = Marker(p)]
  /\ UNCHANGED <<reservation, opened, worldVars>>

Settle(p) ==
  /\ At(p, "settle")
  /\ \/ /\ target # Absent /\ Goto(p, "close") /\ UNCHANGED opened
        /\ target' = [target EXCEPT !.intent = None]
     \/ target = Absent /\ opened' = None /\ Fails(p) /\ UNCHANGED target
  /\ UNCHANGED <<reservation, worldVars>>

Close(p) ==
  /\ At(p, "close") /\ opened' = None /\ Succeeds(p)
  /\ UNCHANGED <<target, reservation, worldVars>>

(* inspectPublishedTarget: the marker is exact; the root is opened and     *)
(* verified again.                                                         *)
Inspect(p) ==
  /\ At(p, "inspect")
  /\ \/ target = Absent /\ target' = Blank /\ Throws(p) /\ UNCHANGED opened
     \/ target # Absent /\ ~Openable /\ Throws(p) /\ UNCHANGED <<target, opened>>
     \/ target # Absent /\ Openable /\ Goto(p, "check") /\ opened' = p /\ UNCHANGED target
  /\ UNCHANGED <<reservation, worldVars>>

CheckHealth(p) ==
  /\ At(p, "check") /\ opened' = None
  /\ \/ Verified /\ Succeeds(p)
     \/ (~Verified \/ target = Absent) /\ Throws(p)
  /\ UNCHANGED <<target, reservation, worldVars>>

-----------------------------------------------------------------------------
(* An error of the execution that has the reservation: if the target bears *)
(* the operation's marker after all it is inspected; a target of its own   *)
(* that turned out invalid is removed.                                     *)
Catch(p) ==
  /\ At(p, "catch")
  /\ \/ Recognised(Op(p)) /\ Goto(p, "inspect") /\ UNCHANGED target
     \/ /\ ~Recognised(Op(p)) /\ Throws(p)
        /\ target' = IF exec[p].invalid /\ exec[p].fresh /\ target.by = p
                     THEN Absent ELSE target
  /\ UNCHANGED <<reservation, opened, worldVars>>

\* A reservation that is not its own any more makes the release, and so the restore, fail.
Release(p) ==
  /\ exec[p].pc \in {"release", "releaseDone"}
  /\ reservation' = IF reservation.owner = p THEN Free ELSE reservation
  /\ exec' = [exec EXCEPT ![p] =
       IF At(p, "releaseDone") /\ reservation.owner = p THEN [@ EXCEPT !.pc = "answer"]
       ELSE Idle]
  /\ UNCHANGED <<target, opened, worldVars>>

Answer(p) ==
  /\ At(p, "answer") /\ exec' = [exec EXCEPT ![p] = Idle]
  /\ reported' = reported \cup {Op(p)}
  /\ UNCHANGED <<head, origin, target, reservation, opened, locked, deaths>>

Step(p) ==
  \/ Look(p) \/ Reserve(p) \/ Unlink(p) \/ Again(p) \/ Name(p) \/ Stage(p) \/ Publish(p)
  \/ Open(p) \/ DegradeGraph(p) \/ DegradeVector(p) \/ Verify(p) \/ CreateMarker(p)
  \/ WriteMarker(p) \/ Settle(p) \/ Close(p) \/ Inspect(p) \/ CheckHealth(p)
  \/ Catch(p) \/ Release(p) \/ Answer(p)

\* An execution dies: its reservation stays, and its lease is recovered.
Die(p) ==
  /\ ~At(p, "idle") /\ deaths < MaxDeaths /\ deaths' = deaths + 1
  /\ exec' = [exec EXCEPT ![p] = Idle]
  /\ opened' = IF opened = p THEN None ELSE opened
  /\ reservation' = IF reservation.owner = p THEN [reservation EXCEPT !.owner = Gone]
                    ELSE reservation
  /\ target' = IF target.by = p THEN [target EXCEPT !.by = Gone] ELSE target
  /\ UNCHANGED <<head, origin, reported, locked>>

-----------------------------------------------------------------------------
(* The root the backup is of is written while the recovery head is its own. *)
Write ==
  /\ origin = head /\ head < MaxHead /\ head' = head + 1 /\ origin' = origin + 1
  /\ UNCHANGED <<target, reservation, opened, exec, reported, locked, deaths>>

(* A host is started on the restored root once the restore is answered.    *)
HostOpens ==
  /\ reported # {} /\ target # Absent /\ Openable /\ opened' = Host
  /\ UNCHANGED <<target, reservation, exec, worldVars>>

HostWorks ==
  /\ opened = Host /\ target.gen \in {head, Absent.gen} /\ head < MaxHead /\ head' = head + 1
  /\ target' = IF target = Absent THEN Absent
               ELSE [target EXCEPT !.gen = @ + 1, !.worked = TRUE]
  /\ UNCHANGED <<origin, reservation, opened, exec, reported, locked, deaths>>

HostCloses ==
  /\ opened = Host /\ opened' = None
  /\ UNCHANGED <<target, reservation, exec, worldVars>>

RNext ==
  \/ \E p \in Executions : (\E op \in Operations : Begin(p, op)) \/ Step(p) \/ Die(p)
  \/ Write \/ HostOpens \/ HostWorks \/ HostCloses

RSpec == RInit /\ [][RNext]_restoreVars

-----------------------------------------------------------------------------
TypeOK ==
  /\ {head, origin} \subseteq 0 .. MaxHead /\ origin <= head
  /\ target.by \in Executions \cup {None, Gone} /\ target.gen \in -2 .. MaxHead
  /\ target.derived \subseteq Derived
  /\ opened \in Executions \cup {None, Host}
  /\ reservation.owner \in Executions \cup {None, Gone} /\ reported \subseteq Operations

(* The backup is restored by one operation only.  When the executions of   *)
(* one operation are kept apart, a root that bears its marker is whole:    *)
(* derived projections are not trusted in it, and its generation is at     *)
(* least the one the marker is bound to.  (Otherwise an execution may      *)
(* write its marker to a root that has taken the place of the one it       *)
(* verified: four executions of which two recover one reservation.)        *)
MarkerIsLast == locked /\ target.marker \notin {NoMarker, Torn} =>
  /\ target.derived = Derived /\ target.gen >= target.marker.head
OneOperation == \A a, b \in reported : a = b

(* The root of the backup and the restored one are not both written: of a  *)
(* restored root in which a commit has been anchored the other one is out. *)
OneLineage == target.gen > 0 => origin < head

RestoreSound == TypeOK /\ MarkerIsLast /\ OneOperation /\ OneLineage

(* No directory is replaced, and one is removed by its publisher only.     *)
(* When the executions of one operation are kept apart, a restore is       *)
(* answered when the target is there, with the operation's marker for the  *)
(* recovery head and without anything the backup does not have, and the    *)
(* target is not removed after that.                                       *)
Whole(op) == Recognised(op) /\ target.gen = head /\ ~target.worked
Succeeding(p) == exec[p].pc \in {"close", "check"} /\ exec'[p].pc \in {"releaseDone", "answer"}
RestoreStep ==
  /\ target # Absent => target' = Absent \/ target'.by \in {target.by, Gone}
  /\ locked => /\ \A p \in Executions : Succeeding(p) => Whole(Op(p))
               /\ target # Absent /\ target' = Absent => reported = {}
RestoreIsExclusive == [][RestoreStep]_restoreVars

-----------------------------------------------------------------------------
\* A restore is started again until it is answered, and an execution runs on.
RFairSpec ==
  /\ RSpec /\ SF_restoreVars(\E p \in Executions, op \in Operations : Begin(p, op))
  /\ \A p \in Executions : WF_restoreVars(Step(p))
  /\ WF_restoreVars(HostCloses)

(* A directory that has been published is finalized and answered by some   *)
(* later execution, however often one dies, unless its marker was cut off  *)
(* while it was written, or the root of the backup was written after the   *)
(* copy had been verified.                                                 *)
Hopeless == target.marker = Torn \/ target.gen # head
RestoreEnds == []<>(target = Absent \/ reported # {}) \/ <>[]Hopeless

-----------------------------------------------------------------------------
(* What the documents say, and these behaviours refute.                    *)

\* Concurrent attempts serialize on the reservation: what one has reported stays.
ReportedStays == [][target # Absent /\ target' = Absent => reported = {}]_restoreVars

\* Whatever is interrupted, the target is absent or can be opened.
TargetIsReopenable == target # Absent => target.gen = head

\* A restore that was interrupted after the publication is reconciled by the next one.
PublishedIsAnswered == (target # Absent) ~> (reported # {} \/ [](target.gen # head))
=============================================================================
