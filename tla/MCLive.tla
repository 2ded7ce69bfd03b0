-------------------------------- MODULE MCLive ---------------------------------
(* What a running host must get done in the end, each on a small instance: *)
(* formation jobs, derived projections, calls of the storage client, the   *)
(* turns of the background lanes, and its own shutdown.  A behaviour is    *)
(* one of one of them, under the fairness its module states.               *)
EXTENDS Naturals

VARIABLES part,
  turns, jobs, formation, rescoped, admitted, audited, decided, failed,
  memory, conflict, rules, call, receipt, derived, ledger, active, scope, pjobs,
    consolidation, rows, fjobs, fts, failures,
  ask, phase, lease, at, queue, late, waiting, worker, inbox, answers, stored,
    disk, wal, busy, tries, readOnly, breaks,
  state, timer, lane, shown,
  stop, socket, step, handle, handles, tickets, sessions, spent, services, requests

formationVars == <<turns, jobs, formation, rescoped, admitted, audited, decided, failed>>
governanceVars ==
  <<memory, conflict, rules, call, receipt, derived, ledger, active, scope, pjobs,
    consolidation, rows, fjobs, fts, failures>>
clientVars ==
  <<ask, phase, lease, at, queue, late, waiting, worker, inbox, answers, stored,
    disk, wal, busy, tries, readOnly, breaks>>
laneVars == <<state, timer, lane, shown>>
sessionVars ==
  <<stop, socket, step, handle, handles, tickets, sessions, spent, services, requests>>
allVars == <<part, formationVars, governanceVars, clientVars, laneVars, sessionVars>>

\* One Stop and all attempts the code has; or a Stop after the job is done.
Retrying == INSTANCE FormationJobs WITH
  Turns <- {"t"}, Proposals <- {"p"}, Rescoped <- {"p"}, MaxGeneration <- 1,
  MaxAttempts <- 3, BatchLimit <- 2, MaxCrashes <- 1, Faults <- TRUE, lane <- formation
Reopening == INSTANCE FormationJobs WITH
  Turns <- {"t"}, Proposals <- {"p"}, Rescoped <- {"p"}, MaxGeneration <- 2,
  MaxAttempts <- 1, BatchLimit <- 2, MaxCrashes <- 1, Faults <- TRUE, lane <- formation

\* Two proposals, corrections and rules of use, and the consolidation lane.
Projecting == INSTANCE Governance WITH
  Memories <- {1}, Calls <- {1, 2}, Contents <- {"x", "y"},
  Tools <- [layered |-> {"memory_propose", "memory_correct", "usage_block", "usage_allow"}],
  Decisions <- [layered |-> {"activate"}], Times <- [layered |-> {1}],
  Lanes <- {"layered"}, MaxProjectionAttempts <- 2, ClaimLimit <- 2,
  MaxWorkerFaults <- 1, MaxFtsAttempts <- 2, MaxFtsFailures <- 0,
  lane <- derived, worker <- consolidation

Write(h) == [kind |-> "write", key |-> "k", hash |-> h]
Other(kind) == [kind |-> kind, key |-> "", hash |-> ""]
Workloads == {[a |-> Write("h"), b |-> Write("h")],
              [a |-> Other("backup"), b |-> Other("health")]}
Client == INSTANCE StorageClient WITH
  Calls <- {"a", "b"}, MaxDepth <- 2, MaxBreaks <- 1, CloseAfterError <- FALSE

Supervisor == INSTANCE BackgroundLanes WITH
  Lanes <- 3, MaxConcurrency <- 1, Overrun <- FALSE

Peers == INSTANCE HostSessions WITH
  Conns <- {"c", "d"}, MaxIpc <- 1,
  Pages <- {"p"}, MaxTickets <- 1, MaxSessions <- 1, MaxServices <- 1

ASSUME PartsAssumption ==
  Client!ClientAssumption /\ Supervisor!LanesAssumption /\ Peers!SessionsAssumption

-----------------------------------------------------------------------------
Init ==
  /\ part \in {"retrying", "reopening", "governance", "client", "lanes", "sessions"}
  /\ IF part = "reopening" THEN Reopening!FInit ELSE Retrying!FInit
  /\ Projecting!GInit /\ Supervisor!Init /\ Peers!SessionInit
  /\ Client!Init /\ (part # "client" => ask.a.kind = "write")

In(p, Action) == part = p /\ Action /\ UNCHANGED part
Forming(which, Action) ==
  In(which, Action) /\ UNCHANGED <<governanceVars, clientVars, laneVars, sessionVars>>
Governing(Action) ==
  In("governance", Action) /\ UNCHANGED <<formationVars, clientVars, laneVars, sessionVars>>
Calling(Action) ==
  In("client", Action) /\ UNCHANGED <<formationVars, governanceVars, laneVars, sessionVars>>
Supervising(Action) ==
  In("lanes", Action) /\ UNCHANGED <<formationVars, governanceVars, clientVars, sessionVars>>
Serving(Action) ==
  In("sessions", Action) /\ UNCHANGED <<formationVars, governanceVars, clientVars, laneVars>>

Next ==
  \/ Forming("retrying", Retrying!FNext) \/ Forming("reopening", Reopening!FNext)
  \/ Governing(Projecting!Next) \/ Calling(Client!Next) \/ Supervising(Supervisor!Next)
  \/ Serving(Peers!SessionNext)

(* The fairness of the parts, as their modules state it.  As a part's      *)
(* actions are enabled in its own behaviours only, fairness of a           *)
(* disjunction of actions of different parts is fairness of each.          *)
FairSpec ==
  /\ Init /\ [][Next]_allVars
  /\ WF_allVars(\/ Forming("retrying", Retrying!LaneStep)
                \/ Forming("reopening", Reopening!LaneStep)
                \/ Governing(Projecting!ConsolidationStep)
                \/ Calling(Client!Takes(Client!Start))
                \/ Supervising(Supervisor!Tick)
                \/ Serving(Peers!SocketClosed("c")))
  /\ WF_allVars(\/ Forming("retrying", Retrying!Elapse("t"))
                \/ Forming("reopening", Reopening!Elapse("t"))
                \/ Calling(Client!Takes(Client!Terminated))
                \/ Supervising(Supervisor!Finish(1))
                \/ Serving(Peers!SocketClosed("d")))
  /\ WF_allVars(\/ Calling(Client!Takes(Client!Execute))
                \/ Supervising(Supervisor!Elapse(1))
                \/ Serving(Peers!DrainLanes))
  /\ WF_allVars(\/ Calling(Client!Takes(Client!Answered))
                \/ Supervising(Supervisor!Finish(2))
                \/ Serving(Peers!CloseSockets))
  /\ WF_allVars(\/ Calling(Client!Takes(Client!Errored))
                \/ Supervising(Supervisor!Elapse(2))
                \/ Serving(Peers!CloseStorage))
  /\ WF_allVars(\/ Calling(Client!Takes(Client!Exited))
                \/ Supervising(Supervisor!Finish(3))
                \/ Serving(Peers!Stopped))
  /\ WF_allVars(Supervising(Supervisor!Elapse(3)))

-----------------------------------------------------------------------------
(* The properties of the parts, where they are stated.                     *)
PairsSettle == Retrying!PairsSettle
ScopeSettles == Projecting!ScopeSettles
CallsSettle == Client!CallsSettle
LanesAreServed == Supervisor!LanesAreServed
ShutdownEnds == Peers!ShutdownEnds
=============================================================================
