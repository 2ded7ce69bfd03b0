---------------------------- MODULE MCGovernance ----------------------------
(* Governed memories with the lanes derived from them, the child process    *)
(* that serves a projection, and the deliveries to the graph and vector     *)
(* stores, each on a small instance: a behaviour is one of one of them.     *)
(* Each lane meets the tools that touch it, and the clocks matter where it  *)
(* orders something by them.                                                *)
EXTENDS Governance, TLC

VARIABLES part,
    phase, closer, generation, held, ready, starting, waiter, due, circuit, restarts, now,
      child, tasks, pipe, asked, sentTo, applied, spawned,
    source, layered, target, deliveries, store, projector, query, rebuild, outages, rebuilds,
    versions, moves, stamp, enabled, checkpoint, build, indexes, unready, builder, search,
      switches, faults

processVars ==
    <<phase, closer, generation, held, ready, starting, waiter, due, circuit, restarts, now,
      child, tasks, pipe, asked, sentTo, applied, spawned>>
graphVars ==
    <<source, layered, target, deliveries, store, projector, query, rebuild, outages, rebuilds>>
vectorVars ==
    <<versions, moves, stamp, enabled, checkpoint, build, indexes, unready, builder, search,
      switches, faults>>
allVars == <<part, vars, processVars, graphVars, vectorVars>>

LaneTools ==
    [fts |-> {"memory_propose", "memory_correct", "memory_pin", "memory_demote",
              "memory_revoke", "memory_delete", "learning_release", "learning_rollback"},
     layered |-> {"memory_propose", "memory_correct", "usage_block", "usage_allow"}]
LaneDecisions == [fts |-> {"activate", "candidate_only"}, layered |-> {"activate"}]
LaneTimes == [fts |-> {1, 2}, layered |-> {1}]

(* Two requests, one at a time, and one restart in two instants.            *)
Process == INSTANCE ProcessHost WITH
    call <- asked, Calls <- {"a", "b"}, MaxInFlight <- 1, MaxRestarts <- 1,
    Window <- 1, Cooldown <- 1, MaxTime <- 2, MaxGeneration <- 3

Graph == INSTANCE GraphDelivery WITH
    scope <- target, jobs <- deliveries, worker <- projector, faults <- outages,
    MaxAttempts <- 2, MaxChanges <- 2, MaxFrontiers <- 3, MaxFaults <- 2, MaxRebuilds <- 1

Vector == INSTANCE VectorDelivery WITH
    rows <- versions, epoch <- stamp, scope <- checkpoint, job <- build, active <- indexes,
    quarantine <- unready, worker <- builder, query <- search,
    MaxAttempts <- 2, MaxEpoch <- 2, MaxMoves <- 1, MaxSwitches <- 1, MaxFaults <- 2

ASSUME PartsAssumption ==
    Process!HostAssumption /\ Graph!DeliveryAssumption /\ Vector!VectorAssumption

-----------------------------------------------------------------------------
(* In the behaviours of other parts the memories rest, with any one lane.   *)
RestingLane == CHOOSE l \in Lanes : TRUE

MCInit ==
    /\ part \in {"memories", "children", "graph", "vector"}
    /\ GInit /\ (part # "memories" => lane = RestingLane)
    /\ Process!Init /\ Graph!Init /\ Vector!Init

MCNext ==
    /\ UNCHANGED part
    /\ \/ part = "memories" /\ Next /\ UNCHANGED <<processVars, graphVars, vectorVars>>
       \/ part = "children" /\ Process!Next /\ UNCHANGED <<vars, graphVars, vectorVars>>
       \/ part = "graph" /\ Graph!Next /\ UNCHANGED <<vars, processVars, vectorVars>>
       \/ part = "vector" /\ Vector!Next /\ UNCHANGED <<vars, processVars, graphVars>>

MCSpec == MCInit /\ [][MCNext]_allVars

-----------------------------------------------------------------------------
(* The properties of the child's host and of the deliveries, where they are *)
(* stated; those of the memories hold of memories that rest.                *)
ChildrenSound ==
    /\ [](part = "children" => Process!ProcessSound)
    /\ [][part = "children" => Process!CircuitHolds]_processVars

DeliveriesSound ==
    /\ [](/\ part = "graph" => Graph!DeliverySound
          /\ part = "vector" => Vector!DeliverySound)
    /\ [][part = "graph" => Graph!AnswerIsCurrent]_graphVars
    /\ [][part = "vector" => Vector!AnswerIsFresh]_vectorVars
=============================================================================
