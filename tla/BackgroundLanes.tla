---------------------------- MODULE BackgroundLanes ----------------------------
(***************************************************************************)
(* The background supervisor of a managed runtime (packages/runtime-host,  *)
(* background-supervisor.ts): the lanes that keep the projections, the     *)
(* formation jobs and the writer lease going, run one at a time in the     *)
(* order of their list, driven by one timer, until the host drains them.   *)
(* Time is a lane that waits becoming due.                                 *)
(***************************************************************************)
EXTENDS Naturals, FiniteSets

CONSTANTS Lanes,           \* how many; a lane is its place in the list
          MaxConcurrency,
          Overrun          \* may a run outlast the intervals of other lanes?

LanesAssumption ==
  Lanes \in Nat \ {0} /\ MaxConcurrency \in 1 .. 8 /\ Overrun \in BOOLEAN

VARIABLES state,           \* of the supervisor
          timer,           \* is its timer set?
          lane,            \* waiting until its next run, due, or running
          shown            \* what observations() says of a lane at rest
vars == <<state, timer, lane, shown>>

L == 1 .. Lanes
Due == {l \in L : lane[l] = "due"}
InFlight == {l \in L : lane[l] = "running"}

TypeOK ==
  /\ state \in {"starting", "running", "draining", "stopped"} /\ timer \in BOOLEAN
  /\ lane \in [L -> {"waiting", "due", "running"}]
  /\ shown \in [L -> {"idle", "retrying", "terminal"}]

Init ==
  /\ state = "starting" /\ timer = FALSE
  /\ lane = [l \in L |-> "due"] /\ shown = [l \in L |-> "idle"]

-----------------------------------------------------------------------------
(* The timer is set anew for the lane not in flight that is due first; it  *)
(* is left alone when every lane is in flight.                             *)
OnlyIfDue(set) == (\E l \in L : lane'[l] = "due") \/ set   \* mutation: not ahead of time
SetTimer(set) == (\E l \in L : lane'[l] # "running") \/ set

Start ==
  /\ state = "starting"
  /\ state' = "running" /\ timer' = TRUE /\ UNCHANGED <<lane, shown>>

Room == MaxConcurrency - Cardinality(InFlight)
Begun == {l \in Due : Cardinality({k \in Due : k < l}) < Room}

(* The timer goes off when a lane is due.  With none free to start, it is  *)
(* set again at once.                                                      *)
Tick ==
  /\ state = "running" /\ timer /\ Due # {}
  /\ lane' = [l \in L |-> IF l \in Begun THEN "running" ELSE lane[l]]
  /\ timer' = SetTimer(FALSE)
  /\ UNCHANGED <<state, shown>>

Reschedules == state = "running"

(* A run ends: with all work done, with some to retry or that never will   *)
(* be, or with an exception, which leaves the count of terminal failures.  *)
Finish(l) ==
  /\ lane[l] = "running" /\ lane' = [lane EXCEPT ![l] = "waiting"]
  /\ \E outcome \in {"idle", "retrying", "terminal", "threw"} :
       shown' = [shown EXCEPT ![l] = IF outcome # "threw" THEN outcome
                                     ELSE IF @ = "terminal" THEN @ ELSE "retrying"]
  /\ timer' = IF Reschedules THEN SetTimer(timer) ELSE timer
  /\ UNCHANGED state

(* Its interval, or its backoff, has passed; not between the end of a run  *)
(* and the start of one that is due, which follows at once.                *)
Elapse(l) ==
  /\ lane[l] = "waiting" /\ (Due = {} \/ (Overrun /\ InFlight # {}))
  /\ lane' = [lane EXCEPT ![l] = "due"]
  /\ UNCHANGED <<state, timer, shown>>

(* drain(): what is in flight may end, for a while. *)
Drain ==
  /\ state \in {"starting", "running"}
  /\ state' = "draining" /\ timer' = FALSE /\ UNCHANGED <<lane, shown>>

Drained ==
  /\ state = "draining"           \* nothing in flight, or deadlineMs has passed
  /\ state' = "stopped" /\ UNCHANGED <<timer, lane, shown>>

Next ==
  \/ Start \/ Tick \/ Drain \/ Drained
  \/ \E l \in L : Finish(l)
  \/ \E l \in L : Elapse(l)

Spec == Init /\ [][Next]_vars

(* Timers go off, and a run ends: each call it makes is answered or fails. *)
FairSpec ==
  Spec /\ WF_vars(Tick) /\ \A l \in L : WF_vars(Finish(l)) /\ WF_vars(Elapse(l))

-----------------------------------------------------------------------------
(* As long as the host runs, every lane gets its turn: no end of a run,    *)
(* however it ended, leaves the supervisor without a timer, and no lane is *)
(* passed over for ever.                                                   *)
LanesAreServed ==
  \A l \in L : lane[l] = "due" /\ state = "running" ~> lane[l] = "running" \/ state # "running"
=============================================================================
