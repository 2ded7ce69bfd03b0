------------------------------ MODULE ProcessHost ------------------------------
(* The host of a projection's child process (the graph's and the vector    *)
(* index's are the same program): it forks a child that alone opens the    *)
(* index, sends it requests under a deadline, kills it when it is late or  *)
(* breaks the protocol, and starts another as long as restarts are rare.   *)
(*                                                                         *)
(* The host runs one callback at a time and its promise jobs before the    *)
(* next (Settling); the children run beside it, and what they sent may     *)
(* arrive after they died, and after their exit was handled.               *)
EXTENDS Integers, FiniteSets, SequencesExt

CONSTANTS
  Calls,           \* the requests made of the host, each once
  MaxInFlight,     \* maxConcurrentRequests
  MaxRestarts,     \* restartPolicy.maxRestarts
  Window,          \* restartPolicy.windowMs
  Cooldown,        \* restartPolicy.cooldownMs
  MaxTime,         \* bound: the last instant
  MaxGeneration    \* bound: the generations the instants leave room for

HostAssumption ==
  /\ {MaxInFlight, MaxRestarts, Window, Cooldown} \subseteq Nat \ {0}
  /\ MaxTime \in Nat /\ MaxGeneration \in Nat \ {0}
  /\ {"initialize", "close"} \cap Calls = {}

VARIABLES
  phase,       \* opening, open, closing, closed
  closer,      \* how far close() or #abort() is
  generation,  \* of the latest child
  held,        \* #child is there: the child of the latest generation
  ready,
  starting,    \* #startPromise is there
  waiter,      \* the generation #startupWaiter is of, 0 when there is none
  due,         \* the generation whose exit has queued a restart, 0 when none
  circuit,     \* circuitOpenUntil
  restarts,    \* restartTimes
  now,
  child,       \* of each generation: its process
  tasks,       \* of each generation: the requests its process has not answered
  pipe,        \* of each generation: its messages the host has not handled
  call,        \* how far each request is
  sentTo,      \* of each request: the generation it was sent to, 0 before
  applied,     \* of each request: the generations that carried it out
  spawned      \* when each counted restart was made

hostVars == <<phase, closer, generation, held, ready, starting, waiter, due, circuit, restarts, now>>
childVars == <<child, tasks, pipe>>
requestVars == <<call, sentTo, applied>>
vars == <<hostVars, childVars, requestVars, spawned>>

Generations == 1 .. MaxGeneration
Requests == Calls \cup {"initialize", "close"}
Alive(g) == child[g] \in {"starting", "up"}
Waiting == {c \in Requests : call[c] = "starting"}
InFlight == {c \in Calls \cup {"initialize"} : call[c] \in {"starting", "cleared", "pending"}}

(* Promise jobs are there to run: no other callback runs before them.      *)
Settling ==
  \/ due # 0
  \/ \E c \in Requests : call[c] = "cleared"
  \/ phase = "opening" /\ call["initialize"] \in {"ok", "failed"}

Init ==
  /\ phase = "opening" /\ closer = "no"
  /\ generation = 1 /\ held = TRUE /\ starting = TRUE /\ waiter = 1 /\ ready = FALSE
  /\ due = 0 /\ circuit = 0 /\ restarts = << >> /\ spawned = << >> /\ now = 0
  /\ child = [g \in Generations |-> IF g = 1 THEN "starting" ELSE "none"]
  /\ tasks = [g \in Generations |-> << >>] /\ pipe = [g \in Generations |-> << >>]
  /\ call = [c \in Requests |-> IF c = "initialize" THEN "starting" ELSE "idle"]
  /\ sentTo = [c \in Requests |-> 0] /\ applied = [c \in Requests |-> {}]

-----------------------------------------------------------------------------
(* #admitRestart, #launchChild: `as` is what becomes of the request that   *)
(* asked, if one did.                                                      *)
RecentRestarts == SelectSeq(restarts, LAMBDA t : t >= now - Window)
AdmitsOneMore(counted) == counted => Len(RecentRestarts) <= MaxRestarts
Admits(counted) == counted => Len(RecentRestarts) < MaxRestarts

Launch(counted) ==
  /\ generation < MaxGeneration
  /\ generation' = generation + 1
  /\ held' = TRUE /\ ready' = FALSE /\ starting' = TRUE /\ waiter' = generation + 1
  /\ child' = [child EXCEPT ![generation + 1] = "starting"]
  /\ IF counted
     THEN restarts' = Append(RecentRestarts, now) /\ spawned' = Append(spawned, now)
     ELSE UNCHANGED <<restarts, spawned>>

StartChild(counted) ==
  IF Admits(counted)
  THEN Launch(counted)
  ELSE /\ restarts' = RecentRestarts
       /\ UNCHANGED <<generation, held, ready, starting, waiter, child, spawned>>

(* #request up to the end of #ensureReady.                                 *)
Begin(c) ==
  LET refused == call' = [call EXCEPT ![c] = "failed"]
      waits == call' = [call EXCEPT ![c] = "starting"]
      still == <<generation, held, ready, starting, waiter, child, restarts, spawned>>
  IN
  /\ c \in Calls /\ call[c] = "idle" /\ phase # "opening"
  /\ \/ /\ Cardinality(InFlight) >= MaxInFlight \/ phase # "open"
        /\ refused /\ UNCHANGED <<still, circuit>>
     \/ /\ Cardinality(InFlight) < MaxInFlight /\ phase = "open"
        /\ \/ ready /\ held /\ call' = [call EXCEPT ![c] = "cleared"] /\ UNCHANGED <<still, circuit>>
           \/ ~(ready /\ held) /\ circuit > now /\ refused /\ UNCHANGED <<still, circuit>>
           \/ ~(ready /\ held) /\ circuit <= now /\ starting /\ waits
                /\ circuit' = 0 /\ UNCHANGED still
           \/ /\ ~(ready /\ held) /\ circuit <= now /\ ~starting /\ StartChild(TRUE)
              /\ IF Admits(TRUE) THEN waits /\ circuit' = 0
                                 ELSE refused /\ circuit' = now + Cooldown
  /\ UNCHANGED <<phase, closer, due, now, tasks, pipe, sentTo, applied>>

(* The end of #request's synchronous part.  A process that died may still  *)
(* count as connected; the time left may be none.                          *)
Proceed(c) ==
  /\ call[c] = "cleared"
  /\ \/ /\ held /\ ready /\ phase \in {"opening", "open"}
        /\ call' = [call EXCEPT ![c] = "pending"]
        /\ sentTo' = [sentTo EXCEPT ![c] = generation]
        /\ tasks' = [tasks EXCEPT ![generation] = Append(@, c)]
     \/ call' = [call EXCEPT ![c] = "failed"] /\ UNCHANGED <<sentTo, tasks>>
  /\ UNCHANGED <<hostVars, child, pipe, applied, spawned>>

-----------------------------------------------------------------------------
(* #quarantine, #rejectStartup, #rejectGeneration, as what they make of    *)
(* the state they change.                                                  *)
Killed(g) == IF g = generation /\ held /\ Alive(g) THEN [child EXCEPT ![g] = "killed"] ELSE child
Quarantine(g) == child' = Killed(g) /\ ready' = (ready /\ g # generation)

RejectStartup(g) ==
  /\ waiter' = IF waiter = g THEN 0 ELSE waiter
  /\ starting' = (starting /\ waiter # g)
StartLost(g) == IF waiter = g THEN Waiting ELSE {}
SentTo(g) == {c \in Requests : call[c] = "pending" /\ sentTo[c] = g}
Settle(S, outcome) == [c \in Requests |-> IF c \in S THEN outcome ELSE call[c]]

(* The wait for a start gives up; the start goes on.                       *)
Deadline(c) ==
  /\ ~Settling /\ c \in Calls /\ call[c] = "starting"
  /\ call' = [call EXCEPT ![c] = "failed"]
  /\ UNCHANGED <<hostVars, childVars, sentTo, applied, spawned>>

(* A request's timer, or the callback of a send that failed.               *)
Timeout(c) ==
  /\ ~Settling /\ call[c] = "pending"
  /\ call' = [call EXCEPT ![c] = "failed"] /\ Quarantine(sentTo[c])
  /\ UNCHANGED <<phase, closer, generation, held, starting, waiter, due, circuit, restarts, now>>
  /\ UNCHANGED <<tasks, pipe, sentTo, applied, spawned>>

(* The start's timer: it rejects the start and leaves the waiter.          *)
StartupTimeout ==
  /\ ~Settling /\ starting /\ waiter = generation
  /\ starting' = FALSE /\ call' = Settle(Waiting, "failed") /\ Quarantine(generation)
  /\ UNCHANGED <<phase, closer, generation, held, waiter, due, circuit, restarts, now>>
  /\ UNCHANGED <<tasks, pipe, sentTo, applied, spawned>>

-----------------------------------------------------------------------------
(* #handleMessage.                                                         *)
HandleReady(g) ==
  /\ IF waiter = g
     THEN /\ waiter' = 0 /\ starting' = FALSE /\ ready' = TRUE
          /\ call' = Settle(IF starting THEN Waiting ELSE {}, "cleared") /\ UNCHANGED child
     ELSE Quarantine(g) /\ UNCHANGED <<waiter, starting, call>>

(* A start that failed, or is not the one expected.                        *)
HandleStartupError(g) ==
  /\ RejectStartup(g) /\ Quarantine(g)
  /\ call' = Settle(StartLost(g), "failed")

HandleGarbage(g) ==
  /\ RejectStartup(g) /\ Quarantine(g)
  /\ call' = Settle(StartLost(g) \cup SentTo(g), "failed")

(* An answer to a request that was given up is dropped.                    *)
HandleAnswer(c, outcome) ==
  /\ call' = IF call[c] = "pending" THEN [call EXCEPT ![c] = outcome] ELSE call
  /\ UNCHANGED <<waiter, starting, ready, child>>

HandleMessage(g) ==
  /\ ~Settling /\ pipe[g] # << >>
  /\ pipe' = [pipe EXCEPT ![g] = Tail(@)]
  /\ LET message == Head(pipe[g]) IN
     CASE message.kind = "ready" -> HandleReady(g)
       [] message.kind = "startup_error" -> HandleStartupError(g)
       [] message.kind = "garbage" -> HandleGarbage(g)
       [] OTHER -> HandleAnswer(message.call, message.kind)
  /\ UNCHANGED <<phase, closer, generation, held, due, circuit, restarts, now>>
  /\ UNCHANGED <<tasks, sentTo, applied, spawned>>

(* #handleExit; the restart it queues.                                     *)
HandleExit(g) ==
  /\ ~Settling /\ child[g] \in {"killed", "gone"}
  /\ child' = [child EXCEPT ![g] = "exited"]
  /\ RejectStartup(g) /\ call' = Settle(StartLost(g) \cup SentTo(g), "failed")
  /\ ready' = (ready /\ g # generation) /\ held' = (held /\ g # generation)
  /\ due' = IF g = generation /\ phase = "open" /\ circuit <= now THEN g ELSE 0
  /\ UNCHANGED <<phase, closer, generation, circuit, restarts, now, tasks, pipe, sentTo, applied, spawned>>

Restart ==
  /\ due # 0 /\ due' = 0
  /\ IF due = generation /\ phase = "open" /\ ~starting
     THEN StartChild(TRUE) /\ circuit' = IF Admits(TRUE) THEN circuit ELSE now + Cooldown
     ELSE UNCHANGED <<generation, held, ready, starting, waiter, child, restarts, spawned, circuit>>
  /\ UNCHANGED <<phase, closer, now, tasks, pipe, requestVars>>

(* The child's "error" event: it could not be spawned, and will not exit.  *)
SpawnFails(g) ==
  /\ ~Settling /\ child[g] = "starting" /\ pipe[g] = << >>
  /\ child' = [child EXCEPT ![g] = "exited"]
  /\ RejectStartup(g) /\ call' = Settle(StartLost(g), "failed")
  /\ UNCHANGED <<phase, closer, generation, held, ready, due, circuit, restarts, now>>
  /\ UNCHANGED <<tasks, pipe, sentTo, applied, spawned>>

-----------------------------------------------------------------------------
(* open() returns, or #abort() begins.                                     *)
Opened ==
  /\ phase = "opening" /\ call["initialize"] = "ok" /\ phase' = "open"
  /\ UNCHANGED <<closer, generation, held, ready, starting, waiter, due, circuit, restarts, now>>
  /\ UNCHANGED <<childVars, requestVars, spawned>>

Abort ==
  /\ phase = "opening" /\ call["initialize"] = "failed"
  /\ phase' = "closing" /\ closer' = "kill"
  /\ UNCHANGED <<generation, held, ready, starting, waiter, due, circuit, restarts, now>>
  /\ UNCHANGED <<childVars, requestVars, spawned>>

(* close(): a child that is ready is asked to leave, before it is killed.  *)
Close ==
  /\ phase = "open" /\ phase' = "closing"
  /\ \/ /\ held /\ ready /\ closer' = "asking"
        /\ call' = [call EXCEPT !["close"] = "pending"]
        /\ sentTo' = [sentTo EXCEPT !["close"] = generation]
        /\ tasks' = [tasks EXCEPT ![generation] = Append(@, "close")]
     \/ /\ ~(held /\ ready /\ Alive(generation))
        /\ closer' = "kill" /\ UNCHANGED <<call, sentTo, tasks>>
  /\ UNCHANGED <<generation, held, ready, starting, waiter, due, circuit, restarts, now>>
  /\ UNCHANGED <<child, pipe, applied, spawned>>

(* The child's exit is waited for, for a second each time.                 *)
CloseStep ==
  /\ ~Settling /\ phase = "closing"
  /\ \/ closer = "asking" /\ call["close"] = "ok" /\ closer' = "waiting" /\ UNCHANGED child
     \/ closer = "asking" /\ call["close"] = "failed" /\ closer' = "kill" /\ UNCHANGED child
     \/ closer = "waiting" /\ ~held /\ closer' = "done" /\ UNCHANGED child
     \/ closer = "waiting" /\ closer' = "kill" /\ UNCHANGED child
     \/ closer = "kill" /\ closer' = "done" /\ child' = Killed(generation)
  /\ UNCHANGED <<phase, generation, held, ready, starting, waiter, due, circuit, restarts, now>>
  /\ UNCHANGED <<tasks, pipe, requestVars, spawned>>

Closed ==
  /\ ~Settling /\ phase = "closing" /\ closer = "done"
  /\ phase' = "closed" /\ ready' = FALSE /\ held' = FALSE
  /\ call' = Settle({c \in Requests : call[c] = "pending"}, "failed")
  /\ UNCHANGED <<closer, generation, starting, waiter, due, circuit, restarts, now>>
  /\ UNCHANGED <<childVars, sentTo, applied, spawned>>

Tick ==
  /\ ~Settling /\ now < MaxTime /\ now' = now + 1
  /\ UNCHANGED <<phase, closer, generation, held, ready, starting, waiter, due, circuit, restarts>>
  /\ UNCHANGED <<childVars, requestVars, spawned>>

-----------------------------------------------------------------------------
(* The child: it opens the index, then takes its requests one at a time.   *)
Say(g, message) == pipe' = [pipe EXCEPT ![g] = Append(@, message)]

Boot(g) ==
  /\ child[g] = "starting"
  /\ \/ child' = [child EXCEPT ![g] = "up"] /\ Say(g, [kind |-> "ready"])
     \/ child' = [child EXCEPT ![g] = "gone"] /\ Say(g, [kind |-> "startup_error"])
  /\ UNCHANGED <<hostVars, tasks, requestVars, spawned>>

Apply(g) ==
  /\ child[g] = "up" /\ tasks[g] # << >> /\ Head(tasks[g]) # "close"
  /\ g \notin applied[Head(tasks[g])]
  /\ applied' = [applied EXCEPT ![Head(tasks[g])] = @ \cup {g}]
  /\ UNCHANGED <<hostVars, childVars, call, sentTo, spawned>>

(* It answers what it carried out, refuses what it did not, or says what   *)
(* the host cannot read.                                                   *)
Answer(g) ==
  /\ child[g] = "up" /\ tasks[g] # << >>
  /\ LET c == Head(tasks[g]) IN
     /\ \/ c # "close" /\ g \in applied[c] /\ Say(g, [kind |-> "ok", call |-> c])
        \/ c # "close" /\ g \notin applied[c] /\ Say(g, [kind |-> "failed", call |-> c])
        \/ c # "close" /\ Say(g, [kind |-> "garbage"])
        \/ c = "close" /\ Say(g, [kind |-> "ok", call |-> c])
     /\ tasks' = [tasks EXCEPT ![g] = IF c = "close" THEN << >> ELSE Tail(@)]
     /\ child' = IF c = "close" THEN [child EXCEPT ![g] = "gone"] ELSE child
  /\ UNCHANGED <<hostVars, requestVars, spawned>>

Crash(g) ==
  /\ Alive(g) /\ child' = [child EXCEPT ![g] = "gone"]
  /\ UNCHANGED <<hostVars, tasks, pipe, requestVars, spawned>>

-----------------------------------------------------------------------------
ChildStep(g) == Boot(g) \/ Apply(g) \/ Answer(g) \/ Crash(g)
HostStep ==
  \/ \E c \in Requests : Begin(c) \/ Proceed(c) \/ Deadline(c) \/ Timeout(c)
  \/ \E g \in Generations : HandleMessage(g) \/ HandleExit(g) \/ SpawnFails(g)
  \/ StartupTimeout \/ Restart \/ Opened \/ Abort \/ Close \/ CloseStep \/ Closed \/ Tick
Next == HostStep \/ \E g \in Generations : ChildStep(g)

Spec == Init /\ [][Next]_vars
-----------------------------------------------------------------------------
TypeOK ==
  /\ phase \in {"opening", "open", "closing", "closed"}
  /\ closer \in {"no", "asking", "waiting", "kill", "done"}
  /\ {held, ready, starting} \subseteq BOOLEAN
  /\ generation \in Generations /\ {waiter, due} \subseteq 0 .. generation
  /\ circuit \in 0 .. MaxTime + Cooldown /\ now \in 0 .. MaxTime
  /\ child \in [Generations -> {"none", "starting", "up", "killed", "gone", "exited"}]
  /\ call \in [Requests -> {"idle", "starting", "cleared", "pending", "ok", "failed"}]
  /\ sentTo \in [Requests -> 0 .. generation]
  /\ \A c \in Requests : applied[c] \subseteq Generations
  /\ \A g \in Generations : IsInjective(tasks[g]) /\ ToSet(tasks[g]) \subseteq Requests

(* Whatever comes late or out of order, the index has one writer: a child  *)
(* that is not killed is the latest, and the host still holds it; a closed *)
(* host has left none behind.                                              *)
OneOwner ==
  \A g \in Generations : Alive(g) => g = generation /\ held /\ phase # "closed"

(* No request waits for what will not come: for an answer of a child whose *)
(* exit was handled, for a start that is over, or for a closed host.       *)
NoneForgotten ==
  \A c \in Requests :
    /\ call[c] = "pending" => child[sentTo[c]] # "exited" /\ phase # "closed"
    /\ call[c] = "starting" => starting /\ child[generation] # "exited"

(* A success is reported of what the child it was sent to carried out, and *)
(* nothing is carried out twice, or after being refused unsent.            *)
AnsweredIsApplied ==
  \A c \in Calls \cup {"initialize"} :
    /\ applied[c] \subseteq {sentTo[c]}
    /\ call[c] = "ok" => applied[c] = {sentTo[c]} /\ sentTo[c] # 0

(* No more than MaxRestarts restarts fall in any Window, whichever of a    *)
(* request and an exit asks for them.                                      *)
RestartsAreRare ==
  \A i \in 1 .. Len(spawned) :
    i + MaxRestarts <= Len(spawned) => spawned[i + MaxRestarts] - spawned[i] > Window

ProcessSound ==
  TypeOK /\ OneOwner /\ NoneForgotten /\ AnsweredIsApplied /\ RestartsAreRare

(* No child is started while the circuit is open, nor by a host that is    *)
(* closing.                                                                *)
CircuitHolds == generation' # generation => circuit <= now /\ phase = "open"
=============================================================================
