---------------------------- MODULE StorageClient ----------------------------
(***************************************************************************)
(* The storage client of packages/storage-sqlite (client.ts), the object   *)
(* through which a process reaches its database: a writer queue            *)
(* (writer-queue.ts) whose entries are admitted twice                      *)
(* (admission-control.ts), a worker thread that carries out one request    *)
(* after the other (storage-worker.ts), the requests that wait for its     *)
(* answers, and the shutdown that gives the root lease back.               *)
(*                                                                         *)
(* A call is a method call of the client.  A protected write is the        *)
(* sequence of requests effect, row, and, when one of them fails, probe,   *)
(* rerow, replay; what the recovery head does in between is module         *)
(* RecoveryHead.  Node delivers a worker's messages in order; a worker     *)
(* that throws answers nothing more, and the client hears of it in two     *)
(* events, "error" and then "exit", with its own code in between.          *)
(***************************************************************************)
EXTENDS Naturals, Sequences, FiniteSets

CONSTANTS Calls,        \* the calls made of one client
          Workloads,    \* what they may ask: a kind, and for a write its
                        \* idempotency key and request hash
          MaxDepth,     \* max_queue_depth
          MaxBreaks,    \* bound: worker threads that throw
          CloseAfterError   \* may close() fall between "error" and "exit"?

ClientAssumption ==
  /\ \A w \in Workloads : DOMAIN w = Calls /\ \A c \in Calls :
       w[c].kind \in {"write", "backup", "checkpoint", "read", "health"}
  /\ MaxDepth \in Nat \ {0} /\ MaxBreaks \in Nat /\ CloseAfterError \in BOOLEAN

Opener == "open"        \* SqliteStorageClient.open, itself a caller
Closer == "close"       \* close()
Callers == Calls \cup {Opener, Closer}

VARIABLES ask,          \* the workload
          phase,        \* of the client: #closing is the two last but one
          lease,        \* is the root lease held?
          at,           \* what each caller waits for, or how it settled
          queue,        \* #queued: writer queue entries, the running one first
          late,         \* entries older than max_queue_age_ms
          waiting,      \* #pending: callers whose request is unanswered
          worker,       \* none, up; broken: has thrown; gone: "error" was heard
          inbox,        \* requests posted to the worker
          answers,      \* its answers under way
          stored,       \* keys whose effect is in the database
          disk, wal,    \* what observeStorageCapacity finds
          busy,         \* did the last checkpoint end on a busy log?
          tries,        \* checkpoint requests of the running call
          readOnly,     \* AdmissionController.#readOnly
          breaks        \* workers that threw

ends  == <<worker, inbox, answers, stored>>
room  == <<disk, wal, busy>>
vars  == <<ask, phase, lease, at, queue, late, waiting, ends, room, tries, readOnly, breaks>>

Kind == [c \in Calls |-> ask[c].kind]
Key  == [c \in Calls |-> ask[c].key]
Hash == [c \in Calls |-> ask[c].hash]

Settled == {"resolved", "rejected"}
Steps == {"effect", "row", "probe", "rerow", "replay", "draft", "install",
          "checkpoint", "read", "health", "recover", "purge", "close"}
Queued(c) == c \in Calls /\ Kind[c] \in {"write", "backup", "checkpoint"}
AnyExit == TRUE                               \* mutation: every exit expected
Closing == phase \in {"closing", "terminating"}

TypeOK ==
  /\ phase \in {"unopened", "opening", "open", "closing", "terminating", "closed"}
  /\ lease \in BOOLEAN /\ readOnly \in BOOLEAN /\ busy \in BOOLEAN
  /\ at \in [Callers -> Steps \cup Settled \cup {"idle", "joined", "queued"}]
  /\ queue \in Seq(Calls) /\ late \subseteq {queue[i] : i \in DOMAIN queue}
  /\ waiting \subseteq Callers /\ worker \in {"none", "up", "broken", "gone"}
  /\ inbox \in Seq(Callers) /\ stored \subseteq {Key[c] : c \in Calls}
  /\ answers \in Seq([to : Callers, said : {"done", "busy", "refused"}])
  /\ disk \in {"low", "some", "ample"} /\ wal \in {"small", "some", "large"}
  /\ ask \in Workloads /\ tries \in 0 .. 3 /\ breaks \in 0 .. MaxBreaks

Init ==
  /\ ask \in Workloads
  /\ phase = "unopened" /\ lease = FALSE /\ at = [c \in Callers |-> "idle"]
  /\ queue = <<>> /\ late = {} /\ waiting = {}
  /\ worker = "none" /\ inbox = <<>> /\ answers = <<>> /\ stored = {}
  /\ disk = "ample" /\ wal = "small" /\ busy = FALSE
  /\ tries = 0 /\ readOnly = FALSE /\ breaks = 0

-----------------------------------------------------------------------------
(* Admission. *)

Pressed  == disk = "low" \/ wal = "large"
Relieved == disk = "ample" /\ wal = "small" /\ ~busy

Refreshed == Pressed \/ (readOnly /\ ~Relieved)

NotReread == readOnly                         \* mutation: pressure seen at entry

(* The operation that runs, and which others may enter the queue meanwhile. *)
Active == {c \in Calls : c \in {queue[i] : i \in DOMAIN queue} /\ at[c] # "queued"}
Compatible(c) == \A d \in Active : Kind[c] = "write" /\ Kind[d] = "write"

Admissible(c) == Kind[c] = "checkpoint" \/ ~Refreshed

(* What a caller does next when its request is answered, or fails. *)
OnAnswer(c) ==
  CASE at[c] = "effect" -> "row"
    [] at[c] = "probe" -> IF Key[c] \in stored THEN "rerow" ELSE "rejected"
    [] at[c] = "rerow" -> "replay"
    [] at[c] = "draft" -> "install"
    [] c = Opener /\ at[c] = "health" -> "recover"
    [] c = Opener /\ at[c] = "recover" -> "purge"
    [] OTHER -> "resolved"

OnFailure(c) == IF at[c] \in {"effect", "row"} THEN "probe" ELSE "rejected"

(* #request throws once the client closes, for all but the request "close". *)
MayAskAnything(c) == phase \in {"opening", "open"} \cup {"closing"}   \* mutation
MayAsk(c) == IF c = Closer THEN phase # "closed" ELSE phase \in {"opening", "open"}
Allowed(c, step) == IF step \in Steps /\ ~MayAsk(c) THEN "rejected" ELSE step

(* Calls that share an idempotency key in flight share one promise.        *)
SharersOf(c) ==
  IF c \in Calls /\ Kind[c] = "write"
  THEN {d \in Calls : at[d] = "joined" /\ Key[d] = Key[c]} ELSE {}

(* The callers of Moved go on to next[c]: a new request is posted and      *)
(* waits (a dead worker takes it and never answers), a settled call takes  *)
(* those that joined it along and leaves the queue.  w is the worker.      *)
Continue(Moved, next, w, mail) ==
  LET n == [c \in Moved |-> Allowed(c, next[c])]
      asks == {c \in Moved : n[c] \in Steps}
      over == {c \in Moved : n[c] \in Settled}
      Of(d) == CHOOSE c \in over : d \in SharersOf(c)
      asked == CHOOSE s \in [1 .. Cardinality(asks) -> asks] :
                 \A i, j \in DOMAIN s : s[i] = s[j] => i = j
      respawn == w = "none" /\ asks # {}
  IN /\ at' = [c \in Callers |->
                 IF c \in Moved THEN n[c]
                 ELSE IF \E d \in over : c \in SharersOf(d) THEN n[Of(c)] ELSE at[c]]
     /\ queue' = SelectSeq(queue, LAMBDA c : c \notin over)
     /\ late' = late \ over
     /\ waiting' = (waiting \ Moved) \cup asks
     /\ worker' = IF respawn THEN "up" ELSE w
     /\ inbox' = IF w = "up" \/ respawn THEN mail \o asked ELSE <<>>

One(c, step) == [d \in {c} |-> step]

-----------------------------------------------------------------------------
(* The callers. *)

(* The constructor takes the root lease; open() then asks for the health,  *)
(* settles the recovery authority and finishes a pending secret purge.     *)
Open ==
  /\ phase = "unopened"
  /\ phase' = "opening" /\ lease' = TRUE
  /\ at' = [at EXCEPT ![Opener] = "health"]
  /\ waiting' = {Opener} /\ worker' = "up" /\ inbox' = <<Opener>>
  /\ UNCHANGED <<queue, late, answers, stored, room, tries, readOnly, breaks>>

InFlight(c) ==
  {d \in Calls : Kind[d] = "write" /\ Key[d] = Key[c] /\ at[d] \notin Settled \cup {"idle", "joined"}}

Reject(c) == at' = [at EXCEPT ![c] = "rejected"] /\ UNCHANGED <<queue, late, waiting, worker, inbox>>

JoinAny(c) == TRUE                            \* mutation: request hash ignored
Joins(c) == \A d \in InFlight(c) : Hash[d] = Hash[c]

(* A write joins the one in flight under its key, or conflicts with it.    *)
Coalesce(c) ==
  /\ Kind[c] = "write" /\ InFlight(c) # {}
  /\ at' = [at EXCEPT ![c] = IF Joins(c) THEN "joined" ELSE "rejected"]
  /\ UNCHANGED <<queue, late, waiting, worker, inbox, readOnly>>

Enqueue(c) ==
  /\ Queued(c) /\ (Kind[c] = "write" => InFlight(c) = {})
  /\ LET full == Len(queue) >= MaxDepth \/ late # {}
     IN IF ~lease \/ full
        THEN Reject(c) /\ UNCHANGED readOnly
        ELSE /\ readOnly' = Refreshed
             /\ IF Compatible(c) /\ Admissible(c)
                THEN /\ at' = [at EXCEPT ![c] = "queued"]
                     /\ queue' = Append(queue, c)
                     /\ UNCHANGED <<late, waiting, worker, inbox>>
                ELSE Reject(c)

(* Reads go to the worker past the queue; health() looks at the room too.  *)
Read(c) ==
  /\ ~Queued(c)
  /\ readOnly' = IF Kind[c] = "health" THEN Refreshed ELSE readOnly
  /\ Continue({c}, One(c, Kind[c]), worker, inbox)

Call(c) ==
  /\ at[c] = "idle" /\ at[Opener] = "resolved"
  /\ Coalesce(c) \/ Enqueue(c) \/ Read(c)
  /\ UNCHANGED <<phase, lease, answers, stored, room, tries, breaks>>

First(c) == CASE Kind[c] = "write" -> "effect"
              [] Kind[c] = "backup" -> "draft"
              [] Kind[c] = "checkpoint" -> "checkpoint"

RoomAtStart == Refreshed
StartsOnTime(c) == lease /\ c \notin late

(* The entry at the front of the queue is admitted again, then runs.       *)
Start ==
  /\ queue # <<>> /\ at[Head(queue)] = "queued"
  /\ LET c == Head(queue)
         admitted == StartsOnTime(c) /\ (Kind[c] = "checkpoint" \/ ~RoomAtStart)
     IN /\ readOnly' = IF StartsOnTime(c) THEN RoomAtStart ELSE readOnly
        /\ Continue({c}, One(c, IF admitted THEN First(c) ELSE "rejected"), worker, inbox)
        /\ tries' = IF Kind[c] = "checkpoint" THEN 1 ELSE tries
  /\ UNCHANGED <<phase, lease, answers, stored, room, breaks>>

CanClose == phase = "open" /\ (worker = "gone" => CloseAfterError)

(* close(): a client without a worker closes at once; otherwise the worker *)
(* is asked to close its database, behind every request posted before.     *)
Close ==
  /\ CanClose
  /\ IF worker = "none"
     THEN /\ phase' = "closed" /\ lease' = FALSE
          /\ at' = [at EXCEPT ![Closer] = "resolved"]
          /\ UNCHANGED <<queue, late, waiting, worker, inbox>>
     ELSE /\ phase' = "closing" /\ Continue({Closer}, One(Closer, "close"), worker, inbox)
          /\ UNCHANGED lease
  /\ UNCHANGED <<answers, stored, room, tries, readOnly, breaks>>

(* The worker thread has ended: close() and #abort() give the lease back.  *)
Terminated ==
  /\ phase = "terminating"
  /\ phase' = "closed" /\ lease' = FALSE
  /\ worker' = "none" /\ inbox' = <<>> /\ answers' = <<>>
  /\ UNCHANGED <<at, queue, late, waiting, stored, room, tries, readOnly, breaks>>

-----------------------------------------------------------------------------
(* The worker, and what the client hears of it. *)

Effective(c) == c \in Calls /\ Kind[c] = "write" /\ at[c] \in {"effect", "replay"}
Longer == [small |-> {"small", "some"}, some |-> {"some", "large"}, large |-> {"large"}]

Carry(c, said) ==
  /\ stored' = IF Effective(c) THEN stored \cup {Key[c]} ELSE stored
  /\ IF c \in Calls /\ at[c] = "checkpoint"
     THEN wal' = IF said = "busy" THEN wal ELSE "small"
     ELSE said = "done" /\ wal' \in IF Effective(c) THEN Longer[wal] ELSE {wal}

(* A request is carried out and answered, or refused with a typed error.   *)
Execute ==
  /\ worker = "up" /\ inbox # <<>>
  /\ inbox' = Tail(inbox)
  /\ \E said \in {"done", "busy", "refused"} :
       /\ answers' = Append(answers, [to |-> Head(inbox), said |-> said])
       /\ IF said = "refused" THEN UNCHANGED <<stored, wal>> ELSE Carry(Head(inbox), said)
  /\ UNCHANGED <<phase, lease, at, queue, late, waiting, worker, disk, busy, tries, readOnly, breaks>>

(* The thread throws, maybe after it carried out the request it was at.    *)
Break ==
  /\ worker = "up" /\ breaks < MaxBreaks
  /\ worker' = "broken" /\ inbox' = <<>> /\ breaks' = breaks + 1
  /\ \/ inbox # <<>> /\ \E said \in {"done", "busy"} : Carry(Head(inbox), said)
     \/ UNCHANGED <<stored, wal>>
  /\ UNCHANGED <<phase, lease, at, queue, late, waiting, answers, disk, busy, tries, readOnly>>

(* close() goes on to terminate the worker whether or not its request      *)
(* succeeded; a failed open() aborts, which terminates it too.             *)
NextPhase ==
  CASE at'[Closer] \in Settled /\ phase = "closing" -> "terminating"
    [] at'[Opener] = "rejected" /\ phase = "opening" -> "terminating"
    [] at'[Opener] = "resolved" /\ phase = "opening" -> "open"
    [] OTHER -> phase

AlwaysAgain == TRUE                           \* mutation: no limit
MayRepeat == tries < 3

(* A checkpoint that found the log busy is asked for again, twice.         *)
Answered ==
  /\ answers # <<>>
  /\ answers' = Tail(answers)
  /\ LET a == Head(answers)
         checks == a.to \in Calls /\ at[a.to] = "checkpoint" /\ a.said # "refused"
         again == checks /\ a.said = "busy" /\ MayRepeat
     IN IF a.to \notin waiting
        THEN UNCHANGED <<at, queue, late, waiting, worker, inbox, tries, busy>>
        ELSE /\ Continue({a.to},
                         One(a.to, IF again THEN "checkpoint"
                                   ELSE IF a.said = "refused" THEN OnFailure(a.to) ELSE OnAnswer(a.to)),
                         worker, inbox)
             /\ tries' = IF again THEN tries + 1 ELSE tries
             /\ busy' = IF checks /\ ~again THEN a.said = "busy" ELSE busy
  /\ phase' = NextPhase
  /\ UNCHANGED <<lease, stored, disk, wal, readOnly, breaks>>

(* #rejectAll. *)
FailWaiting(w) == Continue(waiting, [c \in waiting |-> OnFailure(c)], w, <<>>)

Errored ==
  /\ worker = "broken" /\ answers = <<>>
  /\ FailWaiting("gone") /\ phase' = NextPhase
  /\ UNCHANGED <<lease, answers, stored, room, tries, readOnly, breaks>>

(* A client that closes expects the exit and rejects nothing.              *)
Exited ==
  /\ worker = "gone" /\ answers = <<>>
  /\ IF Closing
     THEN worker' = "none" /\ inbox' = <<>> /\ UNCHANGED <<at, queue, late, waiting>>
     ELSE FailWaiting("none")
  /\ phase' = NextPhase
  /\ UNCHANGED <<lease, answers, stored, room, tries, readOnly, breaks>>

-----------------------------------------------------------------------------
(* Time and the disk. *)

(* Entries age in the order they entered. *)
Age ==
  /\ \E i \in DOMAIN queue :
       /\ queue[i] \notin late /\ \A j \in 1 .. i - 1 : queue[j] \in late
       /\ late' = late \cup {queue[i]}
  /\ UNCHANGED <<phase, lease, at, queue, waiting, ends, room, tries, readOnly, breaks>>

DiskMoves ==
  /\ disk' \in {"low", "some", "ample"} \ {disk}
  /\ UNCHANGED <<phase, lease, at, queue, late, waiting, ends, wal, busy, tries, readOnly, breaks>>

Takes(Action) == Action /\ UNCHANGED ask

Next ==
  \/ Takes(Open) \/ Takes(Start) \/ Takes(Close) \/ Takes(Terminated)
  \/ Takes(Execute) \/ Takes(Break)
  \/ Takes(Answered) \/ Takes(Errored) \/ Takes(Exited)
  \/ Takes(Age) \/ Takes(DiskMoves)
  \/ \E c \in Calls : Takes(Call(c))

Spec == Init /\ [][Next]_vars

(* The event loop runs what is ready, and the worker thread takes the next *)
(* message; a request it never takes is one whose worker threw.            *)
FairSpec ==
  /\ Spec /\ WF_vars(Takes(Start)) /\ WF_vars(Takes(Terminated))
  /\ WF_vars(Takes(Execute)) /\ WF_vars(Takes(Answered))
  /\ WF_vars(Takes(Errored)) /\ WF_vars(Takes(Exited))

-----------------------------------------------------------------------------
(* Whoever the root lease goes to next finds nobody left at work: once it  *)
(* is given back there is no worker thread, so nothing of this client can  *)
(* reach the database, and no caller is left waiting for an answer.        *)
NothingOutlivesLease ==
  ~lease => worker = "none" /\ waiting = {} /\ (phase = "closed" => at[Closer] # "close")

(* A caller that is told its write succeeded finds it in the database,     *)
(* even when the worker died under it, and never gets the answer to        *)
(* another request that happened to use the same idempotency key.          *)
ResolvedIsStored ==
  \A c \in Calls : Kind[c] = "write" /\ at[c] = "resolved" => Key[c] \in stored
SharedIsSame ==
  \A c \in Calls : at[c] = "joined" => \A d \in InFlight(c) : Hash[d] = Hash[c]
AnswersAreOwn == ResolvedIsStored /\ SharedIsSame

(* However long an entry waited and whatever was true when it entered, no  *)
(* write or backup begins while the disk is short or the log too long, nor *)
(* after pressure before the disk, the log and the last checkpoint have    *)
(* all recovered, nor when it is past its age; and one runs at a time.     *)
BeginsWithRoom ==
  [][\A c \in Calls :
       at[c] = "queued" /\ at'[c] \in {"effect", "draft"} =>
         /\ ~Pressed /\ (readOnly => Relieved)
         /\ c \notin late /\ Cardinality(Active') = 1]_vars

(* Every call is answered, in time or with an error: no death of the       *)
(* worker, no full queue and no shutdown leaves a caller waiting.          *)
CallsSettle == \A c \in Calls : at[c] # "idle" ~> at[c] \in Settled

(* A shutdown that has begun ends with the root lease given back.          *)
CloseEnds == phase = "closing" ~> phase = "closed"
=============================================================================
