--------------------------- MODULE FormationJobs ---------------------------
(***************************************************************************)
(* Automatic memory formation: the inbox of captured turns, the queue of   *)
(* formation jobs and the host's formation lane that works on it.          *)
(*                                                                         *)
(*   inbox and queue   packages/storage-sqlite/src/                        *)
(*                       automatic-memory-repository.ts                    *)
(*   lane              packages/runtime-host/src/runtime-factory.ts        *)
(*   extraction        packages/memory-formation/src/service.ts            *)
(*                                                                         *)
(* A user prompt and an assistant Stop of the same turn pair up into one   *)
(* formation job.  A Stop carries a generation; a later generation         *)
(* supersedes the earlier one and starts the job afresh.  The lane claims  *)
(* up to BatchLimit jobs under a lease and, job after job, asks a provider *)
(* for proposals, admits the ones the policy keeps as governed memories,   *)
(* records the audit of the attempt and completes the job.  Every call to  *)
(* the store is one transaction; between two calls a hook may capture      *)
(* another event, a lease may run out, and the host may die.               *)
(*                                                                         *)
(* A clock reading is unique to the attempt that takes it, so the attempt  *)
(* stands for every timestamp a request hash covers.  A host that dies is  *)
(* replaced by one with another worker id: the root lease admits one       *)
(* writer at a time.                                                       *)
(***************************************************************************)
EXTENDS Naturals, FiniteSets

CONSTANTS
    Turns,          \* conversation turns of the project
    Proposals,      \* proposal identifiers a provider may return for a turn
    Rescoped,       \* the proposals whose target scope is not the job's scope
    MaxGeneration,  \* Stop generations of a turn (the Codex hook makes 1 and 2)
    MaxAttempts,    \* MAX_AUTOMATIC_MEMORY_FORMATION_ATTEMPTS, and max_attempts
    BatchLimit,     \* jobs the lane claims in one run
    MaxCrashes,     \* bound on host restarts
    Faults          \* whether the provider and the store's calls may fail

ASSUME RescopedAssumption == Rescoped \subseteq Proposals
ASSUME BoundsAssumption ==
    /\ MaxGeneration \in Nat \ {0}
    /\ MaxAttempts \in Nat \ {0}
    /\ BatchLimit \in Nat \ {0}
    /\ MaxCrashes \in Nat
    /\ Faults \in BOOLEAN

VARIABLES
    turns,       \* automatic_memory_turns, with the Stops captured for each
    jobs,        \* automatic_memory_formation_jobs, one per turn
    lane,        \* the running host's formation lane
    rescoped,    \* evidence copied to a target scope: commitEpisode's keys
    admitted,    \* memory_propose mutations made for formation
    audited,     \* automatic_memory_provider_attempts
    decided,     \* automatic_memory_policy_decisions with their links
    failed       \* automatic_memory_failures

vars == <<turns, jobs, lane, rescoped, admitted, audited, decided, failed>>

Generations == 1 .. MaxGeneration
Attempts == 1 .. MaxAttempts
Hosts == 1 .. MaxCrashes + 1
NoJob == [status |-> "none", gen |-> 0, attempts |-> 0, by |-> 0,
          due |-> FALSE, result |-> 0]

\* What the lane holds of a job it claimed.
Claim == [turn : Turns, gen : Generations, attempt : Attempts]
NoClaim == [turn |-> "none", gen |-> 0, attempt |-> 0]

\* The proposals of one extraction, by what the lane still does with them.
NoWork == [todo |-> {}, moved |-> {}, kept |-> {}, refused |-> {}]

Idle(host) == [host |-> host, step |-> "idle", batch |-> {}, job |-> NoClaim,
               work |-> NoWork]

FInit ==
    /\ turns = [t \in Turns |->
                  [user |-> FALSE, stops |-> {}, active |-> 0, state |-> "none"]]
    /\ jobs = [t \in Turns |-> NoJob]
    /\ lane = Idle(1)
    /\ rescoped = {}
    /\ admitted = {}
    /\ audited = {}
    /\ decided = {}
    /\ failed = {}

written == <<rescoped, admitted, audited, decided, failed>>

-----------------------------------------------------------------------------
(* Capture.  A repeated event returns the receipt it got and changes        *)
(* nothing, so an event is captured once; so is a second Stop of one        *)
(* generation, which the store refuses.                                     *)

Paired(turn) == turn.user /\ turn.stops # {}

\* The job of a turn that has both halves; a later generation starts it
\* afresh.  available_at lies one stabilization delay ahead.
\* mutation: a job that exists is never started afresh
JobForOnce(turn, job) ==
    IF job.status = "none" THEN [NoJob EXCEPT !.status = "pending", !.gen = turn.active]
    ELSE job

JobFor(turn, job) ==
    IF job.status = "none" \/ turn.active > job.gen
      THEN [NoJob EXCEPT !.status = "pending", !.gen = turn.active]
      ELSE job

Store(t, turn) ==
    /\ turns' = [turns EXCEPT ![t] =
                   IF Paired(turn) THEN [turn EXCEPT !.state = "stabilizing"]
                                   ELSE [turn EXCEPT !.state = "open"]]
    /\ jobs' = [jobs EXCEPT ![t] = IF Paired(turn) THEN JobFor(turn, @) ELSE @]
    /\ UNCHANGED <<lane, written>>

CaptureUser(t) ==
    /\ ~turns[t].user
    /\ Store(t, [turns[t] EXCEPT !.user = TRUE])

Superseded(t, g) == g < turns[t].active

CaptureStop(t, g) ==
    /\ g \notin turns[t].stops
    /\ ~Superseded(t, g)
    /\ Store(t, [turns[t] EXCEPT !.stops = @ \cup {g}, !.active = g])

\* A Stop of an earlier generation that arrives late is recorded as an event
\* and does not touch the turn.
CaptureLate(t, g) ==
    /\ g \notin turns[t].stops
    /\ Superseded(t, g)
    /\ turns' = [turns EXCEPT ![t].stops = @ \cup {g}]
    /\ UNCHANGED <<jobs, lane, written>>

-----------------------------------------------------------------------------
(* The queue.                                                              *)

\* A pending job's available_at, or a processing job's lease, runs out.
Elapse(t) ==
    /\ jobs[t].status \in {"pending", "processing"}
    /\ ~jobs[t].due
    /\ jobs' = [jobs EXCEPT ![t].due = TRUE]
    /\ UNCHANGED <<turns, lane, written>>

Exhausted(t) ==
    jobs[t].status = "processing" /\ jobs[t].due /\ jobs[t].attempts >= MaxAttempts

\* mutation: the claim forgets the jobs whose lease ran out
ClaimablePending(t) ==
    jobs[t].status = "pending" /\ jobs[t].due /\ jobs[t].attempts < MaxAttempts

\* mutation: the claim looks at the attempts only
ClaimableAny(t) == jobs[t].status # "none" /\ jobs[t].attempts < MaxAttempts

Claimable(t) ==
    /\ jobs[t].status \in {"pending", "processing"}
    /\ jobs[t].due
    /\ jobs[t].attempts < MaxAttempts

Snapshot(t) == [turn |-> t, gen |-> jobs[t].gen, attempt |-> jobs[t].attempts + 1]

Claimed(job, host) ==
    [job EXCEPT !.status = "processing", !.attempts = @ + 1, !.by = host,
                !.due = FALSE]

Quarantined(job) == [job EXCEPT !.status = "quarantined", !.by = 0, !.due = FALSE]

\* The rows a claim takes: the whole of a small backlog, else BatchLimit of it.
Takes(S) ==
    /\ S \subseteq {t \in Turns : Claimable(t)}
    /\ Cardinality(S) <= BatchLimit
    /\ Cardinality(S) < BatchLimit => S = {t \in Turns : Claimable(t)}

\* One run of the lane: first the jobs that lost their last lease are
\* quarantined, then the due ones of S are claimed, in one transaction.
ClaimRows(S) ==
    /\ jobs' = [t \in Turns |->
                  IF Exhausted(t) THEN Quarantined(jobs[t])
                  ELSE IF t \in S THEN Claimed(jobs[t], lane.host)
                  ELSE jobs[t]]
    /\ turns' = [t \in Turns |->
                   IF Exhausted(t) THEN [turns[t] EXCEPT !.state = "quarantined"]
                   ELSE IF t \in S THEN [turns[t] EXCEPT !.state = "ready"]
                   ELSE turns[t]]
    /\ failed' = failed \cup
         {[turn |-> t, gen |-> jobs[t].gen, attempt |-> jobs[t].attempts,
           code |-> "lease_retry_exhausted"] : t \in {u \in Turns : Exhausted(u)}}
    /\ lane' = [lane EXCEPT !.step = "next", !.batch = {Snapshot(t) : t \in S}]
    /\ UNCHANGED <<rescoped, admitted, audited, decided>>

ClaimJobs ==
    /\ lane.step = "idle"
    /\ \E S \in SUBSET Turns :
         /\ Takes(S)
         /\ S # {} \/ \E t \in Turns : Exhausted(t)
         /\ ClaimRows(S)

-----------------------------------------------------------------------------
(* The lane works on one job of its batch after the other.                 *)

NextJob ==
    /\ lane.step = "next"
    /\ \E c \in lane.batch :
         lane' = [lane EXCEPT !.step = "extract", !.batch = @ \ {c}, !.job = c]
    /\ UNCHANGED <<turns, jobs, written>>

EndRun ==
    /\ lane.step = "next"
    /\ lane.batch = {}
    /\ lane' = Idle(lane.host)
    /\ UNCHANGED <<turns, jobs, written>>

\* The lane's catch clause takes over; what process had in hand is gone.
GiveUp == lane' = [lane EXCEPT !.step = "fail", !.work = NoWork]

Done == lane' = [lane EXCEPT !.step = "next", !.job = NoClaim, !.work = NoWork]

\* The provider answers the redacted turn with any proposals; the policy
\* refuses some of them.
Extract ==
    /\ lane.step = "extract"
    /\ \E found \in SUBSET Proposals : \E refused \in SUBSET found :
         lane' = [lane EXCEPT !.step = "propose",
                              !.work = [NoWork EXCEPT !.todo = found \ refused,
                                                      !.refused = refused]]
    /\ UNCHANGED <<turns, jobs, written>>

Mine(r) == r.turn = lane.job.turn /\ r.gen = lane.job.gen

\* What this attempt writes: the clock reading makes it different from what
\* another attempt writes under the same key.
Mark == [turn |-> lane.job.turn, gen |-> lane.job.gen, attempt |-> lane.job.attempt]
MarkOf(p) == [turn |-> lane.job.turn, gen |-> lane.job.gen,
              attempt |-> lane.job.attempt, proposal |-> p]

\* prepareEvidence copies the cited evidence to another target scope.  The
\* idempotency key names the job and the generation only: a second copy is
\* a replay if it falls into the same millisecond and cites the same
\* evidence, and a conflict otherwise.
Rescope(p) ==
    /\ lane.step = "propose"
    /\ p \in (lane.work.todo \cap Rescoped) \ lane.work.moved
    /\ \/ /\ ~\E r \in rescoped : Mine(r) /\ r # Mark
          /\ rescoped' = rescoped \cup {Mark}
          /\ lane' = [lane EXCEPT !.work.moved = @ \cup {p}]
       \/ /\ \E r \in rescoped : Mine(r)
          /\ GiveUp
          /\ UNCHANGED rescoped
    /\ UNCHANGED <<turns, jobs, admitted, audited, decided, failed>>

\* mutation: the idempotency key is not looked up
HasNoAdmission(p) == FALSE

HasAdmission(p) == \E a \in admitted : Mine(a) /\ a.proposal = p

\* memory_propose under the key of job, generation and proposal.  The request
\* carries the attempt's time, so a second attempt's request is another
\* request under a used key: CONFLICT.
Propose(p) ==
    /\ lane.step = "propose"
    /\ p \in lane.work.todo
    /\ p \in Rescoped => p \in lane.work.moved
    /\ IF HasAdmission(p)
         THEN GiveUp /\ UNCHANGED admitted
         ELSE /\ admitted' = admitted \cup {MarkOf(p)}
              /\ lane' = [lane EXCEPT !.work.todo = @ \ {p},
                                      !.work.kept = @ \cup {p}]
    /\ UNCHANGED <<turns, jobs, rescoped, audited, decided, failed>>

Current == /\ jobs[lane.job.turn].gen = lane.job.gen
           /\ jobs[lane.job.turn].attempts = lane.job.attempt
           /\ jobs[lane.job.turn].status \in {"processing", "completed"}

Decision(p, linked) ==
    [turn |-> lane.job.turn, gen |-> lane.job.gen, attempt |-> lane.job.attempt,
     proposal |-> p, linked |-> linked]

AlreadyDecided(p) == \E d \in decided : Mine(d) /\ d.proposal = p

\* recordFormationAudit: the attempt, a decision per proposal and a link per
\* admission, or nothing.
Audit ==
    /\ lane.step = "propose"
    /\ lane.work.todo = {}
    /\ IF Current /\ ~\E p \in lane.work.kept \cup lane.work.refused : AlreadyDecided(p)
         THEN /\ audited' = audited \cup {Mark}
              /\ decided' = decided
                   \cup {Decision(p, TRUE) : p \in lane.work.kept}
                   \cup {Decision(p, FALSE) : p \in lane.work.refused}
              /\ lane' = [lane EXCEPT !.step = "complete", !.work = NoWork]
         ELSE GiveUp /\ UNCHANGED <<audited, decided>>
    /\ UNCHANGED <<turns, jobs, rescoped, admitted, failed>>

\* What complete and fail check.  Neither looks at the lease.
Holds == /\ jobs[lane.job.turn].status = "processing"
         /\ jobs[lane.job.turn].gen = lane.job.gen
         /\ jobs[lane.job.turn].by = lane.host

Complete ==
    /\ lane.step = "complete"
    /\ IF Holds
         THEN /\ jobs' = [jobs EXCEPT ![lane.job.turn] =
                            [@ EXCEPT !.status = "completed", !.by = 0, !.due = FALSE,
                                      !.result = lane.job.attempt]]
              /\ turns' = [turns EXCEPT ![lane.job.turn].state = "completed"]
              /\ Done
         ELSE GiveUp /\ UNCHANGED <<turns, jobs>>
    /\ UNCHANGED written

\* A call that fails before it takes effect: the provider is unreachable or
\* answers nonsense, or the store refuses admission.
CallFails ==
    /\ Faults
    /\ lane.step \in {"extract", "propose", "complete"}
    /\ GiveUp
    /\ UNCHANGED <<turns, jobs, written>>

Retried(job) ==
    IF job.attempts >= MaxAttempts THEN Quarantined(job)
    ELSE [job EXCEPT !.status = "pending", !.by = 0, !.due = FALSE]

Fail ==
    /\ lane.step = "fail"
    /\ Holds
    /\ jobs' = [jobs EXCEPT ![lane.job.turn] = Retried(@)]
    /\ turns' = [turns EXCEPT ![lane.job.turn].state =
                   IF jobs[lane.job.turn].attempts >= MaxAttempts
                     THEN "quarantined" ELSE @]
    /\ failed' = failed \cup
         {[turn |-> lane.job.turn, gen |-> lane.job.gen,
           attempt |-> jobs[lane.job.turn].attempts, code |-> "formation_failed"]}
    /\ Done
    /\ UNCHANGED <<rescoped, admitted, audited, decided>>

\* The failure itself is refused, or fails: the exception leaves the lane and
\* the rest of the batch stays processing until its lease runs out.
Escape ==
    /\ lane.step = "fail"
    /\ Faults \/ ~Holds
    /\ lane' = Idle(lane.host)
    /\ UNCHANGED <<turns, jobs, written>>

\* The host dies and another one opens the data root.
Restart ==
    /\ lane.host <= MaxCrashes
    /\ lane' = Idle(lane.host + 1)
    /\ UNCHANGED <<turns, jobs, written>>

-----------------------------------------------------------------------------
Capture == \E t \in Turns :
             CaptureUser(t) \/ \E g \in Generations : CaptureStop(t, g) \/ CaptureLate(t, g)

LaneStep == ClaimJobs \/ NextJob \/ EndRun \/ Extract \/ Audit \/ Complete
            \/ Fail \/ Escape \/ \E p \in Proposals : Rescope(p) \/ Propose(p)

FNext == Capture \/ LaneStep \/ CallFails \/ Restart \/ \E t \in Turns : Elapse(t)

FSpec == FInit /\ [][FNext]_vars

\* The supervisor keeps running the lane and time passes.
FLive == FSpec /\ WF_vars(LaneStep) /\ \A t \in Turns : WF_vars(Elapse(t))

-----------------------------------------------------------------------------
Job == [status : {"none", "pending", "processing", "completed", "quarantined"},
        gen : 0 .. MaxGeneration, attempts : 0 .. MaxAttempts,
        by : {0} \cup Hosts, due : BOOLEAN, result : 0 .. MaxAttempts]
Turn == [user : BOOLEAN, stops : SUBSET Generations, active : 0 .. MaxGeneration,
         state : {"none", "open", "stabilizing", "ready", "completed", "quarantined"}]
Work == [todo : SUBSET Proposals, moved : SUBSET Proposals,
         kept : SUBSET Proposals, refused : SUBSET Proposals]
Written == [turn : Turns, gen : Generations, attempt : Attempts]
WrittenOf == [turn : Turns, gen : Generations, attempt : Attempts,
              proposal : Proposals]

\* Type invariant.
TypeOK ==
    /\ turns \in [Turns -> Turn]
    /\ jobs \in [Turns -> Job]
    /\ lane \in [host : Hosts,
                 step : {"idle", "next", "extract", "propose", "complete", "fail"},
                 batch : SUBSET Claim, job : Claim \cup {NoClaim}, work : Work]
    /\ lane.step \in {"extract", "propose", "complete", "fail"} => lane.job \in Claim
    /\ rescoped \subseteq Written
    /\ admitted \subseteq WrittenOf
    /\ audited \subseteq Written
    /\ decided \subseteq [turn : Turns, gen : Generations, attempt : Attempts,
                         proposal : Proposals, linked : BOOLEAN]
    /\ failed \subseteq [turn : Turns, gen : Generations, attempt : 0 .. MaxAttempts,
                        code : {"formation_failed", "lease_retry_exhausted"}]

\* The two tables stay in step although three transactions of different
\* callers write them: a turn has a job exactly when it is paired, the job is
\* of the turn's active generation, and the turn's state tells the job's.
JobFollowsTurn ==
    \A t \in Turns :
       /\ (jobs[t].status # "none") <=> Paired(turns[t])
       /\ jobs[t].status # "none" => jobs[t].gen = turns[t].active
       /\ \A end \in {"completed", "quarantined"} :
             turns[t].state = end <=> jobs[t].status = end
       /\ turns[t].state = "stabilizing" =>
             jobs[t].status = "pending" /\ jobs[t].attempts = 0

\* A job is completed with the result of its latest attempt at its current
\* generation, the attempt is audited, none of its failures is on record, and
\* what the attempt linked was admitted by that attempt - although neither the
\* audit nor the completion looks at the lease, and completion does not look
\* at the attempt.
CompletedByLatestAttempt ==
    \A t \in Turns : jobs[t].status = "completed" =>
       LET mark == [turn |-> t, gen |-> jobs[t].gen, attempt |-> jobs[t].attempts] IN
       /\ jobs[t].result = jobs[t].attempts
       /\ mark \in audited
       /\ \A f \in failed : ~(f.turn = t /\ f.gen = mark.gen /\ f.attempt = mark.attempt)

\* A link of a policy decision to a memory names a memory that the same
\* attempt admitted, and no proposal of a generation is admitted or decided
\* twice, however often the job is retried.
LinksNameAdmissions ==
    /\ \A d \in decided : d.linked =>
          [turn |-> d.turn, gen |-> d.gen, attempt |-> d.attempt,
           proposal |-> d.proposal] \in admitted
    /\ \A a, b \in admitted :
          a.turn = b.turn /\ a.gen = b.gen /\ a.proposal = b.proposal => a = b
    /\ \A d, e \in decided :
          d.turn = e.turn /\ d.gen = e.gen /\ d.proposal = e.proposal => d = e

\* Turn, job, audit, failures, decisions and admissions tell one story of
\* each generation.
JobsSound == TypeOK /\ JobFollowsTurn /\ CompletedByLatestAttempt /\ LinksNameAdmissions

\* A job leaves the completed and the quarantined state only for a later
\* generation of its turn.
SettledForGood ==
    [][\A t \in Turns :
         jobs[t].status \in {"completed", "quarantined"}
           /\ jobs'[t] # jobs[t] => jobs'[t].gen > jobs[t].gen]_vars

\* Every paired turn is settled in the end: its job is completed or
\* quarantined, through restarts, lost leases and escaping exceptions.
PairsSettle ==
    \A t \in Turns : Paired(turns[t]) ~> jobs[t].status \in {"completed", "quarantined"}

-----------------------------------------------------------------------------
(* What the plan of the feature says and the code does not do.             *)

\* "Interrupted jobs recover with bounded retry": an interruption alone, one
\* restart of the host with provider and store in order, quarantines no job.
InterruptedJobsRecover == \A t \in Turns : jobs[t].status # "quarantined"
=============================================================================
