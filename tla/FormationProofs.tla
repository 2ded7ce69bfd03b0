-------------------------- MODULE FormationProofs --------------------------
(***************************************************************************)
(* What FormationJobs guarantees for every set of turns and proposals and  *)
(* every bound on generations, attempts, batches and restarts.             *)
(*                                                                         *)
(* No transaction of the queue looks at the lease after the claim, and the *)
(* completion does not look at the attempt.  What makes it sound is what   *)
(* the invariant adds: a claim in the lane's hands either is of an older   *)
(* generation than its job, or the job is still processing that attempt    *)
(* for this host (LaneHolds).                                              *)
(***************************************************************************)
EXTENDS FormationJobs, TLAPS

Working == {"extract", "propose", "complete", "fail"}
Held == lane.batch \cup (IF lane.step \in Working THEN {lane.job} ELSE {})

(* The stop generation a turn counts as active is one it has captured, and *)
(* a job that does not exist has no generation.                            *)
Captured(turn) ==
  IF turn.stops = {} THEN turn.active = 0 ELSE turn.active \in turn.stops
ActiveIsCaptured ==
  \A t \in Turns :
    /\ Captured(turns[t])
    /\ jobs[t].status = "none" => jobs[t].gen = 0

(* The claims of one run are of different turns, and each still stands for *)
(* its job unless a later generation took the job.                         *)
LaneHolds ==
  /\ lane.step = "idle" => lane.batch = {}
  /\ lane.step \in Working => lane.job \notin lane.batch
  /\ \A c, d \in Held : c.turn = d.turn => c = d
  /\ \A c \in Held :
       /\ c.gen <= jobs[c.turn].gen
       /\ c.gen = jobs[c.turn].gen =>
            /\ jobs[c.turn].status = "processing"
            /\ jobs[c.turn].attempts = c.attempt
            /\ jobs[c.turn].by = lane.host

(* What the lane did for the job in hand so far.                           *)
WorkIsKept ==
  /\ lane.step = "propose" =>
       /\ lane.work.refused \cap (lane.work.todo \cup lane.work.kept) = {}
       /\ \A p \in lane.work.kept : MarkOf(p) \in admitted
  /\ lane.step = "complete" => Mark \in audited

(* A failure on record is of an attempt that is over.                      *)
FailuresAreOver ==
  \A f \in failed :
    /\ f.gen <= jobs[f.turn].gen
    /\ f.gen = jobs[f.turn].gen =>
         \/ f.attempt < jobs[f.turn].attempts
         \/ /\ f.attempt = jobs[f.turn].attempts
            /\ jobs[f.turn].status \in {"pending", "quarantined"}

FInv ==
  /\ JobsSound /\ ActiveIsCaptured /\ LaneHolds /\ WorkIsKept /\ FailuresAreOver

-----------------------------------------------------------------------------
(* Operators *)

LEMMA JobUpdate ==
  ASSUME NEW r \in Job, NEW h \in Hosts
  PROVE  /\ r.attempts < MaxAttempts => Claimed(r, h) \in Job
         /\ Quarantined(r) \in Job
         /\ Retried(r) \in Job
<1>2. ASSUME r.attempts < MaxAttempts PROVE Claimed(r, h) \in Job
  <2>1. r.attempts + 1 \in 0 .. MaxAttempts
    BY <1>2, BoundsAssumption DEF Job
  <2>. QED BY <2>1 DEF Job, Claimed
<1>3. Quarantined(r) \in Job
  BY DEF Job, Quarantined
<1>4. [r EXCEPT !.status = "pending", !.by = 0, !.due = FALSE] \in Job
  BY DEF Job
<1>. QED BY <1>2, <1>3, <1>4 DEF Retried

LEMMA JobForType ==
  ASSUME NEW r \in Job, NEW turn \in Turn
  PROVE  JobFor(turn, r) \in Job
<1>1. NoJob \in Job
  BY BoundsAssumption DEF Job, NoJob
<1>2. turn.active \in 0 .. MaxGeneration
  BY DEF Turn
<1>3. [NoJob EXCEPT !.status = "pending", !.gen = turn.active] \in Job
  BY <1>1, <1>2 DEF Job
<1>. QED BY <1>3 DEF JobFor

LEMMA StopType ==
  ASSUME NEW turn \in Turn, NEW g \in Generations
  PROVE  [turn EXCEPT !.stops = @ \cup {g}, !.active = g] \in Turn
<1>1. g \in 0 .. MaxGeneration /\ turn.stops \cup {g} \subseteq Generations
  BY BoundsAssumption DEF Turn, Generations
<1>. QED BY <1>1 DEF Turn

LEMMA JobTick == \A r \in Job : [r EXCEPT !.due = TRUE] \in Job
BY DEF Job

LEMMA HostsExist == 1 \in Hosts
BY BoundsAssumption DEF Hosts

LEMMA IdleType ==
  ASSUME NEW h
  PROVE  /\ Idle(h).step = "idle" /\ Idle(h).batch = {} /\ Idle(h).host = h
         /\ Idle(h).job = NoClaim /\ Idle(h).work = NoWork
BY DEF Idle

-----------------------------------------------------------------------------
(* Types *)

Lane == [host : Hosts,
         step : {"idle", "next", "extract", "propose", "complete", "fail"},
         batch : SUBSET Claim, job : Claim \cup {NoClaim}, work : Work]

LEMMA TypeInit == FInit => TypeOK
BY BoundsAssumption
   DEF FInit, TypeOK, Turn, Job, NoJob, Idle, NoWork, Work, Hosts

(* A claim is a turn's job at a generation the turn has.                   *)
LEMMA SnapshotType ==
  ASSUME TypeOK, JobFollowsTurn, ActiveIsCaptured,
         NEW t \in Turns, jobs[t].status # "none"
  PROVE  /\ jobs[t].gen \in Generations
         /\ jobs[t].attempts < MaxAttempts => Snapshot(t) \in Claim
<1>1. turns[t].stops # {} /\ jobs[t].gen = turns[t].active
  BY DEF JobFollowsTurn, Paired
<1>2. turns[t].active \in turns[t].stops /\ turns[t].stops \subseteq Generations
  BY <1>1 DEF ActiveIsCaptured, Captured, TypeOK, Turn
<1>3. jobs[t].attempts \in 0 .. MaxAttempts
  BY DEF TypeOK, Job
<1>. QED BY <1>1, <1>2, <1>3, BoundsAssumption DEF Snapshot, Claim, Attempts

LEMMA TurnUpdate ==
  ASSUME NEW r \in Turn
  PROVE  /\ [r EXCEPT !.user = TRUE] \in Turn
         /\ \A s \in {"none", "open", "stabilizing", "ready", "completed", "quarantined"} :
              [r EXCEPT !.state = s] \in Turn
         /\ \A g \in Generations : [r EXCEPT !.stops = @ \cup {g}] \in Turn
BY DEF Turn

LEMMA LaneUpdate ==
  ASSUME NEW l \in Lane, NEW w \in Work,
         NEW s \in {"idle", "next", "extract", "propose", "complete", "fail"}
  PROVE  /\ [l EXCEPT !.step = s] \in Lane
         /\ [l EXCEPT !.step = s, !.work = w] \in Lane
         /\ [l EXCEPT !.work = w] \in Lane
         /\ [l EXCEPT !.step = s, !.job = NoClaim, !.work = w] \in Lane
         /\ \A B \in SUBSET Claim : [l EXCEPT !.step = s, !.batch = B] \in Lane
         /\ \A B \in SUBSET Claim, c \in Claim :
               [l EXCEPT !.step = s, !.batch = B, !.job = c] \in Lane
<1>1. NoClaim \in Claim \cup {NoClaim}
  OBVIOUS
<1>. QED BY <1>1 DEF Lane

LEMMA WorkType ==
  /\ NoWork \in Work
  /\ \A found \in SUBSET Proposals, refused \in SUBSET Proposals :
       [NoWork EXCEPT !.todo = found \ refused, !.refused = refused] \in Work
  /\ \A w \in Work, p \in Proposals :
       /\ [w EXCEPT !.moved = @ \cup {p}] \in Work
       /\ [w EXCEPT !.todo = @ \ {p}, !.kept = @ \cup {p}] \in Work
<1>1. NoWork \in Work
  BY DEF Work, NoWork
<1>2. ASSUME NEW found \in SUBSET Proposals, NEW refused \in SUBSET Proposals
      PROVE  [NoWork EXCEPT !.todo = found \ refused, !.refused = refused] \in Work
  BY <1>1, <1>2 DEF Work
<1>3. ASSUME NEW w \in Work, NEW p \in Proposals
      PROVE  /\ [w EXCEPT !.moved = @ \cup {p}] \in Work
             /\ [w EXCEPT !.todo = @ \ {p}, !.kept = @ \cup {p}] \in Work
  BY <1>3 DEF Work
<1>. QED BY <1>1, <1>2, <1>3

IdleLane == \A h \in Hosts : Idle(h) \in Lane
LEMMA IdleIsLane == IdleLane
BY WorkType DEF IdleLane, Idle, Lane

(* The types of the two tables and of the lane, apart from the records.    *)
TablesOK == /\ turns \in [Turns -> Turn]
            /\ jobs \in [Turns -> Job]
LaneOK == /\ lane \in Lane
          /\ lane.step \in Working => lane.job \in Claim
RecordsOK ==
  /\ rescoped \subseteq Written
  /\ admitted \subseteq WrittenOf
  /\ audited \subseteq Written
  /\ decided \subseteq [turn : Turns, gen : Generations, attempt : Attempts,
                       proposal : Proposals, linked : BOOLEAN]
  /\ failed \subseteq [turn : Turns, gen : Generations, attempt : 0 .. MaxAttempts,
                      code : {"formation_failed", "lease_retry_exhausted"}]

LEMMA TypeParts == TypeOK <=> TablesOK /\ LaneOK /\ RecordsOK
BY DEF TypeOK, TablesOK, LaneOK, RecordsOK, Lane, Working

LEMMA TypePartsNext == TablesOK' /\ LaneOK' /\ RecordsOK' => TypeOK'
BY DEF TypeOK, TablesOK, LaneOK, RecordsOK, Lane, Working

(* The tables.                                                             *)
LEMMA StoreType ==
  ASSUME TablesOK, NEW t \in Turns, NEW turn \in Turn, Store(t, turn)
  PROVE  TablesOK'
<1>1. turns' \in [Turns -> Turn]
  BY TurnUpdate DEF TablesOK, Store
<1>2. jobs' \in [Turns -> Job]
  BY JobForType DEF TablesOK, Store
<1>. QED BY <1>1, <1>2 DEF TablesOK

LEMMA TablesStep ==
  ASSUME TypeOK, [FNext]_vars
  PROVE  TablesOK'
<1>0. TablesOK /\ LaneOK
  BY TypeParts
<1>1. ASSUME NEW t \in Turns, CaptureUser(t) PROVE TablesOK'
  BY <1>0, <1>1, TurnUpdate, StoreType DEF CaptureUser, TablesOK
<1>2. ASSUME NEW t \in Turns, NEW g \in Generations, CaptureStop(t, g) PROVE TablesOK'
  BY <1>0, <1>2, StopType, StoreType DEF CaptureStop, TablesOK
<1>3. ASSUME NEW t \in Turns, NEW g \in Generations, CaptureLate(t, g) PROVE TablesOK'
  BY <1>0, <1>3, TurnUpdate DEF TablesOK, CaptureLate
<1>4. ASSUME NEW t \in Turns, Elapse(t) PROVE TablesOK'
  BY <1>0, <1>4, JobTick DEF TablesOK, Elapse
<1>5. CASE ClaimJobs
  <2>1. PICK S \in SUBSET Turns : Takes(S) /\ ClaimRows(S)
    BY <1>5 DEF ClaimJobs
  <2>2. \A t \in S : jobs[t].attempts < MaxAttempts
    BY <2>1 DEF Takes, Claimable
  <2>3. lane.host \in Hosts
    BY <1>0 DEF LaneOK, Lane
  <2>4. ASSUME NEW t \in Turns PROVE jobs'[t] \in Job
    BY <1>0, <2>1, <2>2, <2>3, JobUpdate DEF TablesOK, ClaimRows
  <2>5. ASSUME NEW t \in Turns PROVE turns'[t] \in Turn
    BY <1>0, <2>1, TurnUpdate DEF TablesOK, ClaimRows
  <2>. QED BY <2>1, <2>4, <2>5 DEF TablesOK, ClaimRows
<1>6. CASE Complete
  <2>1. lane.job.turn \in Turns /\ lane.job.attempt \in 0 .. MaxAttempts
    BY <1>0, <1>6, BoundsAssumption DEF LaneOK, Working, Complete, Claim, Attempts
  <2>2. ASSUME NEW r \in Job
        PROVE  [r EXCEPT !.status = "completed", !.by = 0, !.due = FALSE,
                         !.result = lane.job.attempt] \in Job
    BY <2>1 DEF Job
  <2>3. CASE Holds
    <3>1. /\ jobs' = [jobs EXCEPT ![lane.job.turn] =
               [jobs[lane.job.turn] EXCEPT !.status = "completed", !.by = 0, !.due = FALSE,
                                           !.result = lane.job.attempt]]
          /\ turns' = [turns EXCEPT ![lane.job.turn] =
               [turns[lane.job.turn] EXCEPT !.state = "completed"]]
      BY <1>6, <2>3 DEF Complete
    <3>2. [jobs[lane.job.turn] EXCEPT !.status = "completed", !.by = 0, !.due = FALSE,
                                      !.result = lane.job.attempt] \in Job
      BY <1>0, <2>1, <2>2 DEF TablesOK
    <3>3. [turns[lane.job.turn] EXCEPT !.state = "completed"] \in Turn
      BY <1>0, <2>1, TurnUpdate DEF TablesOK
    <3>. QED BY <1>0, <3>1, <3>2, <3>3 DEF TablesOK
  <2>4. CASE ~Holds
    BY <1>0, <1>6, <2>4 DEF TablesOK, Complete
  <2>. QED BY <2>3, <2>4
<1>7. CASE Fail
  <2>1. lane.job.turn \in Turns
    BY <1>0, <1>7 DEF LaneOK, Working, Fail, Claim
  <2>2. \A r \in Job : Retried(r) \in Job
    BY HostsExist, JobUpdate
  <2>3. turns[lane.job.turn].state \in
          {"none", "open", "stabilizing", "ready", "completed", "quarantined"}
    BY <1>0, <2>1 DEF TablesOK, Turn
  <2>. QED BY <1>0, <1>7, <2>1, <2>2, <2>3, TurnUpdate DEF TablesOK, Fail
<1>8. CASE UNCHANGED <<turns, jobs>>
  BY <1>0, <1>8 DEF TablesOK
<1>. QED
  BY <1>1, <1>2, <1>3, <1>4, <1>5, <1>6, <1>7, <1>8
  DEF FNext, Capture, LaneStep, NextJob, EndRun, Extract, Audit, Escape, Rescope,
      Propose, CallFails, Restart, vars

(* The lane.                                                               *)
LEMMA LaneTypeStep ==
  ASSUME TypeOK, JobFollowsTurn, ActiveIsCaptured, [FNext]_vars
  PROVE  LaneOK'
<1>0. LaneOK
  BY TypeParts
<1>. USE <1>0 DEF LaneOK, Working
<1>1. CASE ClaimJobs
  <2>1. PICK S \in SUBSET Turns : Takes(S) /\ ClaimRows(S)
    BY <1>1 DEF ClaimJobs
  <2>2. {Snapshot(t) : t \in S} \in SUBSET Claim
    BY <2>1, SnapshotType DEF Takes, Claimable
  <2>3. lane' = [lane EXCEPT !.step = "next", !.batch = {Snapshot(t) : t \in S}]
    BY <2>1 DEF ClaimRows
  <2>4. lane'.step = "next"
    BY <2>3 DEF Lane
  <2>5. lane.work \in Work
    BY DEF Lane
  <2>. QED BY <2>2, <2>3, <2>4, <2>5, LaneUpdate
<1>2. CASE NextJob
  <2>1. PICK c \in lane.batch :
          lane' = [lane EXCEPT !.step = "extract", !.batch = @ \ {c}, !.job = c]
    BY <1>2 DEF NextJob
  <2>2. lane.batch \ {c} \in SUBSET Claim /\ c \in Claim /\ lane.work \in Work
    BY DEF Lane
  <2>3. lane'.job = c
    BY <2>1 DEF Lane
  <2>. QED BY <2>1, <2>2, <2>3, LaneUpdate
<1>3. ASSUME NEW h \in Hosts, lane' = Idle(h) PROVE LaneOK'
  BY <1>3, IdleIsLane, IdleType DEF IdleLane
<1>4. lane.host \in Hosts
  BY DEF Lane
<1>5. CASE EndRun \/ Escape \/ Restart
  <2>1. lane.host <= MaxCrashes => lane.host + 1 \in Hosts
    BY <1>4, BoundsAssumption DEF Hosts
  <2>. QED BY <1>3, <1>4, <1>5, <2>1 DEF EndRun, Escape, Restart
<1>6. CASE Extract
  <2>1. PICK found \in SUBSET Proposals, refused \in SUBSET Proposals :
          lane' = [lane EXCEPT !.step = "propose",
                               !.work = [NoWork EXCEPT !.todo = found \ refused,
                                                       !.refused = refused]]
    BY <1>6 DEF Extract
  <2>2. lane'.job = lane.job /\ lane.step = "extract"
    BY <1>6, <2>1 DEF Lane, Extract
  <2>. QED BY <2>1, <2>2, LaneUpdate, WorkType
(* Steps on the job in hand.                                               *)
<1>7. ASSUME lane.step \in Working, GiveUp PROVE LaneOK'
  <2>1. lane' \in Lane
    BY <1>7, LaneUpdate, WorkType DEF GiveUp
  <2>2. lane'.job = lane.job
    BY <1>7 DEF GiveUp, Lane
  <2>. QED BY <1>7, <2>1, <2>2
<1>8. ASSUME Done PROVE LaneOK'
  <2>1. lane' \in Lane
    BY <1>8, LaneUpdate, WorkType DEF Done
  <2>2. lane'.step = "next"
    BY <1>8 DEF Done, Lane
  <2>. QED BY <2>1, <2>2
<1>9. CASE Audit
  <2>1. CASE lane' = [lane EXCEPT !.step = "complete", !.work = NoWork]
    <3>1. lane'.job = lane.job /\ lane.step \in Working
      BY <1>9, <2>1 DEF Lane, Audit
    <3>. QED BY <2>1, <3>1, LaneUpdate, WorkType
  <2>. QED BY <1>7, <1>9, <2>1 DEF Audit
<1>10. CASE Complete \/ Fail \/ CallFails
  BY <1>7, <1>8, <1>10 DEF Complete, Fail, CallFails
<1>11. ASSUME NEW p \in Proposals, Rescope(p) PROVE LaneOK'
  <2>1. CASE lane' = [lane EXCEPT !.work.moved = @ \cup {p}]
    <3>1. lane.work \in Work
      BY DEF Lane
    <3>2. lane' = [lane EXCEPT !.work = [lane.work EXCEPT !.moved = @ \cup {p}]]
      BY <2>1
    <3>3. lane'.job = lane.job /\ lane'.step = lane.step
      BY <3>2 DEF Lane
    <3>. QED BY <3>1, <3>2, <3>3, LaneUpdate, WorkType
  <2>. QED BY <1>7, <1>11, <2>1 DEF Rescope
<1>12. ASSUME NEW p \in Proposals, Propose(p) PROVE LaneOK'
  <2>1. CASE lane' = [lane EXCEPT !.work.todo = @ \ {p}, !.work.kept = @ \cup {p}]
    <3>1. lane.work \in Work
      BY DEF Lane
    <3>2. lane' = [lane EXCEPT !.work = [lane.work EXCEPT !.todo = @ \ {p},
                                                         !.kept = @ \cup {p}]]
      BY <2>1, <3>1 DEF Lane, Work
    <3>3. lane'.job = lane.job /\ lane'.step = lane.step
      BY <3>2 DEF Lane
    <3>. QED BY <3>1, <3>2, <3>3, LaneUpdate, WorkType
  <2>. QED BY <1>7, <1>12, <2>1 DEF Propose
<1>13. CASE lane' = lane
  BY <1>13
<1>. QED
  BY <1>1, <1>2, <1>5, <1>6, <1>9, <1>10, <1>11, <1>12, <1>13
  DEF FNext, Capture, CaptureUser, CaptureStop, CaptureLate, Store, Elapse, LaneStep, vars

(* What is written stays written, and what is added has its type.          *)
LEMMA RecordsStep ==
  ASSUME TypeOK, JobFollowsTurn, ActiveIsCaptured, [FNext]_vars
  PROVE  RecordsOK'
<1>0. TablesOK /\ LaneOK /\ RecordsOK
  BY TypeParts
<1>1. ASSUME lane.step \in Working
      PROVE  /\ Mark \in Written
             /\ \A p \in Proposals : MarkOf(p) \in WrittenOf
             /\ \A p \in Proposals, b \in BOOLEAN :
                  Decision(p, b) \in [turn : Turns, gen : Generations, attempt : Attempts,
                                      proposal : Proposals, linked : BOOLEAN]
  BY <1>0, <1>1 DEF LaneOK, Mark, MarkOf, Written, WrittenOf, Decision, Claim
<1>2. CASE Audit
  <2>1. lane.step \in Working
    BY <1>2 DEF Audit, Working
  <2>2. lane.work.kept \subseteq Proposals /\ lane.work.refused \subseteq Proposals
    BY <1>0 DEF LaneOK, Lane, Work
  <2>3. audited' \subseteq Written
    BY <1>0, <1>1, <1>2, <2>1 DEF RecordsOK, Audit
  <2>4. decided' \subseteq [turn : Turns, gen : Generations, attempt : Attempts,
                           proposal : Proposals, linked : BOOLEAN]
    <3>1. \A p \in lane.work.kept \cup lane.work.refused, b \in BOOLEAN :
            Decision(p, b) \in [turn : Turns, gen : Generations, attempt : Attempts,
                                proposal : Proposals, linked : BOOLEAN]
      BY <1>1, <2>1, <2>2
    <3>2. \/ decided' = decided
          \/ decided' = decided \cup {Decision(p, TRUE) : p \in lane.work.kept}
                              \cup {Decision(p, FALSE) : p \in lane.work.refused}
      BY <1>2 DEF Audit
    <3>3. /\ {Decision(p, TRUE) : p \in lane.work.kept}
               \subseteq [turn : Turns, gen : Generations, attempt : Attempts,
                         proposal : Proposals, linked : BOOLEAN]
          /\ {Decision(p, FALSE) : p \in lane.work.refused}
               \subseteq [turn : Turns, gen : Generations, attempt : Attempts,
                         proposal : Proposals, linked : BOOLEAN]
      BY <3>1
    <3>. QED BY <1>0, <3>2, <3>3, Zenon DEF RecordsOK
  <2>. QED BY <1>0, <1>2, <2>3, <2>4 DEF RecordsOK, Audit
<1>3. ASSUME NEW p \in Proposals, Rescope(p) PROVE RecordsOK'
  BY <1>0, <1>1, <1>3 DEF RecordsOK, Rescope, Working
<1>4. ASSUME NEW p \in Proposals, Propose(p) PROVE RecordsOK'
  BY <1>0, <1>1, <1>4 DEF RecordsOK, Propose, Working
<1>5. CASE ClaimJobs
  <2>1. PICK S \in SUBSET Turns : ClaimRows(S)
    BY <1>5 DEF ClaimJobs
  <2>2. ASSUME NEW t \in Turns, Exhausted(t)
        PROVE jobs[t].gen \in Generations /\ jobs[t].attempts \in 0 .. MaxAttempts
    BY <1>0, <2>2, SnapshotType DEF Exhausted, TablesOK, Job
  <2>. QED BY <1>0, <2>1, <2>2 DEF RecordsOK, ClaimRows
<1>6. CASE Fail
  <2>1. lane.job \in Claim /\ lane.job.turn \in Turns
    BY <1>0, <1>6 DEF LaneOK, Working, Fail, Claim
  <2>2. jobs[lane.job.turn].attempts \in 0 .. MaxAttempts
    BY <1>0, <2>1 DEF TablesOK, Job
  <2>. QED BY <1>0, <1>6, <2>1, <2>2 DEF RecordsOK, Fail, Claim
<1>7. CASE UNCHANGED written
  BY <1>0, <1>7 DEF RecordsOK, written
<1>. QED
  BY <1>2, <1>3, <1>4, <1>5, <1>6, <1>7
  DEF FNext, Capture, CaptureUser, CaptureStop, CaptureLate, Store, Elapse, LaneStep,
      NextJob, EndRun, Extract, Complete, Escape, CallFails, Restart, vars, written

LEMMA TypeStep ==
  ASSUME TypeOK, JobFollowsTurn, ActiveIsCaptured, [FNext]_vars
  PROVE  TypeOK'
BY TablesStep, LaneTypeStep, RecordsStep, TypePartsNext

-----------------------------------------------------------------------------
(* The job follows its turn, row by row *)

Follows(job, turn) ==
  /\ (job.status # "none") <=> Paired(turn)
  /\ job.status # "none" => job.gen = turn.active
  /\ \A end \in {"completed", "quarantined"} : turn.state = end <=> job.status = end
  /\ turn.state = "stabilizing" => job.status = "pending" /\ job.attempts = 0

LEMMA FollowsRows == JobFollowsTurn <=> \A t \in Turns : Follows(jobs[t], turns[t])
BY DEF JobFollowsTurn, Follows

LEMMA FollowsRowsNext ==
  (\A t \in Turns : Follows(jobs'[t], turns'[t])) => JobFollowsTurn'
BY DEF JobFollowsTurn, Follows

(* What the queue does to the row of a job and to the state of its turn.   *)
Put(turn, s) == [turn EXCEPT !.state = s]
Ticked(job) == [job EXCEPT !.due = TRUE]
Finished(job, n) == [job EXCEPT !.status = "completed", !.by = 0, !.due = FALSE, !.result = n]

LEMMA PutFields ==
  ASSUME NEW r \in Turn, NEW s
  PROVE  /\ Put(r, s).stops = r.stops /\ Put(r, s).active = r.active
         /\ Put(r, s).user = r.user /\ Put(r, s).state = s
BY DEF Put, Turn

LEMMA JobFields ==
  ASSUME NEW r \in Job
  PROVE  /\ /\ Ticked(r).status = r.status /\ Ticked(r).gen = r.gen
            /\ Ticked(r).attempts = r.attempts /\ Ticked(r).by = r.by
         /\ /\ Quarantined(r).status = "quarantined" /\ Quarantined(r).gen = r.gen
            /\ Quarantined(r).attempts = r.attempts
         /\ /\ Retried(r).status = IF r.attempts >= MaxAttempts THEN "quarantined" ELSE "pending"
            /\ Retried(r).gen = r.gen /\ Retried(r).attempts = r.attempts
         /\ \A h : /\ Claimed(r, h).status = "processing" /\ Claimed(r, h).gen = r.gen
                  /\ Claimed(r, h).attempts = r.attempts + 1 /\ Claimed(r, h).by = h
         /\ \A n : /\ Finished(r, n).status = "completed" /\ Finished(r, n).gen = r.gen
                  /\ Finished(r, n).attempts = r.attempts /\ Finished(r, n).result = n
BY DEF Job, Ticked, Quarantined, Retried, Claimed, Finished

LEMMA FollowsMoves ==
  ASSUME NEW job \in Job, NEW turn \in Turn, Follows(job, turn)
  PROVE  /\ Follows(Ticked(job), turn)
         /\ job.status = "processing" =>
              /\ Follows(Quarantined(job), Put(turn, "quarantined"))
              /\ Follows(Retried(job),
                   Put(turn, IF job.attempts >= MaxAttempts THEN "quarantined" ELSE turn.state))
              /\ \A n : Follows(Finished(job, n), Put(turn, "completed"))
         /\ job.status \in {"pending", "processing"} =>
              \A h : Follows(Claimed(job, h), Put(turn, "ready"))
BY PutFields, JobFields DEF Follows, Paired

(* What each action of the queue does to the rows.                         *)
LEMMA ElapseMove ==
  ASSUME TypeOK, NEW t \in Turns, Elapse(t)
  PROVE  /\ UNCHANGED <<turns, lane, written>>
         /\ jobs[t].status \in {"pending", "processing"} /\ jobs'[t] = Ticked(jobs[t])
         /\ \A u \in Turns : u # t => jobs'[u] = jobs[u]
BY DEF TypeOK, Elapse, Ticked

ClaimMoves(S) ==
  /\ \A t \in S : t \in Turns /\ Claimable(t) /\ ~Exhausted(t)
  /\ \A t \in Turns :
       /\ Exhausted(t) => /\ jobs'[t] = Quarantined(jobs[t])
                          /\ turns'[t] = Put(turns[t], "quarantined")
       /\ t \in S => /\ jobs'[t] = Claimed(jobs[t], lane.host)
                     /\ turns'[t] = Put(turns[t], "ready")
       /\ ~Exhausted(t) /\ t \notin S => jobs'[t] = jobs[t] /\ turns'[t] = turns[t]
  /\ lane'.step = "next" /\ lane'.host = lane.host /\ lane'.batch = {Snapshot(t) : t \in S}
  /\ failed \subseteq failed'
  /\ \A f \in failed' : f \notin failed =>
       /\ Exhausted(f.turn) /\ f.turn \in Turns
       /\ f.gen = jobs[f.turn].gen /\ f.attempt = jobs[f.turn].attempts
  /\ UNCHANGED <<rescoped, admitted, audited, decided>>

LEMMA ClaimMove ==
  ASSUME TypeOK, ClaimJobs
  PROVE  \E S \in SUBSET Turns : ClaimMoves(S)
<1>1. PICK S \in SUBSET Turns : Takes(S) /\ ClaimRows(S)
  BY DEF ClaimJobs
<1>2. ASSUME NEW t \in S PROVE t \in Turns /\ Claimable(t) /\ ~Exhausted(t)
  <2>1. Claimable(t)
    BY <1>1 DEF Takes
  <2>2. jobs[t].attempts \in Nat
    BY BoundsAssumption DEF TypeOK, Job
  <2>. QED BY <2>1, <2>2, BoundsAssumption DEF Claimable, Exhausted
<1>3. ASSUME NEW t \in Turns
      PROVE  /\ Exhausted(t) => /\ jobs'[t] = Quarantined(jobs[t])
                                /\ turns'[t] = Put(turns[t], "quarantined")
             /\ t \in S => /\ jobs'[t] = Claimed(jobs[t], lane.host)
                           /\ turns'[t] = Put(turns[t], "ready")
             /\ ~Exhausted(t) /\ t \notin S => jobs'[t] = jobs[t] /\ turns'[t] = turns[t]
  BY <1>1, <1>2 DEF ClaimRows, Put
<1>4. lane'.step = "next" /\ lane'.host = lane.host /\ lane'.batch = {Snapshot(t) : t \in S}
  BY <1>1 DEF ClaimRows, TypeOK
<1>5. failed' = failed \cup
         {[turn |-> t, gen |-> jobs[t].gen, attempt |-> jobs[t].attempts,
           code |-> "lease_retry_exhausted"] : t \in {u \in Turns : Exhausted(u)}}
  BY <1>1 DEF ClaimRows
<1>6. ASSUME NEW f \in failed', f \notin failed
      PROVE  /\ Exhausted(f.turn) /\ f.turn \in Turns
             /\ f.gen = jobs[f.turn].gen /\ f.attempt = jobs[f.turn].attempts
  <2>1. PICK t \in {u \in Turns : Exhausted(u)} :
          f = [turn |-> t, gen |-> jobs[t].gen, attempt |-> jobs[t].attempts,
               code |-> "lease_retry_exhausted"]
    BY <1>5, <1>6
  <2>. QED BY <2>1
<1>7. UNCHANGED <<rescoped, admitted, audited, decided>>
  BY <1>1 DEF ClaimRows
<1>. QED BY <1>2, <1>3, <1>4, <1>5, <1>6, <1>7 DEF ClaimMoves

LEMMA CompleteMove ==
  ASSUME TypeOK, Complete, Holds
  PROVE  /\ lane.job \in Claim /\ lane.job.turn \in Turns
         /\ jobs[lane.job.turn].status = "processing"
         /\ jobs[lane.job.turn].gen = lane.job.gen
         /\ jobs'[lane.job.turn] = Finished(jobs[lane.job.turn], lane.job.attempt)
         /\ turns'[lane.job.turn] = Put(turns[lane.job.turn], "completed")
         /\ \A u \in Turns : u # lane.job.turn => jobs'[u] = jobs[u] /\ turns'[u] = turns[u]
         /\ Done /\ UNCHANGED written
<1>1. lane.job \in Claim /\ lane.job.turn \in Turns
  BY DEF Complete, TypeOK, Claim
<1>2. /\ jobs' = [jobs EXCEPT ![lane.job.turn] = Finished(jobs[lane.job.turn], lane.job.attempt)]
      /\ turns' = [turns EXCEPT ![lane.job.turn] = Put(turns[lane.job.turn], "completed")]
  BY DEF Complete, Finished, Put
<1>3. jobs \in [Turns -> Job] /\ turns \in [Turns -> Turn]
  BY DEF TypeOK
<1>4. /\ jobs'[lane.job.turn] = Finished(jobs[lane.job.turn], lane.job.attempt)
      /\ turns'[lane.job.turn] = Put(turns[lane.job.turn], "completed")
      /\ \A u \in Turns : u # lane.job.turn => jobs'[u] = jobs[u] /\ turns'[u] = turns[u]
  BY <1>1, <1>2, <1>3
<1>. QED BY <1>1, <1>4 DEF Complete, Holds

LEMMA FailMove ==
  ASSUME TypeOK, Fail
  PROVE  /\ lane.job \in Claim /\ lane.job.turn \in Turns
         /\ jobs[lane.job.turn].status = "processing"
         /\ jobs[lane.job.turn].gen = lane.job.gen
         /\ jobs'[lane.job.turn] = Retried(jobs[lane.job.turn])
         /\ turns'[lane.job.turn] = Put(turns[lane.job.turn],
              IF jobs[lane.job.turn].attempts >= MaxAttempts
                THEN "quarantined" ELSE turns[lane.job.turn].state)
         /\ \A u \in Turns : u # lane.job.turn => jobs'[u] = jobs[u] /\ turns'[u] = turns[u]
         /\ failed' = failed \cup
              {[turn |-> lane.job.turn, gen |-> lane.job.gen,
                attempt |-> jobs[lane.job.turn].attempts, code |-> "formation_failed"]}
         /\ Done /\ UNCHANGED <<rescoped, admitted, audited, decided>>
<1>1. lane.job \in Claim /\ lane.job.turn \in Turns
  BY DEF Fail, TypeOK, Claim
<1>2. /\ jobs' = [jobs EXCEPT ![lane.job.turn] = Retried(jobs[lane.job.turn])]
      /\ turns' = [turns EXCEPT ![lane.job.turn] = Put(turns[lane.job.turn],
           IF jobs[lane.job.turn].attempts >= MaxAttempts
             THEN "quarantined" ELSE turns[lane.job.turn].state)]
  BY DEF Fail, Put
<1>3. jobs \in [Turns -> Job] /\ turns \in [Turns -> Turn]
  BY DEF TypeOK
<1>4. /\ jobs'[lane.job.turn] = Retried(jobs[lane.job.turn])
      /\ turns'[lane.job.turn] = Put(turns[lane.job.turn],
           IF jobs[lane.job.turn].attempts >= MaxAttempts
             THEN "quarantined" ELSE turns[lane.job.turn].state)
      /\ \A u \in Turns : u # lane.job.turn => jobs'[u] = jobs[u] /\ turns'[u] = turns[u]
  BY <1>1, <1>2, <1>3
<1>. QED BY <1>1, <1>4 DEF Fail, Holds

(* A captured half pairs the turn, or is of a later generation.            *)
LEMMA FollowsStore ==
  ASSUME NEW job \in Job, NEW turn \in Turn,
         \/ job.status = "none"
         \/ turn.active > job.gen /\ Paired(turn)
  PROVE  IF Paired(turn)
           THEN Follows(JobFor(turn, job), [turn EXCEPT !.state = "stabilizing"])
           ELSE Follows(job, [turn EXCEPT !.state = "open"])
BY BoundsAssumption DEF Follows, Job, Turn, Paired, JobFor, NoJob

LEMMA StopIsLater ==
  ASSUME NEW r \in Turn, NEW g \in Generations,
         r.active \in r.stops, g \notin r.stops, ~(g < r.active)
  PROVE  g > r.active
BY BoundsAssumption DEF Turn, Generations

(* What a capture stores is a new job, a job of a later generation, or a   *)
(* turn that has no job.                                                   *)
LEMMA StoreCases ==
  ASSUME TypeOK, JobFollowsTurn, ActiveIsCaptured, NEW t \in Turns,
         NEW turn \in Turn,
         \/ CaptureUser(t) /\ turn = [turns[t] EXCEPT !.user = TRUE]
         \/ \E g \in Generations :
              CaptureStop(t, g) /\ turn = [turns[t] EXCEPT !.stops = @ \cup {g}, !.active = g]
  PROVE  /\ Store(t, turn)
         /\ jobs[t].status = "none" \/ (turn.active > jobs[t].gen /\ Paired(turn))
         /\ Captured(turn)
<1>0. turns[t] \in Turn /\ jobs[t] \in Job
  BY DEF TypeOK
<1>1. CASE CaptureUser(t) /\ turn = [turns[t] EXCEPT !.user = TRUE]
  BY <1>0, <1>1 DEF CaptureUser, JobFollowsTurn, Paired, ActiveIsCaptured, Captured, Turn
<1>2. ASSUME NEW g \in Generations, CaptureStop(t, g),
             turn = [turns[t] EXCEPT !.stops = @ \cup {g}, !.active = g]
      PROVE  /\ Store(t, turn)
             /\ jobs[t].status = "none" \/ (turn.active > jobs[t].gen /\ Paired(turn))
             /\ Captured(turn)
  <2>1. Store(t, turn) /\ g \notin turns[t].stops /\ ~(g < turns[t].active)
    BY <1>2 DEF CaptureStop, Superseded
  <2>2. turn.stops = turns[t].stops \cup {g} /\ turn.active = g /\ turn.user = turns[t].user
    BY <1>0, <1>2 DEF Turn
  <2>3. ASSUME jobs[t].status # "none" PROVE turn.active > jobs[t].gen /\ Paired(turn)
    <3>1. /\ Paired(turns[t]) /\ jobs[t].gen = turns[t].active
          /\ turns[t].active \in turns[t].stops
      BY <2>3 DEF JobFollowsTurn, ActiveIsCaptured, Captured, Paired
    <3>2. g > turns[t].active
      BY <1>0, <2>1, <3>1, StopIsLater
    <3>3. Paired(turn)
      BY <2>2, <3>1 DEF Paired
    <3>4. turn.active > jobs[t].gen
      BY <2>2, <3>1, <3>2
    <3>. QED BY <2>1, <3>3, <3>4
  <2>4. Captured(turn)
    BY <2>2 DEF Captured
  <2>. QED BY <2>1, <2>2, <2>3, <2>4
<1>. QED BY <1>1, <1>2

LEMMA FollowStep ==
  ASSUME TypeOK, JobFollowsTurn, ActiveIsCaptured, [FNext]_vars
  PROVE  JobFollowsTurn' /\ ActiveIsCaptured'
<1>1. \A t \in Turns : turns[t] \in Turn /\ jobs[t] \in Job /\ Follows(jobs[t], turns[t])
  BY FollowsRows DEF TypeOK
<1>2. ASSUME NEW t \in Turns, NEW turn \in Turn,
             Store(t, turn), Captured(turn),
             \/ jobs[t].status = "none"
             \/ turn.active > jobs[t].gen /\ Paired(turn)
      PROVE  JobFollowsTurn' /\ ActiveIsCaptured'
  <2>1. Follows(jobs'[t], turns'[t])
    BY <1>1, <1>2, FollowsStore DEF Store, TypeOK
  <2>2. \A u \in Turns : u # t => jobs'[u] = jobs[u] /\ turns'[u] = turns[u]
    BY <1>2 DEF Store, TypeOK
  <2>3. /\ Captured(turns'[t])
        /\ jobs'[t].status = "none" => jobs'[t].gen = 0
    BY <1>1, <1>2 DEF Store, TypeOK, Turn, JobFor, NoJob, ActiveIsCaptured, Captured
  <2>4. JobFollowsTurn'
    <3>1. \A u \in Turns : Follows(jobs'[u], turns'[u])
      BY <1>1, <2>1, <2>2
    <3>. QED BY <3>1, FollowsRowsNext
  <2>. QED BY <2>2, <2>3, <2>4 DEF ActiveIsCaptured
<1>3. ASSUME NEW t \in Turns, CaptureUser(t) PROVE JobFollowsTurn' /\ ActiveIsCaptured'
  <2>1. [turns[t] EXCEPT !.user = TRUE] \in Turn
    BY <1>1 DEF Turn
  <2>. QED BY <1>2, <1>3, <2>1, StoreCases
<1>4. ASSUME NEW t \in Turns, NEW g \in Generations, CaptureStop(t, g)
      PROVE JobFollowsTurn' /\ ActiveIsCaptured'
  <2>1. [turns[t] EXCEPT !.stops = @ \cup {g}, !.active = g] \in Turn
    BY <1>1, StopType
  <2>. QED BY <1>2, <1>4, <2>1, StoreCases
<1>5. ASSUME NEW t \in Turns, NEW g \in Generations, CaptureLate(t, g)
      PROVE JobFollowsTurn' /\ ActiveIsCaptured'
  <2>1. /\ jobs' = jobs /\ turns' = [turns EXCEPT ![t].stops = @ \cup {g}]
        /\ g < turns[t].active
    BY <1>5 DEF CaptureLate, Superseded
  <2>2. turns[t].stops # {} /\ turns[t].active \in turns[t].stops
    BY <1>1, <2>1, BoundsAssumption DEF ActiveIsCaptured, Captured, Generations
  <2>3. \A u \in Turns : u # t => turns'[u] = turns[u]
    BY <2>1 DEF TypeOK
  <2>4. turns'[t] = [turns[t] EXCEPT !.stops = @ \cup {g}]
    BY <2>1 DEF TypeOK
  <2>5. Follows(jobs'[t], turns'[t]) /\ Captured(turns'[t])
    BY <1>1, <2>1, <2>2, <2>4 DEF Follows, Captured, Paired, Turn
  <2>6. \A u \in Turns : Follows(jobs'[u], turns'[u])
    BY <1>1, <2>1, <2>3, <2>5
  <2>. QED BY <2>1, <2>3, <2>5, <2>6, FollowsRowsNext DEF ActiveIsCaptured
(* No other action captures a stop or creates a job.                       *)
<1>6. ASSUME \A t \in Turns : Follows(jobs'[t], turns'[t]),
             \A t \in Turns : /\ turns'[t].stops = turns[t].stops
                              /\ turns'[t].active = turns[t].active
                              /\ jobs'[t].status = "none" => jobs'[t] = jobs[t]
      PROVE  JobFollowsTurn' /\ ActiveIsCaptured'
  BY <1>6, FollowsRowsNext DEF ActiveIsCaptured, Captured
<1>7. ASSUME NEW t \in Turns, Elapse(t) PROVE JobFollowsTurn' /\ ActiveIsCaptured'
  <2>1. Follows(jobs'[t], turns[t]) /\ jobs'[t].status # "none"
    BY <1>1, <1>7, ElapseMove, FollowsMoves, JobFields
  <2>. QED BY <1>1, <1>6, <1>7, <2>1, ElapseMove
<1>8. CASE ClaimJobs
  <2>1. PICK S \in SUBSET Turns : ClaimMoves(S)
    BY <1>8, ClaimMove
  <2>2. ASSUME NEW t \in Turns
        PROVE  /\ Follows(jobs'[t], turns'[t])
               /\ turns'[t].stops = turns[t].stops /\ turns'[t].active = turns[t].active
               /\ jobs'[t].status = "none" => jobs'[t] = jobs[t]
    <3>1. CASE Exhausted(t)
      <4>1. jobs'[t] = Quarantined(jobs[t]) /\ turns'[t] = Put(turns[t], "quarantined")
        BY <2>1, <3>1 DEF ClaimMoves
      <4>2. jobs[t].status = "processing"
        BY <3>1 DEF Exhausted
      <4>. QED BY <1>1, <4>1, <4>2, FollowsMoves, PutFields, JobFields
    <3>2. CASE t \in S
      <4>1. jobs'[t] = Claimed(jobs[t], lane.host) /\ turns'[t] = Put(turns[t], "ready")
        BY <2>1, <3>2 DEF ClaimMoves
      <4>2. jobs[t].status \in {"pending", "processing"}
        BY <2>1, <3>2 DEF ClaimMoves, Claimable
      <4>. QED BY <1>1, <4>1, <4>2, FollowsMoves, PutFields, JobFields
    <3>3. CASE ~Exhausted(t) /\ t \notin S
      BY <1>1, <2>1, <3>3 DEF ClaimMoves
    <3>. QED BY <3>1, <3>2, <3>3
  <2>. QED BY <1>6, <2>2
<1>9. CASE Complete
  <2>1. CASE Holds
    <3>1. Follows(jobs'[lane.job.turn], turns'[lane.job.turn])
      BY <1>1, <1>9, <2>1, CompleteMove, FollowsMoves
    <3>2. /\ turns'[lane.job.turn].stops = turns[lane.job.turn].stops
          /\ turns'[lane.job.turn].active = turns[lane.job.turn].active
          /\ jobs'[lane.job.turn].status # "none"
      BY <1>1, <1>9, <2>1, CompleteMove, PutFields, JobFields
    <3>. QED BY <1>1, <1>6, <1>9, <2>1, <3>1, <3>2, CompleteMove
  <2>2. CASE ~Holds
    BY <1>9, <2>2 DEF Complete, JobFollowsTurn, ActiveIsCaptured, Captured, Paired
  <2>. QED BY <2>1, <2>2
<1>10. CASE Fail
  <2>1. Follows(jobs'[lane.job.turn], turns'[lane.job.turn])
    BY <1>1, <1>10, FailMove, FollowsMoves
  <2>2. /\ turns'[lane.job.turn].stops = turns[lane.job.turn].stops
        /\ turns'[lane.job.turn].active = turns[lane.job.turn].active
        /\ jobs'[lane.job.turn].status # "none"
    BY <1>1, <1>10, FailMove, PutFields, JobFields
  <2>. QED BY <1>1, <1>6, <1>10, <2>1, <2>2, FailMove
<1>11. ASSUME UNCHANGED <<turns, jobs>> PROVE JobFollowsTurn' /\ ActiveIsCaptured'
  BY <1>11 DEF JobFollowsTurn, ActiveIsCaptured, Captured, Paired
<1>. QED
  BY <1>3, <1>4, <1>5, <1>7, <1>8, <1>9, <1>10, <1>11
  DEF FNext, Capture, LaneStep, NextJob, EndRun, Extract, Audit, Escape, Rescope,
      Propose, CallFails, Restart, vars

-----------------------------------------------------------------------------
(* What the lane has in hand *)

(* A capture that touches a job starts it afresh at a later generation.    *)
Renewed(u) ==
  \/ jobs'[u] = jobs[u]
  \/ (jobs'[u].gen > jobs[u].gen /\ jobs'[u].status = "pending")

LEMMA CaptureMoves ==
  ASSUME TypeOK, JobFollowsTurn, ActiveIsCaptured, Capture
  PROVE  /\ UNCHANGED <<lane, written>>
         /\ \A u \in Turns : Renewed(u)
<1>1. ASSUME NEW t \in Turns, NEW turn \in Turn, Store(t, turn), Captured(turn),
             \/ jobs[t].status = "none"
             \/ turn.active > jobs[t].gen /\ Paired(turn)
      PROVE  \A u \in Turns : Renewed(u)
  <2>1. \A u \in Turns : u # t => jobs'[u] = jobs[u]
    BY <1>1 DEF Store, TypeOK
  <2>2. jobs'[t] = IF Paired(turn) THEN JobFor(turn, jobs[t]) ELSE jobs[t]
    BY <1>1 DEF Store, TypeOK
  <2>3. Paired(turn) => turn.active > jobs[t].gen
    BY <1>1, BoundsAssumption
    DEF ActiveIsCaptured, Captured, Paired, Turn, Generations, TypeOK, Job
  <2>4. Paired(turn) => jobs'[t].gen = turn.active /\ jobs'[t].status = "pending"
    BY <2>2, <2>3 DEF JobFor, NoJob
  <2>. QED BY <2>1, <2>2, <2>3, <2>4 DEF Renewed
<1>2. ASSUME NEW t \in Turns, CaptureUser(t)
      PROVE  \A u \in Turns : Renewed(u)
  <2>1. [turns[t] EXCEPT !.user = TRUE] \in Turn
    BY TurnUpdate DEF TypeOK
  <2>. QED BY <1>1, <1>2, <2>1, StoreCases
<1>3. ASSUME NEW t \in Turns, NEW g \in Generations, CaptureStop(t, g)
      PROVE  \A u \in Turns : Renewed(u)
  <2>1. [turns[t] EXCEPT !.stops = @ \cup {g}, !.active = g] \in Turn
    BY StopType DEF TypeOK
  <2>. QED BY <1>1, <1>3, <2>1, StoreCases
<1>4. UNCHANGED <<lane, written>>
  BY DEF Capture, CaptureUser, CaptureStop, CaptureLate, Store
<1>. QED BY <1>2, <1>3, <1>4 DEF Capture, CaptureLate, Renewed

LEMMA LaneStepHolds ==
  ASSUME TypeOK, JobFollowsTurn, ActiveIsCaptured, LaneHolds, [FNext]_vars
  PROVE  LaneHolds'
<1>. USE DEF LaneHolds, Held, Working
<1>0. /\ \A t \in Turns : jobs[t] \in Job
      /\ \A c \in Held : c \in Claim
  BY DEF TypeOK
<1>1. CASE Capture
  <2>1. \A c \in Held : c.turn \in Turns /\ c.gen \in Nat /\ jobs[c.turn].gen \in Nat
    BY <1>0, BoundsAssumption DEF Claim, Generations, Job
  <2>2. \A u \in Turns : jobs'[u] # jobs[u] => jobs'[u].gen > jobs[u].gen
    BY <1>1, CaptureMoves DEF Renewed
  <2>3. lane' = lane
    BY <1>1, CaptureMoves DEF Renewed
  <2>4. \A t \in Turns : jobs'[t].gen \in Nat
    BY TypeStep DEF TypeOK, Job
  <2>. QED BY <2>1, <2>2, <2>3, <2>4
<1>2. ASSUME NEW t \in Turns, Elapse(t) PROVE LaneHolds'
  <2>1. \A u \in Turns :
          /\ jobs'[u].gen = jobs[u].gen /\ jobs'[u].status = jobs[u].status
          /\ jobs'[u].attempts = jobs[u].attempts /\ jobs'[u].by = jobs[u].by
    BY <1>0, <1>2, ElapseMove, JobFields
  <2>2. lane' = lane
    BY <1>2, ElapseMove
  <2>. QED BY <1>0, <2>1, <2>2 DEF Claim
<1>3. CASE ClaimJobs
  <2>1. PICK S \in SUBSET Turns : ClaimMoves(S)
    BY <1>3, ClaimMove
  <2>2. /\ lane'.step = "next" /\ lane'.host = lane.host
        /\ lane'.batch = {Snapshot(t) : t \in S}
    BY <2>1 DEF ClaimMoves
  <2>3. ASSUME NEW t \in S
        PROVE  /\ Snapshot(t).gen = jobs'[t].gen /\ jobs'[t].status = "processing"
               /\ jobs'[t].attempts = Snapshot(t).attempt /\ jobs'[t].by = lane.host
               /\ Snapshot(t).turn = t /\ jobs'[t].gen \in Nat
    <3>1. t \in Turns /\ jobs'[t] = Claimed(jobs[t], lane.host)
      BY <2>1 DEF ClaimMoves
    <3>2. jobs[t] \in Job /\ jobs[t].gen \in Nat
      BY <1>0, <3>1, BoundsAssumption DEF Job
    <3>. QED BY <3>1, <3>2, JobFields DEF Snapshot
  <2>. QED BY <2>2, <2>3
<1>4. CASE NextJob
  <2>1. PICK c \in lane.batch :
          lane' = [lane EXCEPT !.step = "extract", !.batch = @ \ {c}, !.job = c]
    BY <1>4 DEF NextJob
  <2>2. /\ lane'.step = "extract" /\ lane'.batch = lane.batch \ {c} /\ lane'.job = c
        /\ lane'.host = lane.host /\ jobs' = jobs /\ lane.step = "next"
    BY <1>4, <2>1 DEF TypeOK, NextJob
  <2>3. Held' = Held
    BY <2>2
  <2>. QED BY <2>2, <2>3
<1>5. ASSUME NEW h, lane' = Idle(h) PROVE LaneHolds'
  BY <1>5, IdleType
<1>6. ASSUME lane.step \in Working, lane'.step \in Working, jobs' = jobs,
             lane'.batch = lane.batch, lane'.job = lane.job, lane'.host = lane.host
      PROVE  LaneHolds'
  BY <1>6
<1>7. CASE Extract \/ Audit \/ CallFails \/ \E p \in Proposals : Rescope(p) \/ Propose(p)
  <2>1. /\ lane.step \in Working /\ lane'.step \in Working /\ jobs' = jobs
        /\ lane'.batch = lane.batch /\ lane'.job = lane.job /\ lane'.host = lane.host
    BY <1>7 DEF Extract, Audit, CallFails, Rescope, Propose, GiveUp, TypeOK
  <2>. QED BY <1>6, <2>1
(* The job is settled and the lane lets go of it.                          *)
<1>8. ASSUME lane.step \in Working, Done,
             \A u \in Turns : u # lane.job.turn => jobs'[u] = jobs[u]
      PROVE  LaneHolds'
  <2>1. /\ lane'.step = "next" /\ lane'.batch = lane.batch /\ lane'.host = lane.host
    BY <1>8 DEF Done, TypeOK
  <2>2. \A c \in lane.batch : c.turn \in Turns /\ c.turn # lane.job.turn
    BY <1>0, <1>8 DEF Claim
  <2>. QED BY <1>8, <2>1, <2>2
<1>9. CASE Complete
  <2>1. CASE Holds
    BY <1>8, <1>9, <2>1, CompleteMove DEF Complete
  <2>2. CASE ~Holds
    <3>1. /\ lane.step \in Working /\ lane'.step \in Working /\ jobs' = jobs
          /\ lane'.batch = lane.batch /\ lane'.job = lane.job /\ lane'.host = lane.host
      BY <1>9, <2>2 DEF Complete, GiveUp, TypeOK
    <3>. QED BY <1>6, <3>1
  <2>. QED BY <2>1, <2>2
<1>10. CASE Fail
  BY <1>8, <1>10, FailMove DEF Fail
<1>11. CASE EndRun \/ Escape \/ Restart
  BY <1>5, <1>11 DEF EndRun, Escape, Restart
<1>12. CASE UNCHANGED vars
  BY <1>12 DEF vars
<1>. QED
  BY <1>1, <1>2, <1>3, <1>4, <1>7, <1>9, <1>10, <1>11, <1>12 DEF FNext, LaneStep

-----------------------------------------------------------------------------
(* What is on record *)

LEMMA WorkStep ==
  ASSUME TypeOK, WorkIsKept, [FNext]_vars
  PROVE  WorkIsKept'
<1>. USE DEF WorkIsKept, Mark, MarkOf
<1>1. CASE UNCHANGED <<lane, written>>
  BY <1>1 DEF written
<1>2. CASE ~(lane'.step \in {"propose", "complete"})
  BY <1>2
<1>3. CASE Extract
  <2>1. lane'.step = "propose" /\ lane'.work.kept = {}
        /\ lane'.work.refused \cap lane'.work.todo = {}
    <3>1. PICK found \in SUBSET Proposals, refused \in SUBSET Proposals :
            lane' = [lane EXCEPT !.step = "propose",
                                 !.work = [NoWork EXCEPT !.todo = found \ refused,
                                                         !.refused = refused]]
      BY <1>3 DEF Extract
    <3>. QED BY <3>1 DEF TypeOK, NoWork
  <2>. QED BY <2>1
<1>4. CASE Audit
  <2>1. \/ lane'.step = "fail"
        \/ lane'.step = "complete" /\ lane'.job = lane.job /\ Mark \in audited'
    BY <1>4 DEF Audit, GiveUp, TypeOK
  <2>. QED BY <2>1
<1>5. ASSUME NEW p \in Proposals, Rescope(p) PROVE WorkIsKept'
  <2>1. \/ lane'.step = "fail"
        \/ /\ lane'.step = "propose" /\ lane'.job = lane.job
           /\ lane'.work.todo = lane.work.todo /\ lane'.work.kept = lane.work.kept
           /\ lane'.work.refused = lane.work.refused
    <3>1. lane' = [lane EXCEPT !.work.moved = @ \cup {p}]
           \/ lane' = [lane EXCEPT !.step = "fail", !.work = NoWork]
      BY <1>5 DEF Rescope, GiveUp
    <3>2. lane \in Lane /\ lane.work \in Work /\ lane.step = "propose"
      BY <1>5 DEF TypeOK, Lane, Rescope
    <3>. QED BY <3>1, <3>2 DEF Lane, Work
  <2>. QED BY <1>5, <2>1 DEF Rescope
<1>6. ASSUME NEW p \in Proposals, Propose(p) PROVE WorkIsKept'
  <2>1. \/ lane'.step = "fail"
        \/ /\ lane'.step = "propose" /\ lane'.job = lane.job /\ p \in lane.work.todo
           /\ lane'.work.todo = lane.work.todo \ {p}
           /\ lane'.work.kept = lane.work.kept \cup {p}
           /\ lane'.work.refused = lane.work.refused
           /\ admitted' = admitted \cup {MarkOf(p)}
    <3>1. \/ /\ lane' = [lane EXCEPT !.work.todo = @ \ {p}, !.work.kept = @ \cup {p}]
             /\ admitted' = admitted \cup {MarkOf(p)}
          \/ lane' = [lane EXCEPT !.step = "fail", !.work = NoWork]
      BY <1>6 DEF Propose, GiveUp
    <3>2. lane \in Lane /\ lane.work \in Work /\ lane.step = "propose" /\ p \in lane.work.todo
      BY <1>6 DEF TypeOK, Lane, Propose
    <3>3. CASE /\ lane' = [lane EXCEPT !.work.todo = @ \ {p}, !.work.kept = @ \cup {p}]
               /\ admitted' = admitted \cup {MarkOf(p)}
      <4>1. lane' = [lane EXCEPT !.work = [lane.work EXCEPT !.todo = @ \ {p},
                                                           !.kept = @ \cup {p}]]
        BY <3>2, <3>3 DEF Lane, Work
      <4>2. /\ lane'.work = [lane.work EXCEPT !.todo = @ \ {p}, !.kept = @ \cup {p}]
            /\ lane'.step = lane.step /\ lane'.job = lane.job
        BY <3>2, <4>1 DEF Lane
      <4>. QED BY <3>2, <3>3, <4>2 DEF Work
    <3>4. CASE lane' = [lane EXCEPT !.step = "fail", !.work = NoWork]
      BY <3>2, <3>4 DEF Lane
    <3>. QED BY <3>1, <3>3, <3>4
  <2>2. lane.step = "propose"
    BY <1>6 DEF Propose
  <2>3. CASE lane'.step = "propose"
    <3>1. /\ lane'.job = lane.job /\ p \in lane.work.todo
          /\ lane'.work.todo = lane.work.todo \ {p}
          /\ lane'.work.kept = lane.work.kept \cup {p}
          /\ lane'.work.refused = lane.work.refused
          /\ admitted' = admitted \cup {MarkOf(p)}
      BY <2>1, <2>3
    <3>2. lane'.work.refused \cap (lane'.work.todo \cup lane'.work.kept) = {}
      BY <2>2, <3>1
    <3>3. \A q \in lane'.work.kept : MarkOf(q)' \in admitted'
      BY <2>2, <3>1
    <3>. QED BY <2>3, <3>2, <3>3
  <2>. QED BY <2>1, <2>3
<1>7. CASE NextJob \/ EndRun \/ ClaimJobs \/ Complete \/ Fail \/ Escape \/ CallFails \/ Restart
  <2>0. lane \in Lane
    BY DEF TypeOK, Lane
  <2>1. CASE NextJob
    BY <2>0, <2>1 DEF NextJob, Lane
  <2>2. CASE EndRun \/ Escape \/ Restart
    BY <2>2, IdleType DEF EndRun, Escape, Restart
  <2>3. CASE ClaimJobs
    BY <2>3, ClaimMove DEF ClaimMoves
  <2>4. ASSUME Done \/ GiveUp PROVE WorkIsKept'
    BY <2>0, <2>4 DEF Done, GiveUp, Lane
  <2>. QED BY <1>7, <2>1, <2>2, <2>3, <2>4 DEF Complete, Fail, CallFails
<1>8. CASE Capture \/ (\E t \in Turns : Elapse(t)) \/ UNCHANGED vars
  BY <1>1, <1>8
  DEF Capture, CaptureUser, CaptureStop, CaptureLate, Store, Elapse, vars, written
<1>. QED BY <1>3, <1>4, <1>5, <1>6, <1>7, <1>8 DEF FNext, LaneStep

LEMMA FailureStep ==
  ASSUME TypeOK, JobFollowsTurn, ActiveIsCaptured, FailuresAreOver, [FNext]_vars
  PROVE  FailuresAreOver'
<1>. USE DEF FailuresAreOver
<1>0. /\ \A t \in Turns : jobs[t] \in Job
      /\ \A f \in failed : f.turn \in Turns /\ f.gen \in Nat /\ f.attempt \in Nat
      /\ \A t \in Turns : jobs[t].gen \in Nat /\ jobs[t].attempts \in Nat
      /\ \A t \in Turns : jobs'[t].gen \in Nat /\ jobs'[t].attempts \in Nat
  BY TypeStep, BoundsAssumption DEF TypeOK, Generations, Job
<1>1. CASE Capture
  <2>1. \A u \in Turns : jobs'[u] # jobs[u] => jobs'[u].gen > jobs[u].gen
    BY <1>1, CaptureMoves DEF Renewed
  <2>2. failed' = failed
    BY <1>1, CaptureMoves DEF written
  <2>. QED BY <1>0, <2>1, <2>2
(* What a job's row may do without a new failure.                          *)
<1>2. ASSUME failed' = failed,
             \A u \in Turns : jobs'[u] # jobs[u] =>
                /\ jobs'[u].gen = jobs[u].gen /\ jobs'[u].attempts = jobs[u].attempts
                /\ jobs'[u].status = jobs[u].status \/ jobs[u].status = "processing"
      PROVE  FailuresAreOver'
  BY <1>0, <1>2
<1>3. ASSUME NEW t \in Turns, Elapse(t) PROVE FailuresAreOver'
  <2>1. failed' = failed
    BY <1>3, ElapseMove DEF written
  <2>. QED BY <1>0, <1>2, <1>3, <2>1, ElapseMove, JobFields
<1>4. CASE ClaimJobs
  <2>1. PICK S \in SUBSET Turns : ClaimMoves(S)
    BY <1>4, ClaimMove
  <2>2. ASSUME NEW t \in Turns
        PROVE  /\ jobs'[t].gen = jobs[t].gen
               /\ Exhausted(t) => /\ jobs'[t].status = "quarantined"
                                  /\ jobs'[t].attempts = jobs[t].attempts
               /\ ~Exhausted(t) => \/ jobs'[t] = jobs[t]
                                   \/ jobs'[t].attempts = jobs[t].attempts + 1
    BY <1>0, <2>1, JobFields DEF ClaimMoves
  <2>3. ASSUME NEW f \in failed'
        PROVE  /\ f.gen <= jobs'[f.turn].gen
               /\ f.gen = jobs'[f.turn].gen =>
                    \/ f.attempt < jobs'[f.turn].attempts
                    \/ /\ f.attempt = jobs'[f.turn].attempts
                       /\ jobs'[f.turn].status \in {"pending", "quarantined"}
    <3>1. CASE f \in failed
      BY <1>0, <2>2, <3>1
    <3>2. CASE f \notin failed
      <4>1. /\ Exhausted(f.turn) /\ f.turn \in Turns
            /\ f.gen = jobs[f.turn].gen /\ f.attempt = jobs[f.turn].attempts
        BY <2>1, <3>2 DEF ClaimMoves
      <4>. QED BY <1>0, <2>2, <4>1
    <3>. QED BY <3>1, <3>2
  <2>. QED BY <2>3
<1>5. CASE Complete
  <2>1. CASE Holds
    <3>1. \A u \in Turns : jobs'[u] # jobs[u] =>
            /\ jobs'[u].gen = jobs[u].gen /\ jobs'[u].attempts = jobs[u].attempts
            /\ jobs[u].status = "processing"
      BY <1>0, <1>5, <2>1, CompleteMove, JobFields
    <3>2. failed' = failed
      BY <1>5, <2>1, CompleteMove DEF written
    <3>. QED BY <1>2, <3>1, <3>2
  <2>2. CASE ~Holds
    BY <1>5, <2>2 DEF Complete, written
  <2>. QED BY <2>1, <2>2
<1>6. CASE Fail
  <2>1. lane.job.turn \in Turns /\ lane.job.gen = jobs[lane.job.turn].gen
    BY <1>6, FailMove
  <2>2. /\ jobs'[lane.job.turn].gen = jobs[lane.job.turn].gen
        /\ jobs'[lane.job.turn].attempts = jobs[lane.job.turn].attempts
        /\ jobs'[lane.job.turn].status \in {"pending", "quarantined"}
    BY <1>0, <1>6, FailMove, JobFields
  <2>3. ASSUME NEW f \in failed'
        PROVE  \/ f \in failed
               \/ /\ f.turn = lane.job.turn /\ f.gen = lane.job.gen
                  /\ f.attempt = jobs[lane.job.turn].attempts
    BY <1>6, FailMove
  <2>4. \A u \in Turns : u # lane.job.turn => jobs'[u] = jobs[u]
    BY <1>6, FailMove
  <2>. QED BY <1>0, <2>1, <2>2, <2>3, <2>4
<1>7. CASE UNCHANGED <<jobs, failed>>
  BY <1>7
<1>. QED
  BY <1>1, <1>3, <1>4, <1>5, <1>6, <1>7
  DEF FNext, LaneStep, NextJob, EndRun, Extract, Audit, Escape, Rescope, Propose,
      CallFails, Restart, vars, written

LEMMA CompletedStep ==
  ASSUME TypeOK, JobFollowsTurn, ActiveIsCaptured, LaneHolds, WorkIsKept,
         FailuresAreOver, CompletedByLatestAttempt, [FNext]_vars
  PROVE  CompletedByLatestAttempt'
<1>1. audited \subseteq audited'
  BY CaptureMoves, ClaimMove, FailMove
  DEF FNext, ClaimMoves, LaneStep, NextJob, EndRun, Extract, Audit, Complete,
      Escape, Rescope, Propose, CallFails, Restart, Elapse, vars, written
<1>0. \A t \in Turns : jobs[t] \in Job
  BY DEF TypeOK
(* A completed job's row is left alone and gets no failure.                *)
<1>2. ASSUME NEW t \in Turns, jobs'[t].status = "completed", jobs'[t] = jobs[t],
             \A f \in failed' \ failed : f.turn # t \/ f.gen # jobs[t].gen
                                         \/ f.attempt # jobs[t].attempts
      PROVE  LET mark == [turn |-> t, gen |-> jobs'[t].gen, attempt |-> jobs'[t].attempts] IN
             /\ jobs'[t].result = jobs'[t].attempts
             /\ mark \in audited'
             /\ \A f \in failed' : ~(f.turn = t /\ f.gen = mark.gen /\ f.attempt = mark.attempt)
  BY <1>1, <1>2 DEF CompletedByLatestAttempt
<1>3. ASSUME \A t \in Turns : jobs'[t].status = "completed" => jobs'[t] = jobs[t],
             failed' = failed
      PROVE  CompletedByLatestAttempt'
  BY <1>1, <1>3 DEF CompletedByLatestAttempt
<1>4. CASE Capture
  BY <1>3, <1>4, CaptureMoves DEF Renewed, written
<1>5. ASSUME NEW t \in Turns, Elapse(t) PROVE CompletedByLatestAttempt'
  <2>1. jobs'[t].status # "completed" /\ failed' = failed
    BY <1>0, <1>5, ElapseMove, JobFields DEF written
  <2>. QED BY <1>3, <1>5, <2>1, ElapseMove
<1>6. CASE ClaimJobs
  <2>1. PICK S \in SUBSET Turns : ClaimMoves(S)
    BY <1>6, ClaimMove
  <2>2. ASSUME NEW t \in Turns, jobs'[t].status = "completed"
        PROVE  jobs'[t] = jobs[t] /\ ~Exhausted(t)
    BY <1>0, <2>1, <2>2, JobFields DEF ClaimMoves
  <2>3. \A f \in failed' \ failed : Exhausted(f.turn)
    BY <2>1 DEF ClaimMoves
  <2>. QED BY <1>2, <2>2, <2>3 DEF CompletedByLatestAttempt
<1>7. CASE Fail
  <2>1. lane.job.turn \in Turns /\ jobs'[lane.job.turn].status # "completed"
    BY <1>0, <1>7, FailMove, JobFields
  <2>2. \A u \in Turns : u # lane.job.turn => jobs'[u] = jobs[u]
    BY <1>7, FailMove
  <2>3. \A f \in failed' \ failed : f.turn = lane.job.turn
    BY <1>7, FailMove
  <2>. QED BY <1>2, <2>1, <2>2, <2>3 DEF CompletedByLatestAttempt
(* The completion finds the job where the lane left it: at the attempt the *)
(* lane claimed, audited, and without a failure.                           *)
<1>8. CASE Complete /\ Holds
  <2>1. /\ lane.job.turn \in Turns /\ lane.job \in Held
        /\ lane.step = "complete" /\ failed' = failed /\ audited' = audited
    BY <1>8 DEF Complete, TypeOK, Claim, Held, Working, written
  <2>2. /\ jobs[lane.job.turn].gen = lane.job.gen
        /\ jobs[lane.job.turn].status = "processing"
        /\ jobs[lane.job.turn].attempts = lane.job.attempt
    BY <1>8, <2>1 DEF Holds, LaneHolds
  <2>3. /\ jobs'[lane.job.turn].result = lane.job.attempt
        /\ jobs'[lane.job.turn].gen = lane.job.gen
        /\ jobs'[lane.job.turn].attempts = lane.job.attempt
        /\ \A u \in Turns : u # lane.job.turn => jobs'[u] = jobs[u]
    BY <1>0, <1>8, <2>1, <2>2, CompleteMove, JobFields
  <2>4. [turn |-> lane.job.turn, gen |-> lane.job.gen, attempt |-> lane.job.attempt] \in audited
    BY <2>1 DEF WorkIsKept, Mark
  <2>5. \A f \in failed : ~(/\ f.turn = lane.job.turn /\ f.gen = lane.job.gen
                            /\ f.attempt = lane.job.attempt)
    <3>1. ASSUME NEW f \in failed, f.turn = lane.job.turn, f.gen = lane.job.gen,
                 f.attempt = lane.job.attempt
          PROVE  FALSE
      <4>1. lane.job.attempt \in Nat
        BY <2>1, BoundsAssumption DEF TypeOK, Claim, Attempts
      <4>. QED BY <2>2, <3>1, <4>1 DEF FailuresAreOver
    <3>. QED BY <3>1
  <2>. QED BY <2>1, <2>3, <2>4, <2>5 DEF CompletedByLatestAttempt
<1>9. CASE UNCHANGED <<jobs, failed>>
  BY <1>3, <1>9
<1>. QED
  BY <1>4, <1>5, <1>6, <1>7, <1>8, <1>9
  DEF FNext, LaneStep, NextJob, EndRun, Extract, Audit, Complete, Escape, Rescope,
      Propose, CallFails, Restart, vars, written

LEMMA LinkStep ==
  ASSUME TypeOK, WorkIsKept, LinksNameAdmissions, [FNext]_vars
  PROVE  LinksNameAdmissions'
<1>1. CASE UNCHANGED <<admitted, decided>>
  BY <1>1 DEF LinksNameAdmissions
<1>2. ASSUME NEW p \in Proposals, Propose(p) PROVE LinksNameAdmissions'
  <2>1. CASE HasAdmission(p)
    BY <1>1, <1>2, <2>1 DEF Propose
  <2>2. CASE ~HasAdmission(p)
    <3>1. admitted' = admitted \cup {MarkOf(p)} /\ decided' = decided
      BY <1>2, <2>2 DEF Propose
    <3>2. \A a \in admitted : ~(/\ a.turn = lane.job.turn /\ a.gen = lane.job.gen
                               /\ a.proposal = p)
      BY <2>2 DEF HasAdmission, Mine
    <3>. QED BY <3>1, <3>2 DEF LinksNameAdmissions, MarkOf
  <2>. QED BY <2>1, <2>2
<1>3. CASE Audit
  <2>1. CASE decided' = decided /\ admitted' = admitted
    BY <1>1, <2>1
  <2>2. CASE /\ decided' = decided \cup {Decision(p, TRUE) : p \in lane.work.kept}
                                  \cup {Decision(p, FALSE) : p \in lane.work.refused}
             /\ ~\E p \in lane.work.kept \cup lane.work.refused : AlreadyDecided(p)
    <3>1. /\ lane.work.kept \cap lane.work.refused = {} /\ admitted' = admitted
          /\ \A p \in lane.work.kept : MarkOf(p) \in admitted
      BY <1>3 DEF Audit, WorkIsKept
    <3>2. ASSUME NEW d \in decided', d \notin decided
          PROVE  /\ d.turn = lane.job.turn /\ d.gen = lane.job.gen
                 /\ d.attempt = lane.job.attempt
                 /\ d.proposal \in lane.work.kept \cup lane.work.refused
                 /\ d.linked <=> d.proposal \in lane.work.kept
                 /\ d = Decision(d.proposal, d.proposal \in lane.work.kept)
      <4>1. CASE \E p \in lane.work.kept : d = Decision(p, TRUE)
        <5>1. PICK p \in lane.work.kept : d = Decision(p, TRUE)
          BY <4>1
        <5>2. /\ d.turn = lane.job.turn /\ d.gen = lane.job.gen
              /\ d.attempt = lane.job.attempt /\ d.proposal = p /\ d.linked = TRUE
          BY <5>1 DEF Decision
        <5>3. (p \in lane.work.kept) = TRUE
          OBVIOUS
        <5>. QED BY <5>1, <5>2, <5>3
      <4>2. CASE \E p \in lane.work.refused : d = Decision(p, FALSE)
        <5>1. PICK p \in lane.work.refused : d = Decision(p, FALSE)
          BY <4>2
        <5>2. /\ d.turn = lane.job.turn /\ d.gen = lane.job.gen
              /\ d.attempt = lane.job.attempt /\ d.proposal = p /\ d.linked = FALSE
          BY <5>1 DEF Decision
        <5>3. (p \in lane.work.kept) = FALSE
          BY <3>1
        <5>. QED BY <5>1, <5>2, <5>3
      <4>. QED BY <2>2, <3>2, <4>1, <4>2
    <3>3. ASSUME NEW d \in decided', d.linked
          PROVE  [turn |-> d.turn, gen |-> d.gen, attempt |-> d.attempt,
                  proposal |-> d.proposal] \in admitted'
      <4>1. CASE d \in decided
        BY <3>1, <3>3, <4>1 DEF LinksNameAdmissions
      <4>2. CASE d \notin decided
        BY <3>1, <3>2, <3>3, <4>2 DEF MarkOf
      <4>. QED BY <4>1, <4>2
    <3>4. ASSUME NEW d \in decided, NEW e \in decided', e \notin decided
          PROVE  ~(d.turn = e.turn /\ d.gen = e.gen /\ d.proposal = e.proposal)
      BY <2>2, <3>2, <3>4 DEF AlreadyDecided, Mine
    <3>5. ASSUME NEW d \in decided', NEW e \in decided', d \notin decided, e \notin decided,
                 d.proposal = e.proposal
          PROVE  d = e
      BY <3>2, <3>5
    <3>6. \A d, e \in decided' :
            d.turn = e.turn /\ d.gen = e.gen /\ d.proposal = e.proposal => d = e
      BY <3>4, <3>5 DEF LinksNameAdmissions
    <3>. QED BY <3>1, <3>3, <3>6 DEF LinksNameAdmissions
  <2>. QED BY <1>3, <2>1, <2>2 DEF Audit
<1>. QED
  BY <1>1, <1>2, <1>3
  DEF FNext, Capture, CaptureUser, CaptureStop, CaptureLate, Store, LaneStep, ClaimJobs,
      ClaimRows, NextJob, EndRun, Extract, Complete, Fail, Escape, Rescope, CallFails, Restart,
      Elapse, vars, written

-----------------------------------------------------------------------------
(* The theorems *)

LEMMA FInvInit == FInit => FInv
<1>. SUFFICES ASSUME FInit PROVE FInv
  OBVIOUS
<1>1. TypeOK
  BY TypeInit
<1>2. JobFollowsTurn /\ ActiveIsCaptured
  BY DEF FInit, JobFollowsTurn, ActiveIsCaptured, Captured, Paired, NoJob
<1>3. LaneHolds /\ WorkIsKept
  BY DEF FInit, LaneHolds, WorkIsKept, Held, Working, Idle
<1>4. CompletedByLatestAttempt /\ LinksNameAdmissions /\ FailuresAreOver
  BY DEF FInit, CompletedByLatestAttempt, LinksNameAdmissions, FailuresAreOver, NoJob
<1>. QED BY <1>1, <1>2, <1>3, <1>4 DEF FInv, JobsSound

LEMMA FInvStep == FInv /\ [FNext]_vars => FInv'
BY TypeStep, FollowStep, LaneStepHolds, WorkStep, FailureStep, CompletedStep, LinkStep
DEF FInv, JobsSound

THEOREM FInvHolds == FSpec => []FInv
BY FInvInit, FInvStep, PTL DEF FSpec

(* Turn, job, audit, failures, decisions and admissions tell one story of  *)
(* each generation, for any number of turns, attempts and restarts.        *)
THEOREM FormationIsSound == FSpec => []JobsSound
<1>1. FInv => JobsSound
  BY DEF FInv
<1>. QED BY <1>1, FInvHolds, PTL

(* A completed or quarantined job is changed by a later generation only.   *)
LEMMA SettledStep ==
  ASSUME FInv, [FNext]_vars, NEW t \in Turns,
         jobs[t].status \in {"completed", "quarantined"}, jobs'[t] # jobs[t]
  PROVE  jobs'[t].gen > jobs[t].gen
<1>. USE DEF FInv, JobsSound
<1>1. CASE Capture
  BY <1>1, CaptureMoves DEF Renewed
<1>2. ASSUME NEW u \in Turns, Elapse(u) PROVE FALSE
  BY <1>2 DEF Elapse, TypeOK
<1>3. CASE ClaimJobs
  <2>1. PICK S \in SUBSET Turns : ClaimMoves(S)
    BY <1>3, ClaimMove
  <2>2. ~Exhausted(t) /\ t \notin S
    BY <2>1 DEF ClaimMoves, Claimable, Exhausted
  <2>. QED BY <2>1, <2>2 DEF ClaimMoves
<1>4. CASE Complete \/ Fail
  BY <1>4, CompleteMove, FailMove DEF Complete
<1>. QED
  BY <1>1, <1>2, <1>3, <1>4
  DEF FNext, LaneStep, NextJob, EndRun, Extract, Audit, Escape, Rescope,
      Propose, CallFails, Restart, vars, written

(* No retry, late completion or lease that ran out brings a settled job    *)
(* back: only a later Stop of its turn does.                               *)
THEOREM SettledStays == FSpec => SettledForGood
<1>1. FInv /\ [FNext]_vars =>
        [\A t \in Turns : jobs[t].status \in {"completed", "quarantined"}
           /\ jobs'[t] # jobs[t] => jobs'[t].gen > jobs[t].gen]_vars
  BY SettledStep
<1>. QED BY <1>1, FInvHolds, PTL DEF FSpec, SettledForGood
=============================================================================
