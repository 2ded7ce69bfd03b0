-------------------------- MODULE PurgeSagaProofs --------------------------
(***************************************************************************)
(* What PurgeSaga guarantees for every set of memories, evidence and       *)
(* contents, every number of runs at once, every failure and every bound.  *)
(*                                                                         *)
(* The invariant is proved in parts: the types; what a job, its rows and   *)
(* the calls know of each other (Known); the guard; what is in use         *)
(* (Served); and what a row may say of a store (RowsAreTrue), from which a *)
(* completed job's claim follows.                                          *)
(***************************************************************************)
EXTENDS PurgeSaga, TLAPS

(* A deleted memory has a job and no other has; rows belong to jobs, calls *)
(* to rows; evidence that a memory was admitted on has been captured.      *)
Known ==
  /\ \A m \in Memories : memory[m] = "purged" <=> job[m].status # "none"
  /\ \A m \in Memories, a \in Attempts :
        maint[m][a].state # "none" => job[m].status # "none"
  /\ \A c \in Callers : call[c].step # "idle" =>
        maint[call[c].m][call[c].attempt].state # "none"
  /\ \A m \in Memories : memory[m] # "absent" =>
        \A e \in Cites[m] : evidence[e] # "absent"

(* What the invariant needs of a memory whose stores are all verified.     *)
Cleared(m) ==
  /\ copies[m] = {}
  /\ \A e \in Cites[m] : evidence[e] = "purged"
  /\ ({m} \cup Cites[m]) \cap indexed = {}
Swept(m) == ({m} \cup Cites[m]) \cap unswept = {}
AllVerified(out) == \A i \in 1 .. Len(Stores) : out[i] = "verified"

(* A row whose outcomes are all verified tells the truth, however old it   *)
(* is: this is what makes a completed job stay true when a run resumes at  *)
(* the row of an earlier attempt.                                          *)
RowsAreTrue ==
  \A m \in Memories, a \in Attempts :
    maint[m][a].state # "none" /\ AllVerified(maint[m][a].outcomes) =>
      /\ Cleared(m)
      /\ maint[m][a].state = "completed" => Swept(m)

PInv ==
  /\ TypeOK /\ Known
  /\ GuardIsRunningJob /\ LiveIsServed
  /\ RowsAreTrue /\ CompletedIsGone

-----------------------------------------------------------------------------
(* The operators of a run *)

LEMMA NineStores == Len(Stores) = 9
BY DEF Stores

LEMMA VerdictType ==
  ASSUME NEW out \in Outcomes
  PROVE  /\ Verdict(out) \in {"failed", "partial", "completed"}
         /\ Verdict(out) = "completed" => AllVerified(out)
BY DEF Verdict, Outcomes, AllVerified

LEMMA OutcomeType ==
  ASSUME NEW m, NEW f, NEW ev
  PROVE  Outcome(m, f, ev) \in Outcomes
BY DEF Outcome, Outcomes

(* A run whose outcomes are all verified failed nowhere and met no         *)
(* evidence that is shared.                                                *)
LEMMA VerifiedRun ==
  ASSUME NEW m \in Memories, NEW f \in {0} \cup FailAt, NEW ev,
         AllVerified(Outcome(m, f, ev))
  PROVE  f = 0 /\ ~\E e \in Cites[m] : Shared(m, e)
<1>1. f = 0
  <2>. SUFFICES ASSUME f # 0 PROVE FALSE
    OBVIOUS
  <2>1. f \in 1 .. Len(Stores)
    BY PurgeAssumption
  <2>2. Outcome(m, f, ev)[f] = "failed"
    BY <2>1, NineStores DEF Outcome, Reaches
  <2>. QED BY <2>1, <2>2 DEF AllVerified
<1>2. Outcome(m, f, ev)[1] = "verified"
  BY NineStores DEF AllVerified
<1>. QED BY <1>1, <1>2, NineStores DEF Outcome, Reaches

-----------------------------------------------------------------------------
(* Types *)

LEMMA RunType ==
  ASSUME TypeOK, NEW m \in Memories, NEW f \in {0} \cup FailAt,
         NEW ev, ev = RunEvidence(m, f)
  PROVE  /\ ev \in [Evidence -> {"absent", "live", "purged"}]
         /\ Kept(m, f) \subseteq {Stores[i] : i \in 1 .. Len(Stores)}
         /\ Gone(m, ev) \subseteq Memories \cup Evidence
         /\ Touched(m, f, ev) \subseteq Memories \cup Evidence
BY PurgeAssumption DEF TypeOK, RunEvidence, Kept, Gone, Touched

LEMMA ToUnlinkType ==
  ASSUME NEW m PROVE ToUnlink(m) \subseteq Contents
BY DEF ToUnlink

JobRow == [status : {"none"} \cup Statuses, attempts : 0 .. MaxAttempts, epoch : Nat]
MaintRow == [state : {"none", "pending", "completed"}, outcomes : Outcomes]

LEMMA JobRowUpdate ==
  ASSUME NEW r \in JobRow, NEW v \in Statuses, NEW n \in 0 .. MaxAttempts
  PROVE  /\ [r EXCEPT !.status = v] \in JobRow
         /\ [r EXCEPT !.status = v, !.attempts = n] \in JobRow
BY DEF JobRow

LEMMA MaintRowUpdate ==
  ASSUME NEW r \in MaintRow PROVE [r EXCEPT !.state = "completed"] \in MaintRow
BY DEF MaintRow

LEMMA CallUpdate ==
  ASSUME NEW r \in Steps, r.step = "prepared"
  PROVE  [r EXCEPT !.step = "finalized"] \in Steps
BY DEF Steps

LEMMA TypeInit == PInit => TypeOK
<1>. SUFFICES ASSUME PInit PROVE TypeOK
  OBVIOUS
<1>1. Unseen \in Outcomes
  BY DEF Unseen, Outcomes
<1>. QED BY <1>1, PurgeAssumption DEF PInit, TypeOK, NoRow, NoReceipt, Steps

LEMMA TypeStep == TypeOK /\ [PNext]_vars => TypeOK'
<1>. SUFFICES ASSUME TypeOK, [PNext]_vars PROVE TypeOK'
  OBVIOUS
<1>. USE PurgeAssumption
<1>1. ASSUME NEW e \in Evidence, Capture(e) PROVE TypeOK'
  <2>1. /\ evidence' \in [Evidence -> {"absent", "live", "purged"}]
        /\ queued' \subseteq Memories \cup Evidence
    BY <1>1 DEF TypeOK, Capture
  <2>2. rows' \subseteq Contents /\ files' \subseteq Contents
    <3>1. BlobOf[e] # NoBlob => BlobOf[e] \in Contents
      OBVIOUS
    <3>2. /\ files' \in {files, files \cup {BlobOf[e]}}
          /\ rows' \in {rows, rows \cup {BlobOf[e]}}
          /\ BlobOf[e] = NoBlob => files' = files /\ rows' = rows
      BY <1>1 DEF Capture
    <3>. QED BY <3>1, <3>2 DEF TypeOK
  <2>. QED BY <1>1, <2>1, <2>2 DEF TypeOK, Capture, saga
<1>2. ASSUME NEW m \in Memories, Admit(m) PROVE TypeOK'
  BY <1>2 DEF TypeOK, Admit, saga, blobs, Holding
<1>3. ASSUME NEW m \in Memories, Delete(m) PROVE TypeOK'
  BY <1>3 DEF TypeOK, Delete, blobs, Statuses
<1>4. ASSUME NEW i \in Memories \cup Evidence, Drain(i) PROVE TypeOK'
  BY <1>4 DEF TypeOK, Drain, saga, blobs
<1>5. ASSUME NEW c \in Callers, NEW m \in Memories, Prepare(c, m) PROVE TypeOK'
  <2>1. PICK f \in {0} \cup FailAt :
          LET ev == RunEvidence(m, f)
              a == job[m].attempts + 1 IN
          /\ evidence' = ev
          /\ copies' = [copies EXCEPT ![m] = @ \cap Kept(m, f)]
          /\ indexed' = IF Reaches(f, 4) THEN indexed \ Gone(m, ev) ELSE indexed
          /\ queued' = IF Reaches(f, 9) THEN queued \ Gone(m, ev) ELSE queued
          /\ rows' = rows \ Freed(m, f, ev)
          /\ intent' = [intent EXCEPT ![m] =
               [k \in Contents |-> IF k \in Freed(m, f, ev) /\ @[k] = "none"
                                   THEN "pending" ELSE @[k]]]
          /\ unswept' = unswept \cup Touched(m, f, ev)
          /\ maint' = [maint EXCEPT ![m][a] =
               [state |-> "pending", outcomes |-> Outcome(m, f, ev)]]
          /\ Go(c, Maintains(m, a))
    BY <1>5 DEF Prepare
  <2>. DEFINE ev == RunEvidence(m, f)
              a == job[m].attempts + 1
  <2>2. a \in Attempts
    BY <1>5 DEF Prepare, MayClaim, TypeOK, Attempts
  <2>3. Outcome(m, f, ev) \in Outcomes
    BY OutcomeType
  <2>4. ev \in [Evidence -> {"absent", "live", "purged"}]
        /\ Touched(m, f, ev) \subseteq Memories \cup Evidence
    BY RunType
  <2>. HIDE DEF ev, a
  <2>5. maint' \in [Memories -> [Attempts ->
          [state : {"none", "pending", "completed"}, outcomes : Outcomes]]]
    BY <2>1, <2>2, <2>3 DEF TypeOK, ev, a
  <2>6. call' \in [Callers -> Steps]
    BY <2>1, <2>2 DEF TypeOK, Go, Maintains, Steps, a
  <2>7. job' \in [Memories -> JobRow]
    <3>1. job' = [job EXCEPT ![m] = [job[m] EXCEPT !.status = "running",
                                                  !.attempts = job[m].attempts + 1]]
      BY <1>5, Zenon DEF Prepare
    <3>2. job[m] \in JobRow
      BY DEF TypeOK, JobRow
    <3>3. [job[m] EXCEPT !.status = "running", !.attempts = job[m].attempts + 1] \in JobRow
      <4>1. job[m].attempts + 1 \in 0 .. MaxAttempts
        BY <2>2 DEF Attempts, a
      <4>2. "running" \in Statuses
        BY DEF Statuses
      <4>. QED BY <4>1, <4>2, <3>2, JobRowUpdate, Zenon
    <3>. QED BY <3>1, <3>3 DEF TypeOK, JobRow
  <2>8. /\ intent' \in [Memories -> [Contents -> {"none", "pending", "completed"}]]
        /\ rows' \subseteq Contents
    BY <2>1 DEF TypeOK
  <2>9. /\ evidence' \in [Evidence -> {"absent", "live", "purged"}]
        /\ copies' \in [Memories -> SUBSET Holding]
        /\ indexed' \subseteq Memories \cup Evidence
        /\ queued' \subseteq Memories \cup Evidence
        /\ unswept' \subseteq Memories \cup Evidence
    BY <2>1, <2>4 DEF TypeOK, ev
  <2>. QED BY <1>5, <2>5, <2>6, <2>7, <2>8, <2>9 DEF Prepare, TypeOK, JobRow
<1>6. ASSUME NEW c \in Callers, NEW m \in Memories, Resume(c, m) PROVE TypeOK'
  BY <1>6 DEF TypeOK, Resume, Go, Maintains, Awaiting, Steps, ledger, blobs, saga
<1>7. ASSUME NEW c \in Callers, Finalize(c) PROVE TypeOK'
  <2>. DEFINE m == call[c].m
              a == call[c].attempt
  <2>1. call[c] \in Steps /\ call[c].step = "prepared" /\ m \in Memories /\ a \in Attempts
    BY <1>7 DEF TypeOK, Finalize, Steps
  <2>2. call' \in [Callers -> Steps]
    <3>1. [call[c] EXCEPT !.step = "finalized"] \in Steps
      BY <2>1, CallUpdate
    <3>. QED BY <1>7, <3>1 DEF Finalize, Go, TypeOK
  <2>3. maint' \in [Memories -> [Attempts -> MaintRow]]
    <3>1. CASE maint' = maint
      BY <3>1 DEF TypeOK, MaintRow
    <3>2. CASE maint' = [maint EXCEPT ![m][a].state = "completed"]
      <4>1. maint[m][a] \in MaintRow
        BY <2>1 DEF TypeOK, MaintRow
      <4>2. [maint[m][a] EXCEPT !.state = "completed"] \in MaintRow
        BY <4>1, MaintRowUpdate
      <4>3. maint' = [maint EXCEPT ![m] = [maint[m] EXCEPT ![a] =
                        [maint[m][a] EXCEPT !.state = "completed"]]]
        BY <3>2, Zenon
      <4>. QED BY <4>2, <4>3, <2>1 DEF TypeOK, MaintRow
    <3>. QED BY <1>7, <3>1, <3>2, Zenon DEF Finalize
  <2>4. /\ rows' \subseteq Contents /\ files' \subseteq Contents
        /\ intent' \in [Memories -> [Contents -> {"none", "pending", "completed"}]]
        /\ unswept' \subseteq Memories \cup Evidence
    <3>1. CASE UNCHANGED <<blobs, unswept, maint>>
      BY <3>1 DEF TypeOK, blobs
    <3>2. CASE /\ rows' = rows \ ToUnlink(m) /\ files' = files \ ToUnlink(m)
               /\ Done(m, ToUnlink(m)) /\ unswept' = {}
      BY <2>1, <3>2 DEF TypeOK, Done
    <3>. QED BY <1>7, <3>1, <3>2, Zenon DEF Finalize
  <2>. QED BY <1>7, <2>2, <2>3, <2>4 DEF TypeOK, Finalize, ledger, MaintRow
<1>8. ASSUME NEW c \in Callers, Publish(c) PROVE TypeOK'
  <2>. DEFINE m == call[c].m
              a == call[c].attempt
              out == maint[m][a].outcomes
  <2>1. call[c] \in Steps /\ m \in Memories /\ a \in Attempts /\ out \in Outcomes
    BY <1>8 DEF TypeOK, Publish, Steps
  <2>2. Verdict(out) \in Statuses
    BY <2>1, VerdictType DEF Statuses
  <2>3. job' \in [Memories -> JobRow]
    <3>1. job' = [job EXCEPT ![m] = [job[m] EXCEPT !.status = Verdict(out)]]
      BY <1>8, Zenon DEF Publish
    <3>2. job[m] \in JobRow /\ job[m].attempts \in 0 .. MaxAttempts
      BY <2>1 DEF TypeOK, JobRow
    <3>3. [job[m] EXCEPT !.status = Verdict(out)] \in JobRow
      BY <2>2, <3>2, JobRowUpdate
    <3>. QED BY <3>1, <3>3 DEF TypeOK, JobRow
  <2>4. receipt' \in [Memories -> [attempt : 0 .. MaxAttempts, of : 0 .. MaxAttempts,
                                   state : {"none"} \cup Statuses]]
    BY <1>8, <2>1, <2>2 DEF Publish, TypeOK, Attempts
  <2>5. frontier' \in [epoch : Nat, debt : BOOLEAN]
    BY <1>8, <2>1 DEF Publish, Advance, Indebted, TypeOK
  <2>6. call' \in [Callers -> Steps]
    BY <1>8 DEF Publish, Return, Go, TypeOK, Steps
  <2>. QED BY <1>8, <2>3, <2>4, <2>5, <2>6 DEF TypeOK, Publish, ledger, blobs, JobRow
<1>9. ASSUME NEW c \in Callers, PublishRefused(c) PROVE TypeOK'
  BY <1>9 DEF TypeOK, PublishRefused, Return, Go, Steps, ledger, blobs, saga
<1>10. ASSUME NEW c \in Callers, FinalizeDies(c) PROVE TypeOK'
  BY <1>10 DEF TypeOK, FinalizeDies, Interrupted, Done, Idle, Steps, ledger, saga
<1>11. CASE Crash
  BY <1>11 DEF TypeOK, Crash, Idle, Steps, ledger, blobs, saga
<1>12. CASE Backup
  BY <1>12 DEF TypeOK, Backup, ledger, blobs, saga
<1>13. CASE UNCHANGED vars
  BY <1>13 DEF TypeOK, vars, ledger, blobs, saga
<1>. QED
  BY <1>1, <1>2, <1>3, <1>4, <1>5, <1>6, <1>7, <1>8, <1>9, <1>10, <1>11,
     <1>12, <1>13 DEF PNext, Run

-----------------------------------------------------------------------------
(* Jobs, rows and calls *)

(* What a run does to the evidence: nothing that was captured is forgotten, *)
(* and what is purged stays so.                                            *)
LEMMA RunKeeps ==
  ASSUME NEW m \in Memories, NEW f, NEW e \in Evidence
  PROVE  /\ RunEvidence(m, f)[e] \in {evidence[e], "purged"}
         /\ RunEvidence(m, f)[e] # evidence[e] =>
               /\ e \in Cites[m] /\ evidence[e] = "live" /\ ~Shared(m, e)
BY DEF RunEvidence

(* The two assignments to one field of a row, spelled out.                 *)
LEMMA CompletesRow ==
  ASSUME TypeOK, NEW m \in Memories, NEW a \in Attempts,
         maint' = [maint EXCEPT ![m][a].state = "completed"],
         NEW n \in Memories, NEW b \in Attempts
  PROVE  /\ maint'[n][b].outcomes = maint[n][b].outcomes
         /\ maint'[n][b].state =
               IF n = m /\ b = a THEN "completed" ELSE maint[n][b].state
<1>1. maint[m][a] \in MaintRow
  BY DEF TypeOK, MaintRow
<1>2. maint' = [maint EXCEPT ![m] = [maint[m] EXCEPT ![a] =
                  [maint[m][a] EXCEPT !.state = "completed"]]]
  BY Zenon
<1>3. maint'[n][b] = IF n = m /\ b = a THEN [maint[m][a] EXCEPT !.state = "completed"]
                     ELSE maint[n][b]
  BY <1>2 DEF TypeOK
<1>. QED BY <1>1, <1>3 DEF MaintRow

LEMMA SettlesJob ==
  ASSUME TypeOK, NEW m \in Memories, NEW v, job' = [job EXCEPT ![m].status = v],
         NEW n \in Memories
  PROVE  job'[n].status = IF n = m THEN v ELSE job[n].status
<1>1. job[m] \in JobRow
  BY DEF TypeOK, JobRow
<1>2. job' = [job EXCEPT ![m] = [job[m] EXCEPT !.status = v]]
  BY Zenon
<1>3. job'[n] = IF n = m THEN [job[m] EXCEPT !.status = v] ELSE job[n]
  BY <1>2 DEF TypeOK
<1>. QED BY <1>1, <1>3 DEF JobRow

LEMMA KnownInit == PInit => Known
BY PurgeAssumption DEF PInit, Known, NoRow

(* The steps that leave the jobs, the rows and the lifecycle alone.        *)
LEMMA KnownOthers ==
  ASSUME TypeOK, Known, UNCHANGED <<memory, job>>,
         \A m \in Memories, a \in Attempts :
            maint'[m][a].state # "none" <=> maint[m][a].state # "none",
         \A e \in Evidence : evidence[e] # "absent" => evidence'[e] # "absent",
         \A c \in Callers : call'[c].step # "idle" =>
            maint[call'[c].m][call'[c].attempt].state # "none"
            /\ call'[c].m \in Memories /\ call'[c].attempt \in Attempts
  PROVE  Known'
BY PurgeAssumption DEF Known, TypeOK

LEMMA KnownStep == TypeOK /\ TypeOK' /\ Known /\ [PNext]_vars => Known'
<1>. SUFFICES ASSUME TypeOK, TypeOK', Known, [PNext]_vars PROVE Known'
  OBVIOUS
<1>. USE PurgeAssumption
<1>a. ASSUME NEW c \in Callers, call[c].step # "idle"
      PROVE  call[c].m \in Memories /\ call[c].attempt \in Attempts
  BY <1>a DEF TypeOK, Steps
<1>1. ASSUME NEW e \in Evidence, Capture(e) PROVE Known'
  <2>1. \A x \in Evidence : evidence[x] # "absent" => evidence'[x] # "absent"
    BY <1>1 DEF Capture, TypeOK
  <2>. QED BY <1>1, <1>a, <2>1, KnownOthers DEF Capture, saga, Known
<1>2. ASSUME NEW m \in Memories, Admit(m) PROVE Known'
  BY <1>2 DEF Known, Admit, saga, TypeOK
<1>3. ASSUME NEW m \in Memories, Delete(m) PROVE Known'
  BY <1>3 DEF Known, Delete, TypeOK
<1>4. ASSUME NEW i \in Memories \cup Evidence, Drain(i) PROVE Known'
  BY <1>4, <1>a, KnownOthers DEF Known, Drain, saga
<1>5. ASSUME NEW c \in Callers, NEW m \in Memories, Prepare(c, m) PROVE Known'
  <2>. DEFINE a == job[m].attempts + 1
  <2>1. a \in Attempts
    BY <1>5 DEF Prepare, MayClaim, TypeOK, Attempts
  <2>2. /\ job[m].status # "none"
        /\ \A n \in Memories : job'[n].status # "none" <=> job[n].status # "none"
    BY <1>5 DEF Prepare, MayClaim, TypeOK
  <2>3. PICK f : /\ evidence' = RunEvidence(m, f)
                 /\ maint' = [maint EXCEPT ![m][a] =
                       [state |-> "pending", outcomes |-> Outcome(m, f, RunEvidence(m, f))]]
                 /\ call' = [call EXCEPT ![c] = Maintains(m, a)]
    BY <1>5 DEF Prepare, Go
  <2>4. \A e \in Evidence : evidence[e] # "absent" => evidence'[e] # "absent"
    BY <2>3, RunKeeps
  <2>5. \A n \in Memories, b \in Attempts : maint'[n][b].state # "none" =>
           \/ maint[n][b].state # "none"
           \/ n = m
    BY <2>1, <2>3 DEF TypeOK
  <2>6. \A n \in Memories, b \in Attempts :
           maint[n][b].state # "none" => maint'[n][b].state # "none"
    BY <2>1, <2>3 DEF TypeOK
  <2>7. \A d \in Callers : call'[d].step # "idle" =>
           maint'[call'[d].m][call'[d].attempt].state # "none"
    <3>. TAKE d \in Callers
    <3>1. CASE d = c
      <4>1. call'[d].m = m /\ call'[d].attempt = a
        BY <2>3, <3>1 DEF TypeOK, Maintains
      <4>2. maint'[m][a].state = "pending"
        BY <2>1, <2>3 DEF TypeOK
      <4>. QED BY <4>1, <4>2
    <3>2. CASE d # c
      BY <2>3, <2>6, <3>2, <1>a DEF TypeOK, Known
    <3>. QED BY <3>1, <3>2
  <2>8. memory' = memory
    BY <1>5 DEF Prepare
  <2>. QED BY <2>2, <2>4, <2>5, <2>7, <2>8 DEF Known, TypeOK
<1>6. ASSUME NEW c \in Callers, NEW m \in Memories, Resume(c, m) PROVE Known'
  <2>1. PICK b \in Attempts : /\ maint[m][b].state # "none"
                              /\ call' = [call EXCEPT ![c] = Maintains(m, b)]
    BY <1>6 DEF Resume, Awaiting, Go
  <2>2. \A d \in Callers : call'[d].step # "idle" =>
           /\ maint[call'[d].m][call'[d].attempt].state # "none"
           /\ call'[d].m \in Memories /\ call'[d].attempt \in Attempts
    BY <2>1, <1>a DEF Known, TypeOK, Maintains
  <2>. QED BY <1>6, <2>2, KnownOthers DEF Resume, ledger, saga
<1>7. ASSUME NEW c \in Callers, Finalize(c) PROVE Known'
  <2>. DEFINE m == call[c].m
              a == call[c].attempt
  <2>1. /\ m \in Memories /\ a \in Attempts
        /\ maint[m][a].state # "none"
    BY <1>7, <1>a DEF Finalize, Known
  <2>2. \A n \in Memories, b \in Attempts :
           maint'[n][b].state # "none" <=> maint[n][b].state # "none"
    <3>1. CASE maint' = maint
      BY <3>1
    <3>2. CASE maint' = [maint EXCEPT ![m][a].state = "completed"]
      BY <2>1, <3>2, CompletesRow
    <3>. QED BY <1>7, <3>1, <3>2, Zenon DEF Finalize
  <2>3. /\ call'[c].m = m /\ call'[c].attempt = a
        /\ \A d \in Callers \ {c} : call'[d] = call[d]
    BY <1>7 DEF Finalize, Go, TypeOK
  <2>4. UNCHANGED <<memory, job, evidence>>
    BY <1>7 DEF Finalize, ledger
  <2>5. \A d \in Callers : call'[d].step # "idle" =>
           /\ maint[call'[d].m][call'[d].attempt].state # "none"
           /\ call'[d].m \in Memories /\ call'[d].attempt \in Attempts
    <3>. TAKE d \in Callers
    <3>1. CASE d = c
      BY <2>1, <2>3, <3>1
    <3>2. CASE d # c
      <4>1. call'[d] = call[d]
        BY <2>3, <3>2
      <4>. QED BY <1>a, <4>1 DEF Known
    <3>. QED BY <3>1, <3>2
  <2>. QED BY <2>2, <2>4, <2>5, KnownOthers
<1>8. ASSUME NEW c \in Callers, Publish(c) PROVE Known'
  <2>. DEFINE m == call[c].m
              out == maint[m][call[c].attempt].outcomes
  <2>1. m \in Memories /\ call[c].attempt \in Attempts /\ out \in Outcomes
    BY <1>8, <1>a DEF Publish, TypeOK
  <2>2. job[m].status = "running" /\ job' = [job EXCEPT ![m].status = Verdict(out)]
    BY <1>8 DEF Publish, MayPublish
  <2>3. \A n \in Memories : job'[n].status # "none" <=> job[n].status # "none"
    BY <2>1, <2>2, SettlesJob, VerdictType
  <2>4. \A d \in Callers : call'[d].step # "idle" => call'[d] = call[d]
    BY <1>8 DEF Publish, Return, Go, TypeOK
  <2>5. memory' = memory /\ evidence' = evidence /\ maint' = maint
    BY <1>8 DEF Publish, ledger
  <2>. QED BY <2>3, <2>4, <2>5 DEF Known
<1>9. ASSUME NEW c \in Callers, PublishRefused(c) PROVE Known'
  <2>1. \A d \in Callers : call'[d].step # "idle" => call'[d] = call[d]
    BY <1>9 DEF PublishRefused, Return, Go, TypeOK
  <2>. QED BY <1>9, <2>1 DEF PublishRefused, Known, ledger, saga
<1>10. ASSUME NEW c \in Callers, FinalizeDies(c) PROVE Known'
  BY <1>10 DEF FinalizeDies, Idle, Known, ledger, saga
<1>11. CASE Crash
  BY <1>11 DEF Crash, Idle, Known, ledger, saga
<1>12. CASE Backup
  BY <1>12 DEF Backup, Known, ledger, saga
<1>13. CASE UNCHANGED vars
  BY <1>13 DEF vars, Known, ledger, saga
<1>. QED
  BY <1>1, <1>2, <1>3, <1>4, <1>5, <1>6, <1>7, <1>8, <1>9, <1>10, <1>11,
     <1>12, <1>13 DEF PNext, Run

-----------------------------------------------------------------------------
(* The guard *)

LEMMA GuardStep ==
  TypeOK /\ Known /\ GuardIsRunningJob /\ [PNext]_vars => GuardIsRunningJob'
<1>. SUFFICES ASSUME TypeOK, Known, GuardIsRunningJob, [PNext]_vars
     PROVE  GuardIsRunningJob'
  OBVIOUS
<1>1. ASSUME NEW m \in Memories, Delete(m) PROVE GuardIsRunningJob'
  <2>1. job[m].status = "none"
    BY <1>1 DEF Delete, Known, TypeOK
  <2>2. \A n \in Memories : job'[n].status = "running" <=> job[n].status = "running"
    BY <1>1, <2>1 DEF Delete, TypeOK
  <2>. QED BY <1>1, <2>2 DEF Delete, GuardIsRunningJob
<1>2. ASSUME NEW c \in Callers, NEW m \in Memories, Prepare(c, m)
      PROVE  GuardIsRunningJob'
  <2>1. /\ guard \subseteq {m} /\ guard' = {m}
        /\ job' = [job EXCEPT ![m].status = "running", ![m].attempts = @ + 1]
    BY <1>2 DEF Prepare, MayClaim
  <2>2. \A n \in Memories : job'[n].status = IF n = m THEN "running" ELSE job[n].status
    BY <2>1 DEF TypeOK
  <2>. QED BY <2>1, <2>2 DEF GuardIsRunningJob
<1>3. ASSUME NEW c \in Callers, Publish(c) PROVE GuardIsRunningJob'
  <2>. DEFINE m == call[c].m
              out == maint[m][call[c].attempt].outcomes
  <2>1. m \in Memories /\ out \in Outcomes
    BY <1>3 DEF Publish, TypeOK, Steps
  <2>2. guard' = guard \ {m} /\ job' = [job EXCEPT ![m].status = Verdict(out)]
    BY <1>3 DEF Publish
  <2>3. \A n \in Memories : job'[n].status = "running" <=>
                            job[n].status = "running" /\ n # m
    <3>1. Verdict(out) # "running"
      BY <2>1, VerdictType
    <3>. DEFINE v == Verdict(out)
    <3>2. m \in Memories /\ v # "running" /\ job' = [job EXCEPT ![m].status = v]
      BY <2>1, <2>2, <3>1
    <3>. HIDE DEF m, out, v
    <3>3. \A n \in Memories : job'[n].status = IF n = m THEN v ELSE job[n].status
      BY <3>2, SettlesJob
    <3>. QED BY <3>2, <3>3
  <2>. QED BY <2>2, <2>3 DEF GuardIsRunningJob
<1>4. CASE UNCHANGED <<job, guard>>
  BY <1>4 DEF GuardIsRunningJob
<1>. QED
  BY <1>1, <1>2, <1>3, <1>4
  DEF PNext, Run, Capture, Admit, Drain, Resume, Finalize, PublishRefused,
      FinalizeDies, Crash, Backup, vars, saga

-----------------------------------------------------------------------------
(* What is in use *)

LEMMA ServedStep ==
  TypeOK /\ Known /\ LiveIsServed /\ [PNext]_vars => LiveIsServed'
<1>. SUFFICES ASSUME TypeOK, Known, LiveIsServed, [PNext]_vars
     PROVE  LiveIsServed'
  OBVIOUS
<1>. USE PurgeAssumption
<1>1. ASSUME NEW e \in Evidence, Capture(e) PROVE LiveIsServed'
  <2>1. memory' = memory
    BY <1>1 DEF Capture
  <2>2. \A x \in Evidence : evidence[x] = "live" => evidence'[x] = "live"
    BY <1>1 DEF Capture, TypeOK
  <2>3. rows \subseteq rows' /\ files \subseteq files'
    BY <1>1 DEF Capture
  <2>4. \A x \in Evidence : evidence'[x] = "live" /\ BlobOf[x] # NoBlob =>
           \/ evidence[x] = "live"
           \/ BlobOf[x] \in rows' /\ BlobOf[x] \in files'
    BY <1>1 DEF Capture, TypeOK
  <2>. QED BY <2>1, <2>2, <2>3, <2>4 DEF LiveIsServed
<1>2. ASSUME NEW m \in Memories, Admit(m) PROVE LiveIsServed'
  BY <1>2 DEF Admit, LiveIsServed, TypeOK, blobs
<1>3. ASSUME NEW m \in Memories, Delete(m) PROVE LiveIsServed'
  BY <1>3 DEF Delete, LiveIsServed, TypeOK, blobs
<1>4. ASSUME NEW c \in Callers, NEW m \in Memories, Prepare(c, m)
      PROVE  LiveIsServed'
  <2>1. PICK f : /\ evidence' = RunEvidence(m, f)
                 /\ rows' = rows \ Freed(m, f, RunEvidence(m, f))
    BY <1>4 DEF Prepare
  <2>2. memory' = memory /\ files' = files
    BY <1>4 DEF Prepare
  <2>3. memory[m] = "purged"
    BY <1>4 DEF Prepare, MayClaim, Known
  <2>4. ASSUME NEW n \in Memories, memory[n] = "active", NEW e \in Cites[n]
        PROVE  evidence'[e] = "live"
    <3>1. evidence[e] = "live" /\ e \in Evidence
      BY <2>4 DEF LiveIsServed
    <3>2. Shared(m, e)
      BY <2>3, <2>4 DEF Shared
    <3>. QED BY <2>1, <3>1, <3>2, RunKeeps
  <2>5. ASSUME NEW e \in Evidence, evidence'[e] = "live", BlobOf[e] # NoBlob
        PROVE  BlobOf[e] \in rows' /\ BlobOf[e] \in files'
    <3>1. evidence[e] = "live"
      BY <2>1, <2>5, RunKeeps
    <3>2. Referenced(BlobOf[e], RunEvidence(m, f))
      BY <2>1, <2>5 DEF Referenced
    <3>3. BlobOf[e] \notin Freed(m, f, RunEvidence(m, f))
      BY <3>2 DEF Freed
    <3>. QED BY <2>1, <2>2, <2>5, <3>1, <3>3 DEF LiveIsServed
  <2>. QED BY <2>2, <2>4, <2>5 DEF LiveIsServed
<1>5. ASSUME UNCHANGED <<memory, evidence>>, NEW U, U \subseteq Contents,
             \A k \in U : ~Referenced(k, evidence),
             rows' = rows \ U, files' = files \ U
      PROVE  LiveIsServed'
  BY <1>5 DEF LiveIsServed, Referenced
<1>6. ASSUME NEW c \in Callers, Finalize(c) PROVE LiveIsServed'
  <2>1. CASE UNCHANGED <<blobs, unswept, maint>>
    BY <1>6, <2>1 DEF Finalize, LiveIsServed, ledger, blobs
  <2>2. CASE /\ \A k \in ToUnlink(call[c].m) : ~Referenced(k, evidence)
             /\ rows' = rows \ ToUnlink(call[c].m)
             /\ files' = files \ ToUnlink(call[c].m)
    <3>1. UNCHANGED <<memory, evidence>>
      BY <1>6 DEF Finalize, ledger
    <3>. QED BY <1>5, <2>2, <3>1, ToUnlinkType
  <2>. QED BY <1>6, <2>1, <2>2, Zenon DEF Finalize
<1>7. ASSUME NEW c \in Callers, FinalizeDies(c) PROVE LiveIsServed'
  <2>. DEFINE m == call[c].m
  <2>1. PICK x \in Interrupted(m) : /\ rows' = rows \ x.U /\ files' = files \ x.U
                                    /\ \A k \in ToUnlink(m) : ~Referenced(k, evidence)
    BY <1>7 DEF FinalizeDies
  <2>2. x.U \subseteq ToUnlink(m)
    BY <2>1 DEF Interrupted
  <2>3. x.U \subseteq Contents /\ \A k \in x.U : ~Referenced(k, evidence)
    BY <2>1, <2>2, ToUnlinkType
  <2>4. UNCHANGED <<memory, evidence>>
    BY <1>7 DEF FinalizeDies, ledger
  <2>. QED BY <1>5, <2>1, <2>3, <2>4
<1>8. CASE UNCHANGED <<memory, evidence, rows, files>>
  BY <1>8 DEF LiveIsServed
<1>. QED
  BY <1>1, <1>2, <1>3, <1>4, <1>6, <1>7, <1>8
  DEF PNext, Run, Drain, Resume, Publish, PublishRefused, Crash, Backup,
      vars, ledger, blobs

-----------------------------------------------------------------------------
(* What is gone stays gone *)

(* Whatever happens, a deleted memory that is cleared stays so, and swept. *)
LEMMA ClearedStays ==
  ASSUME TypeOK, Known, [PNext]_vars,
         NEW m \in Memories, memory[m] = "purged", Cleared(m)
  PROVE  /\ Cleared(m)'
         /\ Swept(m) => Swept(m)'
<1>. USE PurgeAssumption
<1>a. Cites[m] \subseteq Evidence
  OBVIOUS
<1>1. ASSUME NEW e \in Evidence, Capture(e) PROVE Cleared(m)' /\ (Swept(m) => Swept(m)')
  <2>1. \A x \in Evidence : evidence[x] = "purged" => evidence'[x] = "purged"
    BY <1>1 DEF Capture, TypeOK
  <2>. QED BY <1>1, <1>a, <2>1 DEF Capture, Cleared, Swept
<1>2. ASSUME NEW n \in Memories, Admit(n) PROVE Cleared(m)' /\ (Swept(m) => Swept(m)')
  BY <1>2, <1>a DEF Admit, Cleared, Swept, TypeOK
<1>3. ASSUME NEW i \in Memories \cup Evidence, Drain(i)
      PROVE  Cleared(m)' /\ (Swept(m) => Swept(m)')
  <2>1. \A e \in Cites[m] : ~Searchable(e)
    BY <1>a DEF Cleared, Searchable
  <2>2. ~Searchable(m)
    BY DEF Searchable
  <2>. QED BY <1>3, <2>1, <2>2 DEF Drain, Cleared, Swept
<1>4. ASSUME NEW c \in Callers, NEW n \in Memories, Prepare(c, n)
      PROVE  Cleared(m)' /\ (Swept(m) => Swept(m)')
  <2>1. PICK f : /\ evidence' = RunEvidence(n, f)
                 /\ copies' = [copies EXCEPT ![n] = @ \cap Kept(n, f)]
                 /\ indexed' \subseteq indexed
                 /\ unswept' = unswept \cup Touched(n, f, RunEvidence(n, f))
    BY <1>4 DEF Prepare
  <2>2. \A e \in Cites[m] : evidence'[e] = "purged" /\ evidence'[e] = evidence[e]
    BY <1>a, <2>1, RunKeeps DEF Cleared
  <2>3. copies'[m] = {}
    BY <2>1 DEF Cleared, TypeOK
  <2>4. ({m} \cup Cites[m]) \cap Touched(n, f, RunEvidence(n, f)) = {}
    BY <1>a, <2>1, <2>2 DEF Touched, Cleared
  <2>. QED BY <2>1, <2>2, <2>3, <2>4 DEF Cleared, Swept
<1>5. CASE UNCHANGED <<evidence, copies, indexed>> /\ unswept' \subseteq unswept
  BY <1>5 DEF Cleared, Swept
<1>6. ASSUME NEW c \in Callers, Finalize(c) PROVE unswept' \subseteq unswept
  BY <1>6 DEF Finalize
<1>7. ASSUME NEW c \in Callers, FinalizeDies(c) PROVE unswept' \subseteq unswept
  BY <1>7 DEF FinalizeDies
<1>. QED
  BY <1>1, <1>2, <1>3, <1>4, <1>5, <1>6, <1>7
  DEF PNext, Run, Delete, Resume, Finalize, FinalizeDies, Publish,
      PublishRefused, Crash, Backup, vars, ledger

(* A run that verifies every store has cleared the memory.                 *)
LEMMA VerifiedIsCleared ==
  ASSUME TypeOK, Known, NEW c \in Callers, NEW m \in Memories,
         NEW f \in {0} \cup FailAt,
         memory[m] = "purged",
         evidence' = RunEvidence(m, f),
         copies' = [copies EXCEPT ![m] = @ \cap Kept(m, f)],
         indexed' = IF Reaches(f, 4) THEN indexed \ Gone(m, RunEvidence(m, f)) ELSE indexed,
         AllVerified(Outcome(m, f, RunEvidence(m, f)))
  PROVE  Cleared(m)'
<1>1. f = 0 /\ ~\E e \in Cites[m] : Shared(m, e)
  BY VerifiedRun
<1>2. Kept(m, f) = {}
  BY <1>1 DEF Kept, Reaches
<1>3. ASSUME NEW e \in Cites[m] PROVE evidence'[e] = "purged"
  <2>1. e \in Evidence /\ evidence[e] \in {"live", "purged"}
    BY PurgeAssumption DEF Known, TypeOK
  <2>. QED BY <1>1, <2>1 DEF RunEvidence, Reaches
<1>4. Gone(m, RunEvidence(m, f)) = {m} \cup Cites[m]
  BY <1>3 DEF Gone
<1>. QED BY <1>1, <1>2, <1>3, <1>4 DEF Cleared, TypeOK, Reaches

LEMMA RowsStep ==
  TypeOK /\ TypeOK' /\ Known /\ RowsAreTrue /\ [PNext]_vars => RowsAreTrue'
<1>. SUFFICES ASSUME TypeOK, TypeOK', Known, RowsAreTrue, [PNext]_vars
     PROVE  RowsAreTrue'
  OBVIOUS
<1>a. ASSUME NEW n \in Memories, NEW b \in Attempts,
             maint[n][b].state # "none", AllVerified(maint[n][b].outcomes)
      PROVE  /\ Cleared(n)' /\ (Swept(n) => Swept(n)')
             /\ maint[n][b].state = "completed" => Swept(n)'
  BY <1>a, ClearedStays DEF RowsAreTrue, Known
<1>1. ASSUME NEW c \in Callers, NEW m \in Memories, Prepare(c, m)
      PROVE  RowsAreTrue'
  <2>. DEFINE a == job[m].attempts + 1
  <2>1. a \in Attempts /\ memory[m] = "purged"
    BY <1>1 DEF Prepare, MayClaim, TypeOK, Attempts, Known
  <2>2. PICK f \in {0} \cup FailAt :
          /\ evidence' = RunEvidence(m, f)
          /\ copies' = [copies EXCEPT ![m] = @ \cap Kept(m, f)]
          /\ indexed' = IF Reaches(f, 4) THEN indexed \ Gone(m, RunEvidence(m, f))
                        ELSE indexed
          /\ maint' = [maint EXCEPT ![m][a] =
               [state |-> "pending", outcomes |-> Outcome(m, f, RunEvidence(m, f))]]
    BY <1>1 DEF Prepare
  <2>3. /\ maint'[m][a].state = "pending"
        /\ maint'[m][a].outcomes = Outcome(m, f, RunEvidence(m, f))
    BY <2>1, <2>2 DEF TypeOK
  <2>4. \A n \in Memories, b \in Attempts :
           n # m \/ b # a => maint'[n][b] = maint[n][b]
    BY <2>1, <2>2 DEF TypeOK
  <2>5. AllVerified(Outcome(m, f, RunEvidence(m, f))) => Cleared(m)'
    BY <2>1, <2>2, VerifiedIsCleared
  <2>. SUFFICES ASSUME NEW n \in Memories, NEW b \in Attempts,
                       maint'[n][b].state # "none", AllVerified(maint'[n][b].outcomes)
       PROVE  /\ Cleared(n)'
              /\ maint'[n][b].state = "completed" => Swept(n)'
    BY DEF RowsAreTrue, AllVerified
  <2>6. CASE n = m /\ b = a
    BY <2>3, <2>5, <2>6
  <2>7. CASE n # m \/ b # a
    BY <2>4, <2>7, <1>a
  <2>. QED BY <2>6, <2>7
<1>2. ASSUME NEW c \in Callers, Finalize(c) PROVE RowsAreTrue'
  <2>. DEFINE m == call[c].m
              a == call[c].attempt
  <2>1. m \in Memories /\ a \in Attempts /\ maint[m][a].state # "none"
    BY <1>2 DEF Finalize, TypeOK, Steps, Known
  <2>2. CASE maint' = maint
    BY <2>2, <1>a DEF RowsAreTrue, AllVerified
  <2>3. CASE maint' = [maint EXCEPT ![m][a].state = "completed"] /\ unswept' = {}
    <3>1. \A n \in Memories, b \in Attempts :
             /\ maint'[n][b].outcomes = maint[n][b].outcomes
             /\ maint'[n][b].state # "none" => maint[n][b].state # "none"
      BY <2>1, <2>3, CompletesRow
    <3>2. \A n \in Memories : Swept(n)'
      BY <2>3 DEF Swept
    <3>. QED BY <3>1, <3>2, <1>a DEF RowsAreTrue, AllVerified
  <2>. QED BY <1>2, <2>2, <2>3, Zenon DEF Finalize
<1>3. CASE maint' = maint
  BY <1>3, <1>a DEF RowsAreTrue, AllVerified
<1>. QED
  BY <1>1, <1>2, <1>3
  DEF PNext, Run, Capture, Admit, Delete, Drain, Resume, Publish,
      PublishRefused, FinalizeDies, Crash, Backup, vars, saga

LEMMA CompletedStep ==
  TypeOK /\ Known /\ RowsAreTrue /\ CompletedIsGone /\ [PNext]_vars
    => CompletedIsGone'
<1>. SUFFICES ASSUME TypeOK, Known, RowsAreTrue, CompletedIsGone, [PNext]_vars,
                     NEW n \in Memories, job'[n].status = "completed"
     PROVE  Cleared(n)' /\ Swept(n)'
  BY DEF CompletedIsGone, Cleared, Swept
<1>1. CASE job[n].status = "completed"
  <2>1. Cleared(n) /\ Swept(n) /\ memory[n] = "purged"
    BY <1>1 DEF CompletedIsGone, Cleared, Swept, Known
  <2>. QED BY <2>1, ClearedStays
<1>2. CASE job[n].status # "completed"
  <2>1. PICK c \in Callers : Publish(c) /\ n = call[c].m
    <3>1. ASSUME NEW m \in Memories, Delete(m) PROVE FALSE
      BY <3>1, <1>2 DEF Delete, TypeOK
    <3>2. ASSUME NEW c \in Callers, NEW m \in Memories, Prepare(c, m) PROVE FALSE
      BY <3>2, <1>2 DEF Prepare, TypeOK
    <3>3. ASSUME NEW c \in Callers, Publish(c), n # call[c].m PROVE FALSE
      <4>1. call[c].m \in Memories
        BY <3>3 DEF Publish, TypeOK, Steps
      <4>. QED BY <3>3, <4>1, <1>2, SettlesJob DEF Publish
    <3>4. CASE job' = job
      BY <3>4, <1>2
    <3>. QED
      BY <3>1, <3>2, <3>3, <3>4
      DEF PNext, Run, Capture, Admit, Drain, Resume, Finalize, PublishRefused,
          FinalizeDies, Crash, Backup, vars, saga
  <2>. DEFINE a == call[c].attempt
              out == maint[n][a].outcomes
  <2>2. a \in Attempts /\ out \in Outcomes
    BY <2>1 DEF Publish, TypeOK, Steps
  <2>3. job' = [job EXCEPT ![n].status = Verdict(out)] /\ maint[n][a].state = "completed"
    BY <2>1 DEF Publish, MayPublish
  <2>4. Verdict(out) = "completed"
    BY <2>3, SettlesJob
  <2>5. AllVerified(out)
    BY <2>2, <2>4, VerdictType
  <2>6. Cleared(n) /\ Swept(n) /\ memory[n] = "purged"
    BY <2>2, <2>3, <2>5 DEF RowsAreTrue, Known
  <2>. QED BY <2>6, ClearedStays
<1>. QED BY <1>1, <1>2

-----------------------------------------------------------------------------
LEMMA InvInit == PInit => PInv
<1>. SUFFICES ASSUME PInit PROVE PInv
  OBVIOUS
<1>1. GuardIsRunningJob
  BY DEF PInit, GuardIsRunningJob
<1>2. LiveIsServed
  BY PurgeAssumption DEF PInit, LiveIsServed
<1>3. RowsAreTrue /\ CompletedIsGone
  BY DEF PInit, RowsAreTrue, CompletedIsGone, NoRow
<1>. QED BY <1>1, <1>2, <1>3, TypeInit, KnownInit DEF PInv

LEMMA InvStep == PInv /\ [PNext]_vars => PInv'
BY TypeStep, KnownStep, GuardStep, ServedStep, RowsStep, CompletedStep DEF PInv

THEOREM Invariance == PSpec => []PInv
BY InvInit, InvStep, PTL DEF PSpec

(* The tables, the files and the calls have their types.                   *)
THEOREM TypeCorrect == PSpec => []TypeOK
<1>1. PInv => TypeOK
  BY DEF PInv
<1>. QED BY <1>1, Invariance, PTL

(* The redaction guard is the running job's, and there is one at most: the *)
(* append-only tables yield to it alone, through deaths between any steps. *)
THEOREM GuardSafe == PSpec => []GuardIsRunningJob
<1>1. PInv => GuardIsRunningJob
  BY DEF PInv
<1>. QED BY <1>1, Invariance, PTL

(* No purge takes the evidence of a live memory or the blob of live        *)
(* evidence, whoever shares them and wherever a run fails or dies.         *)
THEOREM LiveSafe == PSpec => []LiveIsServed
<1>1. PInv => LiveIsServed
  BY DEF PInv
<1>. QED BY <1>1, Invariance, PTL

(* A job that is completed has left nothing in the live stores, even when  *)
(* the run that published resumed at the row of an earlier attempt.        *)
THEOREM PurgeSafe == PSpec => []CompletedIsGone
<1>1. PInv => CompletedIsGone
  BY DEF PInv
<1>. QED BY <1>1, Invariance, PTL

-----------------------------------------------------------------------------
(* Blob files and the audit's frontier *)

(* Only a run leaves an intent, and it has spent an attempt.               *)
Tried ==
  \A m \in Memories, k \in Contents :
    intent[m][k] # "none" => job[m].status # "none" /\ job[m].attempts > 0

(* A tombstone has an epoch of its own, and the frontier is at none that   *)
(* is still to come.                                                       *)
Epochs ==
  /\ frontier.epoch <= epoch
  /\ \A m \in Memories : /\ job[m].epoch <= epoch
                         /\ job[m].status = "none" <=> job[m].epoch = 0
  /\ \A m, n \in Memories : job[m].epoch = job[n].epoch /\ job[m].epoch > 0 => m = n

SInv == PInv /\ Tried /\ FilesAreKnown /\ Epochs /\ AuditCoversNewest

(* The three assignments to jobs, spelled out.                             *)
LEMMA DeletesJob ==
  ASSUME TypeOK, NEW m \in Memories, Delete(m), NEW n \in Memories
  PROVE  job'[n] = IF n = m THEN [status |-> "pending", attempts |-> 0, epoch |-> epoch + 1]
                   ELSE job[n]
BY DEF Delete, TypeOK

LEMMA ClaimsJob ==
  ASSUME TypeOK, NEW c \in Callers, NEW m \in Memories, Prepare(c, m), NEW n \in Memories
  PROVE  /\ job'[n].epoch = job[n].epoch
         /\ job'[n].attempts = IF n = m THEN job[n].attempts + 1 ELSE job[n].attempts
         /\ job'[n].status = IF n = m THEN "running" ELSE job[n].status
<1>1. job' = [job EXCEPT ![m] = [job[m] EXCEPT !.status = "running",
                                              !.attempts = job[m].attempts + 1]]
  BY Zenon DEF Prepare
<1>2. job[m] \in JobRow
  BY DEF TypeOK, JobRow
<1>. QED BY <1>1, <1>2 DEF TypeOK, JobRow

LEMMA PublishesJob ==
  ASSUME TypeOK, NEW c \in Callers, Publish(c), NEW n \in Memories
  PROVE  LET m == call[c].m
             out == maint[m][call[c].attempt].outcomes
         IN /\ m \in Memories /\ out \in Outcomes
            /\ job'[n].epoch = job[n].epoch /\ job'[n].attempts = job[n].attempts
            /\ IF n = m THEN job[n].status = "running" /\ job'[n].status = Verdict(out)
               ELSE job'[n] = job[n]
<1>. DEFINE m == call[c].m
            out == maint[m][call[c].attempt].outcomes
            v == Verdict(out)
<1>1. m \in Memories /\ out \in Outcomes /\ job[m].status = "running"
  BY DEF Publish, MayPublish, TypeOK, Steps
<1>2. job' = [job EXCEPT ![m] = [job[m] EXCEPT !.status = v]]
  BY Zenon DEF Publish
<1>3. job[m] \in JobRow
  BY <1>1 DEF TypeOK, JobRow
<1>4. /\ job'[n].epoch = job[n].epoch /\ job'[n].attempts = job[n].attempts
      /\ n = m => job'[n].status = v
      /\ n # m => job'[n] = job[n]
  <2>. HIDE DEF m, v
  <2>. QED BY <1>1, <1>2, <1>3 DEF TypeOK, JobRow
<1>. QED BY <1>1, <1>4

(* What completing the intents of D does.                                  *)
LEMMA DoneIntents ==
  ASSUME TypeOK, NEW m \in Memories, NEW D, Done(m, D),
         NEW n \in Memories, NEW k \in Contents
  PROVE  intent'[n][k] = IF n = m /\ k \in D THEN "completed" ELSE intent[n][k]
BY DEF Done, TypeOK

(* A run that dies removes files, then completes their intents.            *)
LEMMA DiesMidway ==
  ASSUME TypeOK, NEW c \in Callers, FinalizeDies(c)
  PROVE  \E U \in SUBSET ToUnlink(call[c].m), D \in SUBSET ToUnlink(call[c].m) :
           /\ call[c].m \in Memories /\ D \subseteq U
           /\ rows' = rows \ U /\ files' = files \ U /\ Done(call[c].m, D)
BY DEF FinalizeDies, Interrupted, TypeOK, Steps

LEMMA TriedStep == TypeOK /\ TypeOK' /\ Known /\ Tried /\ [PNext]_vars => Tried'
<1>. SUFFICES ASSUME TypeOK, TypeOK', Known, Tried, [PNext]_vars PROVE Tried'
  OBVIOUS
<1>1. ASSUME NEW m \in Memories, Delete(m) PROVE Tried'
  <2>1. job[m].status = "none"
    BY <1>1 DEF Delete, Known, TypeOK
  <2>. QED BY <1>1, <2>1, DeletesJob DEF Tried, Delete, blobs
<1>2. ASSUME NEW c \in Callers, NEW m \in Memories, Prepare(c, m) PROVE Tried'
  <2>1. job[m].attempts \in Nat
    BY DEF TypeOK
  <2>2. \A n \in Memories \ {m}, k \in Contents : intent'[n][k] = intent[n][k]
    BY <1>2 DEF Prepare, TypeOK
  <2>. QED BY <1>2, <2>1, <2>2, ClaimsJob DEF Tried
<1>3. ASSUME NEW m \in Memories, NEW D, D \subseteq ToUnlink(m), Done(m, D), job' = job
      PROVE  Tried'
  <2>1. \A n \in Memories, k \in Contents :
           intent'[n][k] # "none" => intent[n][k] # "none"
    BY <1>3, DoneIntents DEF ToUnlink
  <2>. QED BY <1>3, <2>1 DEF Tried
<1>4. ASSUME NEW c \in Callers, Finalize(c) PROVE Tried'
  <2>1. call[c].m \in Memories /\ job' = job
    BY <1>4 DEF Finalize, TypeOK, Steps
  <2>2. intent' = intent \/ Done(call[c].m, ToUnlink(call[c].m))
    BY <1>4 DEF Finalize, blobs
  <2>. QED BY <1>3, <2>1, <2>2 DEF Tried
<1>5. ASSUME NEW c \in Callers, FinalizeDies(c) PROVE Tried'
  BY <1>3, <1>5, DiesMidway DEF FinalizeDies, saga
<1>6. ASSUME NEW c \in Callers, Publish(c) PROVE Tried'
  <2>1. \A n \in Memories : /\ job'[n].attempts = job[n].attempts
                            /\ job[n].status # "none" => job'[n].status # "none"
    BY <1>6, PublishesJob, VerdictType
  <2>. QED BY <1>6, <2>1 DEF Tried, Publish, blobs
<1>7. CASE UNCHANGED <<intent, job>>
  BY <1>7 DEF Tried
<1>. QED
  BY <1>1, <1>2, <1>4, <1>5, <1>6, <1>7
  DEF PNext, Run, Capture, Admit, Drain, Resume, PublishRefused, Crash, Backup,
      vars, blobs, saga

LEMMA FilesStep ==
  TypeOK /\ TypeOK' /\ Known /\ Tried /\ FilesAreKnown /\ [PNext]_vars => FilesAreKnown'
<1>. SUFFICES ASSUME TypeOK, TypeOK', Known, Tried, FilesAreKnown, [PNext]_vars,
                     NEW k \in files'
     PROVE  \/ k \in rows' \/ PendingIntent(k)'
            \/ \E m \in Memories : intent'[m][k] = "completed" /\ job'[m].attempts > 1
  BY DEF FilesAreKnown
<1>. DEFINE Goal == \/ k \in rows' \/ PendingIntent(k)'
                    \/ \E m \in Memories : intent'[m][k] = "completed" /\ job'[m].attempts > 1
<1>a. k \in Contents
  BY DEF TypeOK
<1>b. k \in files => \/ k \in rows \/ PendingIntent(k)
                     \/ \E m \in Memories : intent[m][k] = "completed" /\ job[m].attempts > 1
  BY DEF FilesAreKnown
<1>1. ASSUME NEW e \in Evidence, Capture(e) PROVE Goal
  <2>1. UNCHANGED <<intent, job>> /\ rows \subseteq rows'
    BY <1>1 DEF Capture, saga
  <2>2. k \notin files => k \in rows \/ k \in Blocked \/ k \in rows'
    BY <1>1 DEF Capture
  <2>. QED BY <1>b, <2>1, <2>2 DEF PendingIntent, Blocked
<1>2. ASSUME NEW m \in Memories, Delete(m) PROVE Goal
  <2>1. job[m].status = "none"
    BY <1>2 DEF Delete, Known, TypeOK
  <2>2. intent[m][k] = "none"
    BY <1>a, <2>1 DEF Tried
  <2>3. \A n \in Memories \ {m} : job'[n] = job[n]
    BY <1>2, DeletesJob
  <2>. QED BY <1>2, <1>b, <2>2, <2>3 DEF Delete, blobs, PendingIntent
<1>3. ASSUME NEW c \in Callers, NEW m \in Memories, Prepare(c, m) PROVE Goal
  <2>1. PICK F : /\ rows' = rows \ F
                 /\ intent' = [intent EXCEPT ![m] =
                      [x \in Contents |-> IF x \in F /\ @[x] = "none" THEN "pending" ELSE @[x]]]
    BY <1>3 DEF Prepare
  <2>2. \A n \in Memories : intent'[n][k] =
           IF n = m /\ k \in F /\ intent[n][k] = "none" THEN "pending" ELSE intent[n][k]
    BY <1>a, <2>1 DEF TypeOK
  <2>3. k \in files /\ \A n \in Memories : job[n].attempts \in Nat
    BY <1>3 DEF Prepare, TypeOK
  <2>4. \A n \in Memories : job'[n].attempts = IF n = m THEN job[n].attempts + 1
                                                ELSE job[n].attempts
    BY <1>3, ClaimsJob
  <2>5. CASE k \in F
    <3>1. intent[m][k] \in {"none", "pending", "completed"}
      BY <1>a DEF TypeOK
    <3>2. intent[m][k] = "completed" => job'[m].attempts > 1
      BY <1>a, <2>3, <2>4 DEF Tried
    <3>. QED BY <2>2, <2>5, <3>1, <3>2 DEF PendingIntent
  <2>6. CASE k \notin F
    <3>1. \A n \in Memories : /\ intent'[n][k] = intent[n][k]
                              /\ job[n].attempts > 1 => job'[n].attempts > 1
      BY <2>2, <2>3, <2>4, <2>6
    <3>. QED BY <1>b, <2>1, <2>3, <2>6, <3>1 DEF PendingIntent
  <2>. QED BY <2>5, <2>6
<1>4. ASSUME NEW m \in Memories, NEW U, NEW D, D \subseteq U,
             rows' = rows \ U, files' = files \ U, Done(m, D), job' = job
      PROVE  Goal
  <2>1. \A n \in Memories : intent'[n][k] = intent[n][k]
    BY <1>a, <1>4, DoneIntents
  <2>. QED BY <1>b, <1>4, <2>1 DEF PendingIntent
<1>5. ASSUME NEW c \in Callers, Finalize(c) PROVE Goal
  <2>. DEFINE m == call[c].m
  <2>1. m \in Memories /\ job' = job
    BY <1>5 DEF Finalize, TypeOK, Steps
  <2>2. \/ UNCHANGED blobs
        \/ /\ rows' = rows \ ToUnlink(m) /\ files' = files \ ToUnlink(m)
           /\ Done(m, ToUnlink(m))
    BY <1>5, Zenon DEF Finalize
  <2>3. CASE UNCHANGED blobs
    BY <1>b, <2>1, <2>3 DEF blobs, PendingIntent
  <2>4. CASE ~UNCHANGED blobs
    <3>. DEFINE X == ToUnlink(m)
    <3>1. rows' = rows \ X /\ files' = files \ X /\ Done(m, X)
      BY <2>2, <2>4
    <3>. HIDE DEF m, X
    <3>. QED BY <1>4, <2>1, <3>1
  <2>. QED BY <2>3, <2>4
<1>6. ASSUME NEW c \in Callers, FinalizeDies(c) PROVE Goal
  BY <1>4, <1>6, DiesMidway DEF FinalizeDies, saga
<1>7. ASSUME NEW c \in Callers, Publish(c) PROVE Goal
  <2>1. UNCHANGED blobs /\ \A n \in Memories : job'[n].attempts = job[n].attempts
    BY <1>7, PublishesJob DEF Publish
  <2>. QED BY <1>b, <2>1 DEF blobs, PendingIntent
<1>8. CASE UNCHANGED <<blobs, job>>
  BY <1>b, <1>8 DEF blobs, PendingIntent
<1>. QED
  BY <1>1, <1>2, <1>3, <1>5, <1>6, <1>7, <1>8
  DEF PNext, Run, Admit, Drain, Resume, PublishRefused, Crash, Backup, vars, blobs, saga

LEMMA EpochsStep == TypeOK /\ TypeOK' /\ Known /\ Epochs /\ [PNext]_vars => Epochs'
<1>. SUFFICES ASSUME TypeOK, TypeOK', Known, Epochs, [PNext]_vars PROVE Epochs'
  OBVIOUS
<1>a. epoch \in Nat /\ frontier.epoch \in Nat /\ \A m \in Memories : job[m].epoch \in Nat
  BY DEF TypeOK
<1>1. ASSUME NEW m \in Memories, Delete(m) PROVE Epochs'
  <2>1. \A n \in Memories :
           /\ job'[n].epoch = IF n = m THEN epoch + 1 ELSE job[n].epoch
           /\ job'[n].status = IF n = m THEN "pending" ELSE job[n].status
    BY <1>1, DeletesJob
  <2>2. epoch' = epoch + 1 /\ frontier' = frontier
    BY <1>1 DEF Delete
  <2>. QED BY <1>a, <2>1, <2>2 DEF Epochs
<1>2. ASSUME NEW c \in Callers, NEW m \in Memories, Prepare(c, m) PROVE Epochs'
  <2>1. \A n \in Memories : /\ job'[n].epoch = job[n].epoch
                            /\ job'[n].status = "none" <=> job[n].status = "none"
    <3>1. job[m].status # "none"
      BY <1>2 DEF Prepare, MayClaim
    <3>. QED BY <1>2, <3>1, ClaimsJob
  <2>2. UNCHANGED <<epoch, frontier>>
    BY <1>2 DEF Prepare
  <2>. QED BY <2>1, <2>2 DEF Epochs
<1>3. ASSUME NEW c \in Callers, Publish(c) PROVE Epochs'
  <2>. DEFINE m == call[c].m
  <2>1. m \in Memories
    BY <1>3 DEF Publish, TypeOK, Steps
  <2>2. \A n \in Memories : /\ job'[n].epoch = job[n].epoch
                            /\ job'[n].status = "none" <=> job[n].status = "none"
    BY <1>3, PublishesJob, VerdictType
  <2>3. epoch' = epoch /\ frontier'.epoch \in {frontier.epoch, job[m].epoch}
    BY <1>3 DEF Publish, Advance
  <2>. QED BY <2>1, <2>2, <2>3 DEF Epochs
<1>4. CASE UNCHANGED <<job, epoch, frontier>>
  BY <1>4 DEF Epochs
<1>. QED
  BY <1>1, <1>2, <1>3, <1>4
  DEF PNext, Run, Capture, Admit, Drain, Resume, Finalize, PublishRefused,
      FinalizeDies, Crash, Backup, vars, saga

LEMMA AuditStep ==
  TypeOK /\ TypeOK' /\ Known /\ Epochs /\ AuditCoversNewest /\ [PNext]_vars
    => AuditCoversNewest'
<1>. SUFFICES ASSUME TypeOK, TypeOK', Known, Epochs, AuditCoversNewest, [PNext]_vars,
                     AuditComplete', NEW n \in Memories, job'[n].epoch = epoch'
     PROVE  job'[n].status = "completed"
  BY DEF AuditCoversNewest
<1>a. epoch \in Nat /\ frontier.epoch \in Nat /\ \A m \in Memories : job[m].epoch \in Nat
  BY DEF TypeOK
<1>b. AuditComplete /\ job[n].epoch = epoch => job[n].status = "completed"
  BY DEF AuditCoversNewest
<1>1. ASSUME NEW m \in Memories, Delete(m) PROVE FALSE
  BY <1>a, <1>1 DEF Delete, AuditComplete, Epochs
<1>2. ASSUME NEW c \in Callers, NEW m \in Memories, Prepare(c, m)
      PROVE  job'[n].status = "completed"
  <2>1. AuditComplete
    BY <1>2 DEF Prepare, AuditComplete
  <2>2. epoch' = epoch
    BY <1>2 DEF Prepare
  <2>3. job[n].status = "completed"
    BY <1>2, <1>b, <2>1, <2>2, ClaimsJob
  <2>4. n # m
    BY <1>2, <2>3 DEF Prepare, MayClaim
  <2>. QED BY <1>2, <2>3, <2>4, ClaimsJob
<1>3. ASSUME NEW c \in Callers, Publish(c) PROVE job'[n].status = "completed"
  <2>. DEFINE m == call[c].m
              out == maint[m][call[c].attempt].outcomes
  <2>1. /\ epoch' = epoch /\ m \in Memories /\ out \in Outcomes
        /\ frontier' = IF job[m].epoch < epoch THEN frontier
                       ELSE [epoch |-> job[m].epoch, debt |-> Indebted(out)]
    BY <1>3, PublishesJob DEF Publish, Advance
  <2>2. job[n].epoch = epoch
    BY <1>3, <2>1, PublishesJob
  <2>3. CASE n = m
    <3>1. ~Indebted(out)
      BY <1>a, <2>1, <2>2, <2>3 DEF AuditComplete
    <3>2. Verdict(out) = "completed"
      <4>1. \A i \in DOMAIN out : out[i] = "verified"
        BY <3>1 DEF Indebted
      <4>. QED BY <4>1 DEF Verdict
    <3>. QED BY <1>3, <2>3, <3>2, PublishesJob
  <2>4. CASE n # m
    <3>1. job[m].epoch < epoch
      BY <1>a, <2>1, <2>2, <2>4 DEF AuditComplete, Epochs
    <3>2. AuditComplete
      BY <2>1, <3>1 DEF AuditComplete
    <3>. QED BY <1>3, <1>b, <2>2, <2>4, <3>2, PublishesJob
  <2>. QED BY <2>3, <2>4
<1>4. CASE UNCHANGED <<job, epoch, frontier>>
  BY <1>4, <1>b DEF AuditComplete
<1>. QED
  BY <1>1, <1>2, <1>3, <1>4
  DEF PNext, Run, Capture, Admit, Drain, Resume, Finalize, PublishRefused,
      FinalizeDies, Crash, Backup, vars, saga

LEMMA SagaInit == PInit => SInv
<1>. SUFFICES ASSUME PInit PROVE SInv
  OBVIOUS
<1>1. Tried /\ FilesAreKnown /\ AuditCoversNewest
  BY DEF PInit, Tried, FilesAreKnown, AuditCoversNewest, AuditComplete
<1>2. Epochs
  BY DEF PInit, Epochs
<1>. QED BY <1>1, <1>2, InvInit DEF SInv

LEMMA SagaStep == SInv /\ [PNext]_vars => SInv'
BY InvStep, TriedStep, FilesStep, EpochsStep, AuditStep DEF SInv, PInv

(* No file of a blob is forgotten, wherever a run is cut off, except by a  *)
(* job that is run again; and a complete audit means that the newest       *)
(* deletion's purge is completed, in whatever order the jobs are run.      *)
THEOREM SagaIsSound == PSpec => []SagaSound
<1>1. SInv => SagaSound
  BY DEF SInv, PInv, SagaSound
<1>. QED BY <1>1, SagaInit, SagaStep, PTL DEF PSpec
=============================================================================
