---------------------------- MODULE LearningReleases ---------------------------
(* One release slot of the learning lab: the candidates proposed for it,   *)
(* the transitions, evaluations and canaries that lead to a release, the   *)
(* releases and rollbacks that move its pointer, and the pause that must   *)
(* stop all of it.  The slot holds recall policies, or changes of one      *)
(* memory; then a release also writes a revision of that memory.           *)
(*                                                                         *)
(* Every operation reads the ledger, verifies what the user signed, and    *)
(* writes in a later transaction: between the two the ledger may move, and *)
(* the answer of a write may be lost.  lift, trial and pausing are a       *)
(* transition, a canary and a pause on their way.                          *)
EXTENDS Integers, FiniteSets, SequencesExt

CONSTANTS
  Candidates,     \* 1 .. n, proposed in this order
  Requests,       \* 1 .. n, the signed releases and rollbacks, in this order
  MaxEpoch,       \* how often control is changed
  MaxRevisions,   \* revisions of the memory before its owner stops correcting
  MaxFlights      \* calls of one request that run at once

LearningAssumption ==
  /\ IsFiniteSet(Candidates) /\ Candidates = 1 .. Cardinality(Candidates)
  /\ IsFiniteSet(Requests) /\ Requests = 1 .. Cardinality(Requests)
  /\ {MaxEpoch, MaxRevisions, MaxFlights} \subseteq Nat

VARIABLES holds,          \* what the slot holds
          state, target,  \* of each candidate: its state, the revision it was made for
          evaluated,      \* candidates with a passed, untainted evaluation
          canary,         \* of each candidate: the canary that was written
          invalid,        \* candidates whose memory was revoked or purged
          control,        \* learning_control_state
          pointer,        \* learning_release_pointers
          rows,           \* learning_release_versions; a release is known by its number
          revs, alive,    \* the memory: who wrote each revision and from which; its lifecycle
          asked, flights, \* of each request: what was signed, its calls past their checks
          written,        \* of each request: the row it wrote
          lift, trial, pausing

ledgerVars == <<state, target, evaluated, canary, invalid, pointer, rows>>
memoryVars == <<revs, alive>>
callVars == <<asked, flights, written>>
vars == <<holds, ledgerVars, memoryVars, callVars, control, lift, trial, pausing>>

None == 0
Transitions ==
  { <<"none", "proposed">>, <<"proposed", "quarantined">>, <<"quarantined", "evaluating">>,
    <<"evaluating", "approved_for_canary">>, <<"approved_for_canary", "canary">>,
    <<"canary", "released">>, <<"released", "rolled_back">>,
    <<"proposed", "rejected">>, <<"quarantined", "rejected">>, <<"evaluating", "rejected">>,
    <<"approved_for_canary", "rejected">>, <<"canary", "rejected">> }
States == {t[1] : t \in Transitions} \cup {t[2] : t \in Transitions}

NoCanary == [epoch |-> 0, base |-> None, passed |-> FALSE]
NoLift == [cand |-> None, from |-> "none", to |-> "none", rev |-> 0]
NoTrial == [cand |-> None, epoch |-> 0, base |-> None, rev |-> 0, verdict |-> "running"]
NoPause == [phase |-> "none", epoch |-> 0, rev |-> 0, seen |-> 0, corpus |-> <<0, "live">>]
NotAsked == [action |-> "none", cand |-> None, restored |-> None, base |-> None,
             rev |-> 0, epoch |-> 0]

Corpus == <<Len(revs), alive>>
Paused == control.status = "paused"

(* The frontier a pause recorded is compared on resume: whatever changed   *)
(* since then is drift.                                                    *)
Moves == control' = [control EXCEPT !.drift = @ \/ Paused]

Init ==
  /\ holds \in {"policy", "memory"}
  /\ state = [c \in Candidates |-> "none"]
  /\ target = [c \in Candidates |-> 0]
  /\ evaluated = {}
  /\ canary = [c \in Candidates |-> NoCanary]
  /\ invalid = {}
  /\ control = [status |-> "active", epoch |-> 0, abandoned |-> FALSE, drift |-> FALSE]
  /\ pointer = [active |-> None, rev |-> 0]
  /\ rows = <<>>
  /\ revs = <<[by |-> None, source |-> 0]>> /\ alive = "live"
  /\ asked = [r \in Requests |-> NotAsked]
  /\ flights = [r \in Requests |-> 0]
  /\ written = [r \in Requests |-> None]
  /\ lift = NoLift /\ trial = NoTrial /\ pausing = NoPause

-----------------------------------------------------------------------------
(* Proposals and the lifecycle's own transitions: read, then written with  *)
(* a compare-and-set on the state that was read, and on nothing else.      *)
MayLift(c, to) ==
  /\ ~Paused
  /\ IF to = "proposed"
       THEN \A d \in 1 .. c - 1 : state[d] # "none"
       ELSE /\ to \in {"quarantined", "evaluating", "approved_for_canary", "rejected"}
            /\ c \notin invalid
            /\ to = "approved_for_canary" => c \in evaluated

ReadForLift(c, to) ==
  /\ lift = NoLift
  /\ <<state[c], to>> \in Transitions
  /\ MayLift(c, to)
  /\ to = "proposed" /\ holds = "memory" => alive = "live"
  /\ lift' = [cand |-> c, from |-> state[c], to |-> to,
              rev |-> IF to = "proposed" /\ holds = "memory" THEN Len(revs) ELSE 0]
  /\ UNCHANGED <<holds, ledgerVars, memoryVars, callVars, control, trial, pausing>>

LiftLands ==
  LET c == lift.cand IN
  /\ state[c] = lift.from
  /\ lift.rev # 0 => alive = "live" /\ lift.rev = Len(revs)

WriteLift ==
  /\ lift # NoLift
  /\ IF LiftLands
       THEN /\ state' = [state EXCEPT ![lift.cand] = lift.to]
            /\ target' = [target EXCEPT ![lift.cand] = IF lift.to = "proposed" THEN lift.rev ELSE @]
            /\ Moves
       ELSE UNCHANGED <<state, target, control>>
  /\ lift' = NoLift
  /\ UNCHANGED <<holds, evaluated, canary, invalid, pointer, rows, memoryVars, callVars,
                 trial, pausing>>

(* An evaluation looks neither at the candidate's state nor at control; it *)
(* is counted when it passed and nothing contaminated it.                  *)
MayEvaluate(c) == state[c] # "none" /\ c \notin invalid

Evaluate(c) ==
  /\ MayEvaluate(c) /\ c \notin evaluated
  /\ evaluated' = evaluated \cup {c}
  /\ Moves
  /\ UNCHANGED <<holds, state, target, canary, invalid, pointer, rows, memoryVars, callVars,
                 lift, trial, pausing>>

-----------------------------------------------------------------------------
(* A canary: read and authorised, run and judged, written.  A pause in the *)
(* meantime freezes it, and only the frozen result may still be written.   *)
StartCanary(c) ==
  /\ trial = NoTrial
  /\ state[c] = "approved_for_canary" /\ c \notin invalid /\ c \in evaluated
  /\ ~Paused
  /\ trial' = [cand |-> c, epoch |-> control.epoch, base |-> pointer.active,
               rev |-> pointer.rev, verdict |-> "running"]
  /\ UNCHANGED <<holds, ledgerVars, memoryVars, callVars, control, lift, pausing>>

CanaryDrifted == control.epoch # trial.epoch \/ pointer.rev # trial.rev

Verdicts ==
  IF Paused THEN {"frozen"} ELSE IF CanaryDrifted THEN {"failed"} ELSE {"passed", "failed"}

JudgeCanary ==
  /\ trial # NoTrial /\ trial.verdict = "running"
  /\ \E v \in Verdicts : trial' = [trial EXCEPT !.verdict = v]
  /\ UNCHANGED <<holds, ledgerVars, memoryVars, callVars, control, lift, pausing>>

CanaryLands ==
  /\ state[trial.cand] = "approved_for_canary"
  /\ \/ ~Paused /\ control.epoch = trial.epoch
     \/ Paused /\ control.epoch = trial.epoch + 1 /\ trial.verdict = "frozen"

WriteCanary ==
  /\ trial # NoTrial /\ trial.verdict # "running"
  /\ IF CanaryLands
       THEN /\ state' = [state EXCEPT ![trial.cand] = "canary"]
            /\ canary' = [canary EXCEPT ![trial.cand] =
                 [epoch |-> trial.epoch, base |-> trial.base, passed |-> trial.verdict = "passed"]]
            /\ Moves
       ELSE UNCHANGED <<state, canary, control>>
  /\ trial' = NoTrial
  /\ UNCHANGED <<holds, target, evaluated, invalid, pointer, rows, memoryVars, callVars,
                 lift, pausing>>

-----------------------------------------------------------------------------
(* A release or rollback: signed over what the user saw, which names the   *)
(* candidate's receipts, checked by the release manager, written by the    *)
(* repository.                                                             *)
Sign(r) ==
  /\ asked[r] = NotAsked /\ \A q \in 1 .. r - 1 : asked[q] # NotAsked
  /\ \E c \in Candidates, action \in {"release", "rollback"}, restored \in 0 .. Len(rows) :
       /\ c \in evaluated /\ canary[c].passed
       /\ action = "release" => restored = None
       /\ action = "rollback" => pointer.active # None /\ rows[pointer.active].cand = c
       /\ asked' = [asked EXCEPT ![r] =
            [action |-> action, cand |-> c, restored |-> restored,
             base |-> pointer.active, rev |-> pointer.rev, epoch |-> control.epoch]]
  /\ UNCHANGED <<holds, ledgerVars, memoryVars, flights, written, control, lift, trial, pausing>>

(* What the release manager asks of the ledger it read.                    *)
ManagerAccepts(a) ==
  /\ a.cand \notin invalid
  /\ a.epoch = control.epoch /\ a.rev = pointer.rev /\ a.base = pointer.active
  /\ a.action = "release" =>
       /\ state[a.cand] = "canary"
       /\ a.cand \in evaluated /\ canary[a.cand].passed
       /\ ~Paused
       /\ control.abandoned => canary[a.cand].epoch >= control.epoch
  /\ a.action = "rollback" =>
       /\ state[a.cand] = "released"
       /\ pointer.active # None /\ rows[pointer.active].cand = a.cand
       /\ a.restored # None =>
            rows[a.restored].action = "release" /\ rows[a.restored].cand \notin invalid

Check(r) ==
  /\ asked[r] # NotAsked /\ written[r] = None
  /\ flights[r] < MaxFlights
  /\ ManagerAccepts(asked[r])
  /\ flights' = [flights EXCEPT ![r] = @ + 1]
  /\ UNCHANGED <<holds, ledgerVars, memoryVars, asked, written, control, lift, trial, pausing>>

(* The revision a release or rollback copies, and whether the memory still *)
(* stands where that expects it: at the candidate's target, or at the      *)
(* revision the active release is known to have written.                   *)
Source(a) == IF a.restored = None THEN target[a.cand] ELSE target[rows[a.restored].cand]

EffectLands(a) ==
  /\ alive = "live"
  /\ IF a.action = "release"
       THEN target[a.cand] = Len(revs)
       ELSE Last(revs) = [by |-> a.base, source |-> target[rows[a.base].cand]]

(* What the repository asks inside the transaction.                        *)
StorageAccepts(a) ==
  /\ a.epoch = control.epoch
  /\ a.action = "release" => ~Paused
  /\ a.rev = pointer.rev /\ a.base = pointer.active
  /\ a.restored # None => rows[a.restored].cand \notin invalid
  /\ holds = "memory" => EffectLands(a)
  /\ state[a.cand] = (IF a.action = "release" THEN "canary" ELSE "released")

Row(a) ==
  [action |-> a.action, cand |-> a.cand, prev |-> a.base, restored |-> a.restored]
\* The mutated form: the revision the next call compares with stays.
PointerKeepsRevision(a, n) ==
  [active |-> IF a.action = "release" THEN n ELSE a.restored, rev |-> a.rev]
NextPointer(a, n) ==
  [active |-> IF a.action = "release" THEN n ELSE a.restored, rev |-> a.rev + 1]
Learned(a, n) ==
  IF holds = "memory" THEN Append(revs, [by |-> n, source |-> Source(a)]) ELSE revs

Apply(r) ==
  LET a == asked[r]
      n == Len(rows) + 1 IN
  /\ rows' = Append(rows, Row(a))
  /\ pointer' = NextPointer(a, n)
  /\ state' = [state EXCEPT ![a.cand] = IF a.action = "release" THEN "released" ELSE "rolled_back"]
  /\ written' = [written EXCEPT ![r] = n]
  /\ revs' = Learned(a, n)
  /\ Moves

(* A key that was written answers again with what it wrote.                *)
Write(r) ==
  /\ flights[r] > 0
  /\ flights' = [flights EXCEPT ![r] = @ - 1]
  /\ IF written[r] = None /\ StorageAccepts(asked[r])
       THEN Apply(r)
       ELSE UNCHANGED <<rows, pointer, state, written, revs, control>>
  /\ UNCHANGED <<holds, target, evaluated, canary, invalid, alive, asked, lift, trial, pausing>>

-----------------------------------------------------------------------------
(* Pause and resume.  A pause is signed over one release revision; one     *)
(* release may complete before it, and the pause says so.                  *)
SignPause ==
  /\ pausing = NoPause /\ ~Paused /\ control.epoch < MaxEpoch
  /\ pausing' = [phase |-> "signed", epoch |-> control.epoch, rev |-> pointer.rev,
                 seen |-> pointer.rev, corpus |-> Corpus]
  /\ UNCHANGED <<holds, ledgerVars, memoryVars, callVars, control, lift, trial>>

PauseStillHolds ==
  /\ pausing.epoch = control.epoch /\ ~Paused
  /\ pausing.corpus = Corpus
  /\ pointer.rev \in {pausing.rev, pausing.rev + 1}

ReadForPause ==
  /\ pausing.phase \in {"signed", "conflict"}
  /\ PauseStillHolds
  /\ pausing' = [pausing EXCEPT !.phase = IF @ = "signed" THEN "read" ELSE "again",
                                !.seen = pointer.rev]
  /\ UNCHANGED <<holds, ledgerVars, memoryVars, callVars, control, lift, trial>>

ControlUnmoved == control.epoch = pausing.epoch /\ pointer.rev = pausing.seen

WritePause ==
  /\ pausing.phase \in {"read", "again"}
  /\ IF ControlUnmoved
       THEN /\ control' = [status |-> "paused", epoch |-> control.epoch + 1,
                           abandoned |-> FALSE, drift |-> FALSE]
            /\ pausing' = NoPause
       ELSE /\ pausing' = IF pausing.phase = "read" /\ pointer.rev > pausing.seen
                            THEN [pausing EXCEPT !.phase = "conflict"] ELSE NoPause
            /\ UNCHANGED control
  /\ UNCHANGED <<holds, ledgerVars, memoryVars, callVars, lift, trial>>

(* Resuming after drift needs the user's word that work in flight is       *)
(* abandoned.                                                              *)
Resume ==
  /\ Paused /\ control.epoch < MaxEpoch
  /\ control' = [status |-> "active", epoch |-> control.epoch + 1,
                 abandoned |-> control.drift, drift |-> FALSE]
  /\ UNCHANGED <<holds, ledgerVars, memoryVars, callVars, lift, trial, pausing>>

-----------------------------------------------------------------------------
(* The memory's other writers: a correction, which also brings a revoked   *)
(* memory back, a revocation and a deletion.                               *)
Correct ==
  /\ holds = "memory" /\ alive # "purged" /\ Len(revs) < MaxRevisions
  /\ revs' = Append(revs, [by |-> None, source |-> 0]) /\ alive' = "live"
  /\ Moves
  /\ UNCHANGED <<holds, ledgerVars, callVars, lift, trial, pausing>>

InvalidateTargets == invalid' = invalid \cup {c \in Candidates : state[c] # "none"}

Withdraw(to) ==
  /\ holds = "memory" /\ alive # "purged" /\ alive # to
  /\ alive' = to
  /\ InvalidateTargets
  /\ Moves
  /\ UNCHANGED <<holds, state, target, evaluated, canary, pointer, rows, revs, callVars,
                 lift, trial, pausing>>

(* The process ends, or callers give up: what was read is forgotten.       *)
Crash ==
  /\ <<lift, trial, pausing>> # <<NoLift, NoTrial, NoPause>> \/ \E r \in Requests : flights[r] > 0
  /\ lift' = NoLift /\ trial' = NoTrial /\ pausing' = NoPause
  /\ flights' = [r \in Requests |-> 0]
  /\ UNCHANGED <<holds, ledgerVars, memoryVars, asked, written, control>>

Next ==
  \/ \E c \in Candidates :
       (\E to \in States : ReadForLift(c, to)) \/ Evaluate(c) \/ StartCanary(c)
  \/ WriteLift \/ JudgeCanary \/ WriteCanary
  \/ \E r \in Requests : Sign(r) \/ Check(r) \/ Write(r)
  \/ SignPause \/ ReadForPause \/ WritePause \/ Resume
  \/ Correct \/ Withdraw("revoked") \/ Withdraw("purged")
  \/ Crash

Spec == Init /\ [][Next]_vars
-----------------------------------------------------------------------------
(* The release that narrows recall: the pointer's, unless it is invalid.   *)
Effective ==
  IF pointer.active # None /\ rows[pointer.active].cand \notin invalid
    THEN pointer.active ELSE None

TypeOK ==
  /\ holds \in {"policy", "memory"} /\ alive \in {"live", "revoked", "purged"}
  /\ state \in [Candidates -> States] /\ target \in [Candidates -> 0 .. Len(revs)]
  /\ evaluated \subseteq Candidates /\ invalid \subseteq Candidates
  /\ control \in [status : {"active", "paused"}, epoch : 0 .. MaxEpoch,
                  abandoned : BOOLEAN, drift : BOOLEAN]
  /\ pointer \in [active : 0 .. Len(rows), rev : Nat]
  /\ written \in [Requests -> 0 .. Len(rows)] /\ flights \in [Requests -> 0 .. MaxFlights]

(* What the pointer names after a row.                                     *)
Outcome(i) ==
  IF i = 0 THEN None ELSE IF rows[i].action = "release" THEN i ELSE rows[i].restored

(* The pointer is the sum of the rows: every release and rollback started  *)
(* from what the one before it left, none is lost, and no request wrote    *)
(* two, whatever was called at once, lost its answer and was called again. *)
PointerIsItsRows ==
  /\ pointer = [active |-> Outcome(Len(rows)), rev |-> Len(rows)]
  /\ \A i \in 1 .. Len(rows) : rows[i].prev = Outcome(i - 1)
  /\ \A i \in 1 .. Len(rows) : Cardinality({r \in Requests : written[r] = i}) = 1

(* A candidate is released at most once, after it passed its evaluation    *)
(* and its canary, and rolled back at most once, while it was active.      *)
ReleasedOnMerit ==
  \A i \in 1 .. Len(rows) :
    LET c == rows[i].cand IN
    /\ c \in evaluated /\ canary[c].passed
    /\ \A j \in 1 .. Len(rows) : rows[j].cand = c /\ rows[j].action = rows[i].action => i = j
    /\ rows[i].action = "rollback" => rows[i].prev # None /\ rows[rows[i].prev].cand = c
    /\ state[c] \in {"released", "rolled_back"}

(* The memory serves a learned revision only while nothing superseded it:  *)
(* the last release or rollback wrote it, from the revision that release   *)
(* was made for.                                                           *)
LearnedIsLatest ==
  Last(revs).by # None =>
    LET n == Last(revs).by IN n = Len(rows) /\ Last(revs).source =
      (IF Outcome(n) = None THEN target[rows[n].cand] ELSE target[rows[Outcome(n)].cand])

(* A step never points the slot at a candidate whose memory was withdrawn, *)
(* never releases while learning is paused or, after work was abandoned, a *)
(* candidate tested before; and no pause lands over two releases its user  *)
(* did not see.                                                            *)
LearningStep ==
  /\ pointer'.active # pointer.active /\ pointer'.active # None =>
       rows'[pointer'.active].cand \notin invalid'
  /\ Len(rows') > Len(rows) /\ Last(rows').action = "release" =>
       /\ control.status = "active"
       /\ control.abandoned => canary[Last(rows').cand].epoch >= control.epoch
  /\ control.status = "active" /\ control'.status = "paused" =>
       pointer.rev <= pausing.rev + 1

LearningSound == TypeOK /\ PointerIsItsRows /\ ReleasedOnMerit /\ LearnedIsLatest
LearningKept == []LearningSound /\ [][LearningStep]_vars

-----------------------------------------------------------------------------
(* What the documents say and the code does not do.                        *)

(* A rolled-back or rejected candidate does not narrow recall again.       *)
RolledBackStaysInactive ==
  holds = "policy" /\ Effective # None => state[rows[Effective].cand] = "released"

(* What a rollback restored can itself be rolled back, as long as nothing  *)
(* else changed or withdrew the memory.                                    *)
RestoredCanFall ==
  LET c == rows[pointer.active].cand
      a == [action |-> "rollback", cand |-> c, restored |-> None, base |-> pointer.active,
            rev |-> pointer.rev, epoch |-> control.epoch] IN
  pointer.active # None /\ state[c] = "released" /\ c \notin invalid
    /\ (holds = "memory" => Last(revs).by = Len(rows)) =>
    ManagerAccepts(a) /\ StorageAccepts(a)

(* While learning is paused no candidate is proposed, moved or evaluated.  *)
PauseFreezes ==
  [][Paused /\ Paused' => /\ evaluated' = evaluated
                         /\ \A c \in Candidates :
                              state'[c] \in {state[c], "rolled_back", "canary"}]_vars

(* A release replaces the release its candidate's canary was compared with. *)
TestedOnItsBase ==
  \A i \in 1 .. Len(rows) : rows[i].action = "release" => canary[rows[i].cand].base = rows[i].prev
=============================================================================
