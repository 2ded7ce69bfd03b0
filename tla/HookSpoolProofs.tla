-------------------------- MODULE HookSpoolProofs --------------------------
(***************************************************************************)
(* What HookSpool guarantees for every number of hooks and every bound,    *)
(* when two deliveries of one event do not overlap: the spool stays well   *)
(* formed and within its bound, and an entry whose enqueue succeeded is in *)
(* the spool, in the quarantine or captured.                               *)
(*                                                                         *)
(* The directory is a sequence in the model; the proof looks at the set of *)
(* its files (Files), and at what each step adds to it and takes from it.  *)
(***************************************************************************)
EXTENDS HookSpool, FiniteSetTheorems, TLAPS

Files == {spool[i] : i \in 1 .. Len(spool)}

(* The parts of the type invariant.                                        *)
HookType == hook \in [Procs -> [step : Steps, list : Seq(Events), by : Procs]]
Distinct ==
  \A i, j \in 1 .. Len(spool) :
    spool[i].event = spool[j].event \/ spool[i].by = spool[j].by => i = j
SpoolType == spool \in Seq(Entry) /\ Distinct
InHand ==
  \A h \in Procs :
    hook[h].step \in {"deliver", "acknowledge"} => hook[h].list # <<>>
HostType ==
  /\ quarantine \subseteq Hooks /\ seen \in [Events -> Procs]
  /\ captured \subseteq Events /\ kept \subseteq Hooks

LEMMA TypeParts == TypeOK <=> SpoolType /\ HookType /\ InHand /\ HostType
BY DEF TypeOK, SpoolType, Distinct, HookType, InHand, HostType

-----------------------------------------------------------------------------
(* The hook processes: what a step does to one of them.                    *)

LEMMA GoFields ==
  ASSUME HookType, NEW h \in Procs, NEW s \in Steps, Go(h, s)
  PROVE  /\ HookType'
         /\ hook'[h].step = s /\ hook'[h].list = hook[h].list
         /\ hook'[h].by = hook[h].by
         /\ \A g \in Procs \ {h} : hook'[g] = hook[g]
<1> DEFINE new == [hook[h] EXCEPT !.step = s]
<1>1. new \in [step : Steps, list : Seq(Events), by : Procs]
      /\ new.step = s /\ new.list = hook[h].list /\ new.by = hook[h].by
  BY DEF HookType
<1>2. hook' = [hook EXCEPT ![h] = new]
  BY DEF Go
<1> HIDE DEF new
<1> QED
  BY <1>1, <1>2 DEF HookType

LEMMA SetFields ==
  ASSUME HookType, NEW h \in Procs,
         NEW new \in [step : Steps, list : Seq(Events), by : Procs],
         hook' = [hook EXCEPT ![h] = new]
  PROVE  HookType' /\ hook'[h] = new /\ \A g \in Procs \ {h} : hook'[g] = hook[g]
BY DEF HookType

LEMMA RecordFields ==
  ASSUME NEW S, NEW L, NEW B, NEW r \in [step : S, list : L, by : B],
         NEW s \in S, NEW l \in L, NEW b \in B
  PROVE  /\ [r EXCEPT !.step = s, !.by = b] \in [step : S, list : L, by : B]
         /\ [r EXCEPT !.step = s, !.by = b].step = s
         /\ [r EXCEPT !.step = s, !.by = b].list = r.list
         /\ [r EXCEPT !.step = s, !.list = l] \in [step : S, list : L, by : B]
         /\ [r EXCEPT !.step = s, !.list = l].step = s
         /\ [r EXCEPT !.list = l] \in [step : S, list : L, by : B]
         /\ [r EXCEPT !.list = l].step = r.step
OBVIOUS

LEMMA WaitingType ==
  /\ Waiting \in [step : Steps, list : Seq(Events), by : Procs]
  /\ Waiting.step = "waiting"
  /\ \A s \in Steps :
       /\ [Waiting EXCEPT !.step = s] \in [step : Steps, list : Seq(Events), by : Procs]
       /\ [Waiting EXCEPT !.step = s].step = s
<1>1. Waiting \in [step : Steps, list : Seq(Events), by : Procs]
  BY DEF Waiting, Steps, Procs
<1>2. ASSUME NEW s \in Steps
      PROVE  /\ [Waiting EXCEPT !.step = s] \in [step : Steps, list : Seq(Events), by : Procs]
             /\ [Waiting EXCEPT !.step = s].step = s
  BY <1>1
<1> QED
  BY <1>1, <1>2 DEF Waiting

LEMMA EndFields ==
  ASSUME HookType, NEW h \in Procs, End(h)
  PROVE  /\ HookType'
         /\ hook'[h].step = IF h = Visitor THEN "waiting" ELSE "done"
         /\ \A g \in Procs \ {h} : hook'[g] = hook[g]
<1>1. "done" \in Steps
  BY DEF Steps
<1>2. CASE h = Visitor
  BY <1>2, WaitingType, SetFields DEF End
<1>3. CASE h # Visitor
  <2>1. hook' = [hook EXCEPT ![h] = [Waiting EXCEPT !.step = "done"]]
    BY <1>3 DEF End
  <2> DEFINE new == [Waiting EXCEPT !.step = "done"]
  <2>2. new \in [step : Steps, list : Seq(Events), by : Procs] /\ new.step = "done"
    BY <1>1, WaitingType
  <2>3. hook' = [hook EXCEPT ![h] = new]
    BY <2>1
  <2> HIDE DEF new
  <2> QED
    BY <1>3, <2>2, <2>3, SetFields
<1> QED
  BY <1>2, <1>3

-----------------------------------------------------------------------------
(* The directory: what a step does to its files.                           *)

LEMMA FilesType ==
  ASSUME SpoolType
  PROVE  /\ Files \subseteq Entry
         /\ \A f, g \in Files : f.event = g.event \/ f.by = g.by => f = g
         /\ Names = {f.event : f \in Files}
BY DEF SpoolType, Distinct, Files, Names

LEMMA FileIs ==
  ASSUME SpoolType, NEW e \in Names
  PROVE  /\ At(e) \in 1 .. Len(spool) /\ spool[At(e)].event = e
         /\ File(e) \in Files /\ File(e).event = e
         /\ \A f \in Files : f.event = e => f = File(e)
<1>1. \E i \in 1 .. Len(spool) : spool[i].event = e
  BY DEF Names
<1>2. At(e) \in 1 .. Len(spool) /\ spool[At(e)].event = e
  BY <1>1 DEF At
<1> QED
  BY <1>2 DEF File, Files, SpoolType, Distinct

(* Unlinking a name takes its file, and leaves the others in their order.  *)
LEMMA Unlinked ==
  ASSUME SpoolType, NEW e, spool' = Without(e)
  PROVE  /\ SpoolType'
         /\ Files' = {f \in Files : f.event # e}
<1>1. CASE e \notin Names
  BY <1>1 DEF Without, SpoolType, Distinct, Files, Names
<1>2. CASE e \in Names
  <2> DEFINE a == At(e)
             n == Len(spool)
             old(i) == IF i < a THEN i ELSE i + 1
  <2>1. a \in 1 .. n /\ spool[a].event = e /\ n \in Nat
    BY <1>2, FileIs DEF SpoolType
  <2>2. spool' = [i \in 1 .. n - 1 |-> spool[old(i)]]
    BY <1>2 DEF Without
  <2>3. \A i \in 1 .. n - 1 : old(i) \in 1 .. n /\ old(i) # a
    BY <2>1
  <2>4. \A i, j \in 1 .. n - 1 : old(i) = old(j) => i = j
    BY <2>1
  <2>5. \A k \in 1 .. n : k # a => \E i \in 1 .. n - 1 : old(i) = k
    <3> SUFFICES ASSUME NEW k \in 1 .. n, k # a
                 PROVE  \E i \in 1 .. n - 1 : old(i) = k
      OBVIOUS
    <3>1. CASE k < a
      BY <2>1, <3>1
    <3>2. CASE k > a
      <4>1. k - 1 \in 1 .. n - 1 /\ old(k - 1) = k
        BY <2>1, <3>2
      <4> QED
        BY <4>1
    <3> QED
      BY <2>1, <3>1, <3>2
  <2>6. \A k \in 1 .. n : spool[k] \in Entry /\ (spool[k].event = e => k = a)
    BY <2>1 DEF SpoolType, Distinct
  <2>7. spool' \in Seq(Entry) /\ Len(spool') = n - 1
    BY <2>1, <2>2, <2>3, <2>6
  <2>8. \A i \in 1 .. n - 1 : spool'[i] = spool[old(i)]
    BY <2>2
  <2> HIDE DEF a, n, old
  <2>9. Distinct'
    BY <2>3, <2>4, <2>7, <2>8 DEF SpoolType, Distinct, n
  <2>10. Files' = {f \in Files : f.event # e}
    <3>1. ASSUME NEW i \in 1 .. n - 1
          PROVE  spool'[i] \in Files /\ spool'[i].event # e
      BY <2>3, <2>6, <2>8 DEF Files, n
    <3>2. ASSUME NEW k \in 1 .. n, spool[k].event # e
          PROVE  spool[k] \in Files'
      <4>1. PICK i \in 1 .. n - 1 : old(i) = k
        BY <2>1, <2>5, <3>2
      <4> QED
        BY <2>7, <2>8, <4>1 DEF Files
    <3> QED
      BY <2>7, <3>1, <3>2 DEF Files, n
  <2> QED
    BY <2>7, <2>9, <2>10 DEF SpoolType
<1> QED
  BY <1>1, <1>2

LEMMA Appended ==
  ASSUME SpoolType, NEW f \in Entry, spool' = Append(spool, f),
         \A g \in Files : g.event # f.event /\ g.by # f.by
  PROVE  SpoolType' /\ Files' = Files \cup {f}
<1>1. /\ spool' \in Seq(Entry) /\ Len(spool') = Len(spool) + 1 /\ Len(spool) \in Nat
      /\ spool'[Len(spool) + 1] = f
      /\ \A i \in 1 .. Len(spool) : spool'[i] = spool[i] /\ spool[i] \in Files
  BY DEF SpoolType, Files
<1>2. Distinct'
  BY <1>1 DEF SpoolType, Distinct
<1>3. Files' = Files \cup {f}
  <2>1. \A i \in 1 .. Len(spool) + 1 : i \in 1 .. Len(spool) \/ i = Len(spool) + 1
    BY <1>1
  <2>2. Len(spool) + 1 \in 1 .. Len(spool) + 1
        /\ 1 .. Len(spool) \subseteq 1 .. Len(spool) + 1
    BY <1>1
  <2> QED
    BY <1>1, <2>1, <2>2 DEF Files
<1> QED
  BY <1>1, <1>2, <1>3 DEF SpoolType

(* Writing a file's contents changes nothing else of it.                   *)
LEMMA Written ==
  ASSUME SpoolType, NEW h \in Procs, Write(h)
  PROVE  /\ SpoolType'
         /\ \A g \in Files' : \E f \in Files :
              /\ g.event = f.event /\ g.by = f.by
              /\ IF f.by = h THEN g.whole = TRUE ELSE g = f
         /\ \A f \in Files : \E g \in Files' :
              /\ g.event = f.event /\ g.by = f.by
              /\ IF f.by = h THEN g.whole = TRUE ELSE g = f
<1> DEFINE new(i) == IF spool[i].by = h THEN [spool[i] EXCEPT !.whole = TRUE]
                                        ELSE spool[i]
<1>1. spool' = [i \in 1 .. Len(spool) |-> new(i)]
  BY DEF Write, FileOf
<1>2. \A i \in 1 .. Len(spool) :
        /\ spool[i] \in Entry /\ new(i) \in Entry
        /\ new(i).event = spool[i].event /\ new(i).by = spool[i].by
        /\ IF spool[i].by = h THEN new(i).whole = TRUE ELSE new(i) = spool[i]
  <2> SUFFICES ASSUME NEW i \in 1 .. Len(spool)
               PROVE  /\ spool[i] \in Entry /\ new(i) \in Entry
                      /\ new(i).event = spool[i].event /\ new(i).by = spool[i].by
                      /\ IF spool[i].by = h THEN new(i).whole = TRUE
                                            ELSE new(i) = spool[i]
    OBVIOUS
  <2>1. spool[i] \in Entry
    BY DEF SpoolType
  <2> QED
    BY <2>1 DEF Entry
<1> HIDE DEF new
<1>3. spool' \in Seq(Entry) /\ Len(spool') = Len(spool)
      /\ \A i \in 1 .. Len(spool) : spool'[i] = new(i)
  BY <1>1, <1>2 DEF SpoolType
<1>4. Distinct'
  BY <1>2, <1>3 DEF SpoolType, Distinct
<1>5. \A i \in 1 .. Len(spool) :
        /\ spool[i] \in Files /\ spool'[i] \in Files'
        /\ spool'[i].event = spool[i].event /\ spool'[i].by = spool[i].by
        /\ IF spool[i].by = h THEN spool'[i].whole = TRUE ELSE spool'[i] = spool[i]
  BY <1>2, <1>3 DEF Files
<1>6. /\ \A g \in Files' : \E i \in 1 .. Len(spool) : g = spool'[i]
      /\ \A f \in Files : \E i \in 1 .. Len(spool) : f = spool[i]
  BY <1>3 DEF Files
<1>7. ASSUME NEW g \in Files'
      PROVE  \E f \in Files : /\ g.event = f.event /\ g.by = f.by
                              /\ IF f.by = h THEN g.whole = TRUE ELSE g = f
  <2>1. PICK i \in 1 .. Len(spool) : g = spool'[i]
    BY <1>6
  <2> QED
    BY <1>5, <2>1
<1>8. ASSUME NEW f \in Files
      PROVE  \E g \in Files' : /\ g.event = f.event /\ g.by = f.by
                               /\ IF f.by = h THEN g.whole = TRUE ELSE g = f
  <2>1. PICK i \in 1 .. Len(spool) : f = spool[i]
    BY <1>6
  <2> QED
    BY <1>5, <2>1
<1> QED
  BY <1>3, <1>4, <1>7, <1>8 DEF SpoolType

-----------------------------------------------------------------------------
(* The bound                                                               *)

Kept(s, k) == {i \in 1 .. Len(s) : s[i].by \in k}

LEMMA KeptBound ==
  ASSUME NEW s, NEW k, Len(s) \in Nat
  PROVE  /\ IsFiniteSet(Kept(s, k)) /\ Cardinality(Kept(s, k)) \in Nat
         /\ Cardinality(Kept(s, k)) <= Len(s)
<1>1. IsFiniteSet(1 .. Len(s)) /\ Cardinality(1 .. Len(s)) = Len(s)
  BY FS_Interval
<1> QED
  BY <1>1, FS_Subset, FS_CardinalityType DEF Kept

(* Unlinking a name and writing contents keep no entry that was not kept.  *)
LEMMA KeptShrinks ==
  ASSUME SpoolType, SpoolType',
         \A g \in Files' : \E f \in Files : f.by = g.by
  PROVE  Cardinality(Kept(spool', kept)) <= Cardinality(Kept(spool, kept))
<1>1. Len(spool) \in Nat /\ Len(spool') \in Nat
  BY DEF SpoolType
<1> DEFINE S == Kept(spool', kept)
           T == Kept(spool, kept)
           f == [i \in S |-> CHOOSE j \in T : spool[j].by = spool'[i].by]
<1>2. ASSUME NEW i \in S
      PROVE  f[i] \in T /\ spool[f[i]].by = spool'[i].by
  <2>1. i \in 1 .. Len(spool') /\ spool'[i].by \in kept /\ spool'[i] \in Files'
    BY <1>2 DEF Kept, Files
  <2>2. PICK g \in Files : g.by = spool'[i].by
    BY <2>1
  <2>3. PICK j \in 1 .. Len(spool) : spool[j] = g
    BY DEF Files
  <2>4. \E x \in T : spool[x].by = spool'[i].by
    BY <2>1, <2>2, <2>3 DEF Kept
  <2> QED
    BY <1>2, <2>4
<1>3. ASSUME NEW i \in S, NEW j \in S, f[i] = f[j]
      PROVE  i = j
  <2>1. spool'[i].by = spool'[j].by
    BY <1>2, <1>3
  <2> QED
    BY <2>1 DEF SpoolType, Distinct, Kept
<1>4. f \in Injection(S, T)
  <2>1. f \in [S -> T]
    BY <1>2
  <2> HIDE DEF f, S, T
  <2> QED
    BY <1>3, <2>1 DEF Injection, IsInjective
<1>5. IsFiniteSet(T)
  BY <1>1, KeptBound
<1> HIDE DEF f, S, T
<1> QED
  BY <1>4, <1>5, FS_Injection DEF S, T

-----------------------------------------------------------------------------
(* The inductive invariant                                                 *)

Before == {"waiting", "flush", "deliver", "acknowledge", "send", "enqueue", "create"}
Sending == {"send", "enqueue", "create", "write", "recheck"}

FilesAreOwn == \A f \in Files : f.event = EventOf[f.by]

(* A hook sends an event of its own, one process per event; its file is    *)
(* there after it has created it, not before, and until it is done its     *)
(* enqueue has not succeeded.                                              *)
OneEach ==
  \A g, h \in Active \ {Visitor} : EventOf[g] = EventOf[h] => g = h
HooksSend ==
  \A h \in Procs : hook[h].step \in Sending \cup {"done", "killed"} => h # Visitor
NotYetKept ==
  \A h \in Hooks : hook[h].step \notin {"done", "killed"} => h \notin kept
NoFileBefore ==
  \A h \in Procs : hook[h].step \in Before => \A f \in Files : f.by # h
NameIsFree ==
  \A h \in Procs : hook[h].step = "create" => EventOf[h] \notin Names
NameIsOwn ==
  \A h \in Procs : hook[h].step \in {"write", "recheck"} =>
    \A f \in Files : f.event = EventOf[h] => f.by = h

(* What is acknowledged is captured; what has been created is somewhere,   *)
(* and so, with its contents, is what has been written.                    *)
AcknowledgedIsCaptured ==
  \A h \in Procs : hook[h].step = "acknowledge" => Head(hook[h].list) \in captured
Gone(h)    == EventOf[h] \in captured \/ h \in quarantine
Stands(h)  == Gone(h) \/ \E f \in Files : f.by = h
IsWhole(h) == Gone(h) \/ \E f \in Files : f.by = h /\ f.whole = TRUE
CreatedStands == \A h \in Procs : hook[h].step = "write" => Stands(h)
WrittenIsWhole ==
  \A h \in Procs : hook[h].step = "recheck" \/ h \in kept => IsWhole(h)

KeptIsBounded == Cardinality(Kept(spool, kept)) <= MaxEntries

Filed == /\ FilesAreOwn /\ NoFileBefore /\ NameIsFree /\ NameIsOwn
Stays == AcknowledgedIsCaptured /\ CreatedStands /\ WrittenIsWhole
Alive == OneEach /\ HooksSend /\ NotYetKept

HInv == TypeOK /\ Alive /\ Filed /\ Stays /\ KeptIsBounded

LEMMA Start0 == HookAssumption /\ HInit => HInv
<1> SUFFICES ASSUME HookAssumption, HInit PROVE HInv
  OBVIOUS
<1>1. /\ spool = <<>> /\ quarantine = {} /\ captured = {} /\ kept = {}
      /\ \A h \in Procs : hook[h] = Waiting
      /\ hook = [h \in Procs |-> Waiting] /\ seen = [e \in Events |-> Visitor]
  BY DEF HInit
<1>2. Files = {} /\ Names = {} /\ SpoolType
  BY <1>1 DEF Files, Names, SpoolType, Distinct
<1>3. HookType /\ InHand /\ HostType
  BY <1>1, WaitingType DEF HookType, InHand, HostType, Procs
<1>4. Alive
  BY <1>1, WaitingType DEF Alive, OneEach, HooksSend, NotYetKept, Active, Sending
<1>5. Filed /\ Stays
  BY <1>1, <1>2, WaitingType
     DEF Filed, FilesAreOwn, NoFileBefore, NameIsFree, NameIsOwn, Stays,
         AcknowledgedIsCaptured, CreatedStands, WrittenIsWhole
<1>6. KeptIsBounded
  <2>1. Cardinality(Kept(spool, kept)) <= Len(spool) /\ Len(spool) = 0
        /\ Cardinality(Kept(spool, kept)) \in Nat
    BY <1>1, KeptBound
  <2> QED
    BY <2>1 DEF KeptIsBounded, HookAssumption
<1> QED
  BY <1>2, <1>3, <1>4, <1>5, <1>6, TypeParts DEF HInv

LEMMA HInvImplies == HInv => SpoolSound
<1> SUFFICES ASSUME HInv PROVE SpoolSound
  OBVIOUS
<1>1. SpoolType /\ kept \subseteq Hooks /\ Hooks \subseteq Procs
  BY TypeParts DEF HInv, HostType, Procs
<1>2. KeptUntilAcknowledged
  <2> SUFFICES ASSUME NEW h \in kept, ~Gone(h)
               PROVE  EventOf[h] \in Names /\ File(EventOf[h]).whole
    BY DEF KeptUntilAcknowledged, Gone
  <2>1. PICK f \in Files : f.by = h /\ f.whole = TRUE
    BY <1>1 DEF HInv, Stays, WrittenIsWhole, IsWhole
  <2>2. f.event = EventOf[h]
    BY <2>1 DEF HInv, Filed, FilesAreOwn
  <2>3. EventOf[h] \in Names
    BY <1>1, <2>2, FilesType
  <2> QED
    BY <1>1, <2>1, <2>2, <2>3, FileIs
<1>3. BoundHolds
  BY DEF HInv, KeptIsBounded, Kept, BoundHolds
<1> QED
  BY <1>2, <1>3 DEF HInv, SpoolSound

-----------------------------------------------------------------------------
(* The steps                                                               *)

Others(h) == \A g \in Procs \ {h} : hook'[g] = hook[g]

(* A process that goes on: while another delivery of its event is under    *)
(* way it does not start, and only a hook sends.                           *)
LEMMA AliveStep ==
  ASSUME HInv, NEW h \in Procs, Others(h),
         hook[h].step \notin {"done", "killed"},
         hook'[h].step \in {"waiting", "done", "killed"} \/ h \in Active \/ Alone(h),
         hook'[h].step \in Sending \cup {"done", "killed"} => h # Visitor,
         kept' \subseteq kept \cup {h}, h \in kept' => hook'[h].step = "done"
  PROVE  Alive'
<1>1. OneEach'
  BY DEF HInv, Alive, OneEach, Active, Alone, Others
<1>2. HooksSend'
  BY DEF HInv, Alive, HooksSend, Others
<1>3. NotYetKept'
  BY DEF HInv, Alive, NotYetKept, Others, Procs
<1> QED
  BY <1>1, <1>2, <1>3 DEF Alive

(* Steps that take files from the directory, or leave it as it is.         *)
LEMMA Shrinks ==
  ASSUME HookAssumption, HInv, NEW h \in Procs, Others(h), SpoolType',
         Files' \subseteq Files,
         quarantine \subseteq quarantine', captured \subseteq captured', kept' = kept,
         hook'[h].step \notin {"write", "recheck"}, hook[h].step # "done",
         hook'[h].step \in Before => hook[h].step \in Before,
         hook'[h].step = "create" => EventOf[h] \notin Names,
         hook'[h].step = "acknowledge" => Head(hook'[h].list) \in captured',
         \A f \in Files : f \in Files' \/ Gone(f.by)' \/ (f.by = h /\ h \notin kept)
  PROVE  Filed' /\ Stays' /\ KeptIsBounded'
<1>1. SpoolType /\ kept \subseteq Hooks
  BY TypeParts DEF HInv, HostType
<1>2. Names' \subseteq Names
  <2>1. Names' = {f.event : f \in Files'} /\ Names = {f.event : f \in Files}
    BY DEF Files, Names
  <2> QED
    BY <2>1
<1>3. Filed'
  <2>1. FilesAreOwn'
    BY DEF HInv, Filed, FilesAreOwn
  <2>2. NoFileBefore'
    BY DEF HInv, Filed, NoFileBefore, Others
  <2>3. NameIsFree'
    BY <1>2 DEF HInv, Filed, NameIsFree, Others
  <2>4. NameIsOwn'
    BY DEF HInv, Filed, NameIsOwn, Others
  <2> QED
    BY <2>1, <2>2, <2>3, <2>4 DEF Filed
<1>4. ASSUME NEW g \in Procs, g # h \/ g \in kept
      PROVE  /\ Stands(g) => Stands(g)'
             /\ IsWhole(g) => IsWhole(g)'
  <2>1. Gone(g) => Gone(g)'
    BY DEF Gone
  <2>2. \A f \in Files : f.by = g => f \in Files' \/ Gone(g)'
    BY <1>4 DEF Gone
  <2> QED
    BY <2>1, <2>2 DEF Stands, IsWhole
<1>5. Stays'
  <2>1. AcknowledgedIsCaptured'
    BY DEF HInv, Stays, AcknowledgedIsCaptured, Others
  <2>2. CreatedStands'
    BY <1>4 DEF HInv, Stays, CreatedStands, Others
  <2>3. WrittenIsWhole'
    BY <1>4 DEF HInv, Stays, WrittenIsWhole, Others
  <2> QED
    BY <2>1, <2>2, <2>3 DEF Stays
<1>6. KeptIsBounded'
  <2>1. Cardinality(Kept(spool', kept)) <= Cardinality(Kept(spool, kept))
    BY <1>1, KeptShrinks
  <2>2. /\ Cardinality(Kept(spool, kept)) \in Nat
        /\ Cardinality(Kept(spool', kept)) \in Nat
    BY <1>1, KeptBound DEF SpoolType
  <2> QED
    BY <2>1, <2>2 DEF HInv, KeptIsBounded, HookAssumption
<1> QED
  BY <1>3, <1>5, <1>6

LEMMA SameFiles ==
  ASSUME SpoolType, UNCHANGED spool
  PROVE  SpoolType' /\ Files' = Files /\ Names' = Names
BY DEF SpoolType, Distinct, Files, Names

LEMMA AcceptedHost ==
  ASSUME HostType, NEW e \in Events, NEW b \in Procs,
         Accepted(e, b) \/ Refused(e, b) \/ Lost(e, b),
         UNCHANGED <<quarantine, kept>>
  PROVE  HostType' /\ captured \subseteq captured'
BY DEF HostType, Accepted, Refused, Lost

LEMMA StepFacts ==
  ASSUME HookAssumption, HInv
  PROVE  /\ SpoolType /\ HookType /\ InHand /\ HostType
         /\ \A h \in Procs : hook[h].list \in Seq(Events) /\ hook[h].by \in Procs
         /\ \A h \in Procs : h # Visitor => h \in Hooks /\ EventOf[h] \in Events
         /\ \A h \in Procs :
              hook[h].step \notin {"waiting", "done", "killed"} => h \in Active
BY TypeParts DEF HInv, HookType, HookAssumption, Procs, Active

(* A step of a process under way that leaves the directory as it is.       *)
LEMMA Quiet ==
  ASSUME HookAssumption, HInv, NEW h \in Procs, h \in Active,
         HookType', Others(h), UNCHANGED <<spool, quarantine, kept>>,
         HostType', captured \subseteq captured',
         hook'[h].step \notin {"write", "recheck"},
         hook'[h].step \in Before => hook[h].step \in Before,
         hook'[h].step = "create" => EventOf[h] \notin Names,
         hook'[h].step \in {"deliver", "acknowledge"} => hook'[h].list # <<>>,
         hook'[h].step = "acknowledge" => Head(hook'[h].list) \in captured',
         hook'[h].step \in Sending \cup {"done", "killed"} => h # Visitor
  PROVE  HInv'
<1>1. SpoolType' /\ Files' = Files
  BY StepFacts, SameFiles
<1>2. hook[h].step \notin {"done", "killed"}
  BY DEF Active
<1>3. h \notin kept
  BY <1>2, StepFacts DEF HInv, Alive, NotYetKept, Sending, HostType, HookAssumption
<1>4. Alive'
  BY <1>2, <1>3, AliveStep
<1>5. Filed' /\ Stays' /\ KeptIsBounded'
  BY <1>1, <1>2, Shrinks
<1>6. InHand'
  BY StepFacts DEF InHand, Others
<1> QED
  BY <1>1, <1>4, <1>5, <1>6, TypeParts, PTL DEF HInv

LEMMA OwnStep ==
  ASSUME HookType, NEW h \in Procs, Own(h)
  PROVE  /\ HookType' /\ Others(h)
         /\ hook'[h].step = IF h = Visitor THEN "waiting" ELSE "send"
<1>1. "send" \in Steps
  BY DEF Steps
<1> QED
  BY <1>1, EndFields, GoFields DEF Own, Others

LEMMA StartStep ==
  ASSUME HookAssumption, ~Overlap, HInv, NEW h \in Procs, Start(h)
  PROVE  HInv'
<1> DEFINE ls == [i \in 1 .. Least(FlushLimit, Len(spool)) |-> spool[i].event]
           new == [step |-> "flush", by |-> Visitor, list |-> ls]
<1>1. hook[h].step = "waiting" /\ Alone(h)
  BY DEF Start, MayStart
<1>2. ls \in Seq(Events)
  <2>a. Len(spool) \in Nat /\ \A i \in 1 .. Len(spool) : spool[i] \in Entry
    BY StepFacts DEF SpoolType
  <2>1. Len(spool) \in Nat /\ \A i \in 1 .. Len(spool) : spool[i].event \in Events
    BY <2>a DEF Entry
  <2>2. Least(FlushLimit, Len(spool)) \in Nat
        /\ Least(FlushLimit, Len(spool)) <= Len(spool)
    BY <2>1 DEF Least, HookAssumption
  <2> QED
    BY <2>1, <2>2
<1>3. new \in [step : Steps, list : Seq(Events), by : Procs] /\ new.step = "flush"
  BY <1>2 DEF Steps, Procs
<1>4. hook' = [hook EXCEPT ![h] = new] /\ UNCHANGED <<spool, quarantine, seen, captured, kept>>
  BY DEF Start
<1> HIDE DEF new
<1>5. HookType' /\ Others(h) /\ hook'[h].step = "flush"
  BY <1>3, <1>4, StepFacts, SetFields DEF Others
<1>6. SpoolType' /\ Files' = Files
  BY <1>4, StepFacts, SameFiles
<1>7. h \notin kept
  BY <1>1, StepFacts DEF HInv, Alive, NotYetKept, HostType
<1>8. Alive'
  BY <1>1, <1>4, <1>5, <1>7, AliveStep DEF Sending
<1>9. Filed' /\ Stays' /\ KeptIsBounded'
  BY <1>1, <1>4, <1>5, <1>6, Shrinks DEF Before
<1>10. InHand' /\ HostType'
  BY <1>4, <1>5, StepFacts DEF InHand, HostType, Others
<1> QED
  BY <1>5, <1>6, <1>8, <1>9, <1>10, TypeParts, PTL DEF HInv

LEMMA FlushedStep ==
  ASSUME HookAssumption, HInv, NEW h \in Procs, Flushed(h)
  PROVE  HInv'
<1>1. hook[h].step = "flush" /\ Own(h) /\ UNCHANGED <<spool, quarantine, seen, captured, kept>>
  BY DEF Flushed
<1>2. HookType' /\ Others(h) /\ hook'[h].step = IF h = Visitor THEN "waiting" ELSE "send"
  BY <1>1, StepFacts, OwnStep
<1> QED
  BY <1>1, <1>2, StepFacts, Quiet DEF Before, Sending, HostType

LEMMA DeliverStep ==
  ASSUME HookAssumption, HInv, NEW h \in Procs, Deliver(h) \/ DeliverFails(h)
  PROVE  HInv'
<1> DEFINE e == Head(hook[h].list)
<1>1. hook[h].step = "deliver" /\ UNCHANGED <<spool, quarantine, kept>>
  BY DEF Deliver, DeliverFails
<1>2. e \in Events
  BY <1>1, StepFacts DEF InHand
<1>3. HostType' /\ captured \subseteq captured'
  BY <1>1, <1>2, StepFacts, AcceptedHost DEF Deliver, DeliverFails
<1>4. CASE Deliver(h)
  <2>1. "acknowledge" \in Steps /\ Go(h, "acknowledge")
    BY <1>4 DEF Deliver, Steps
  <2>2. /\ HookType' /\ Others(h) /\ hook'[h].step = "acknowledge"
        /\ hook'[h].list = hook[h].list
    BY <2>1, StepFacts, GoFields DEF Others
  <2>3. e \in captured'
    BY <1>4 DEF Deliver, Accepted
  <2>4. hook'[h].list # <<>> /\ Head(hook'[h].list) \in captured'
    BY <1>1, <2>2, <2>3, StepFacts DEF InHand
  <2>5. h \in Active
    BY <1>1, StepFacts
  <2> HIDE DEF e
  <2> QED
    BY <1>1, <1>3, <2>2, <2>4, <2>5, Quiet DEF Before, Sending
<1>5. CASE DeliverFails(h)
  <2>1. HookType' /\ Others(h) /\ hook'[h].step = IF h = Visitor THEN "waiting" ELSE "send"
    BY <1>5, StepFacts, OwnStep DEF DeliverFails
  <2> QED
    BY <1>1, <1>3, <2>1, StepFacts, Quiet DEF Before, Sending
<1> QED
  BY <1>4, <1>5

(* A flush that finds a file without contents moves it aside.              *)
LEMMA ReadStep ==
  ASSUME HookAssumption, HInv, NEW h \in Procs, ReadFile(h)
  PROVE  HInv'
<1> DEFINE e == Head(hook[h].list)
<1>1. /\ hook[h].step = "flush" /\ hook[h].list # <<>>
      /\ UNCHANGED <<seen, captured, kept>>
  BY DEF ReadFile
<1>2. h \in Active /\ e \in Events /\ Tail(hook[h].list) \in Seq(Events)
      /\ hook[h].by \in Procs
  BY <1>1, StepFacts
<1>3. CASE e \notin Names
  <2>1. Own(h) /\ UNCHANGED <<spool, quarantine>>
    BY <1>3 DEF ReadFile
  <2>2. HookType' /\ Others(h) /\ hook'[h].step = IF h = Visitor THEN "waiting" ELSE "send"
    BY <2>1, StepFacts, OwnStep
  <2>3. HostType'
    BY <1>1, <2>1, StepFacts DEF HostType
  <2> QED
    BY <1>1, <1>2, <2>1, <2>2, <2>3, Quiet DEF Before, Sending
<1>4. CASE e \in Names /\ File(e).whole
  <2> DEFINE new == [hook[h] EXCEPT !.step = "deliver", !.by = File(e).by]
  <2>1. File(e).by \in Procs
    BY <1>4, StepFacts, FileIs, FilesType DEF Entry, Procs
  <2>2. /\ new \in [step : Steps, list : Seq(Events), by : Procs]
        /\ new.step = "deliver" /\ new.list = hook[h].list
    <3>1. "deliver" \in Steps /\ hook[h] \in [step : Steps, list : Seq(Events), by : Procs]
      BY StepFacts DEF HookType, Steps
    <3> QED
      BY <1>2, <2>1, <3>1, RecordFields
  <2>3. hook' = [hook EXCEPT ![h] = new] /\ UNCHANGED <<spool, quarantine>>
    BY <1>4 DEF ReadFile
  <2> HIDE DEF new
  <2>4. HookType' /\ Others(h) /\ hook'[h] = new
    BY <2>2, <2>3, StepFacts, SetFields DEF Others
  <2>5. HostType'
    BY <1>1, <2>3, StepFacts DEF HostType
  <2> HIDE DEF e
  <2> QED
    BY <1>1, <1>2, <2>2, <2>3, <2>4, <2>5, Quiet DEF Before, Sending
<1>5. CASE e \in Names /\ ~File(e).whole
  <2> DEFINE new == [hook[h] EXCEPT !.list = Tail(@)]
  <2>1. /\ quarantine' = quarantine \cup {File(e).by} /\ spool' = Without(e)
        /\ hook' = [hook EXCEPT ![h] = new]
    BY <1>5 DEF ReadFile
  <2>2. new \in [step : Steps, list : Seq(Events), by : Procs] /\ new.step = "flush"
    <3>1. hook[h] \in [step : Steps, list : Seq(Events), by : Procs]
      BY StepFacts DEF HookType
    <3>2. "flush" \in Steps
      BY DEF Steps
    <3> QED
      BY <1>1, <1>2, <3>1, <3>2, RecordFields
  <2> HIDE DEF new
  <2>3. HookType' /\ Others(h) /\ hook'[h].step = "flush"
    BY <2>1, <2>2, StepFacts, SetFields DEF Others
  <2>4. SpoolType' /\ Files' = {f \in Files : f.event # e}
    BY <2>1, StepFacts, Unlinked
  <2>5. File(e).by \in Hooks /\ \A f \in Files : f.event = e => f = File(e)
    BY <1>5, StepFacts, FileIs, FilesType DEF Entry
  <2>6. \A f \in Files : f \in Files' \/ Gone(f.by)'
    BY <2>1, <2>4, <2>5 DEF Gone
  <2>7. HostType'
    BY <1>1, <2>1, <2>5, StepFacts DEF HostType
  <2>8. InHand'
    BY <2>3, StepFacts DEF InHand, Others
  <2>9. h \notin kept
    BY <1>1, StepFacts DEF HInv, Alive, NotYetKept, HostType
  <2>10. Alive'
    BY <1>1, <1>2, <2>3, <2>9, AliveStep DEF Sending
  <2>11. Filed' /\ Stays' /\ KeptIsBounded'
    BY <1>1, <2>1, <2>3, <2>4, <2>6, Shrinks DEF Before
  <2> QED
    BY <2>3, <2>4, <2>7, <2>8, <2>10, <2>11, TypeParts, PTL DEF HInv
<1> QED
  BY <1>3, <1>4, <1>5

LEMMA AcknowledgeStep ==
  ASSUME HookAssumption, HInv, NEW h \in Procs, Acknowledge(h)
  PROVE  HInv'
<1> DEFINE e == Head(hook[h].list)
<1>1. /\ hook[h].step = "acknowledge" /\ hook[h].list # <<>>
      /\ UNCHANGED <<quarantine, seen, captured, kept>>
  BY StepFacts DEF Acknowledge, InHand
<1>2. h \in Active /\ e \in captured /\ Tail(hook[h].list) \in Seq(Events)
  BY <1>1, StepFacts DEF HInv, Stays, AcknowledgedIsCaptured
<1>3. CASE e \notin Names
  <2>1. Own(h) /\ UNCHANGED spool
    BY <1>3 DEF Acknowledge
  <2>2. HookType' /\ Others(h) /\ hook'[h].step = IF h = Visitor THEN "waiting" ELSE "send"
    BY <2>1, StepFacts, OwnStep
  <2>3. HostType'
    BY <1>1, StepFacts DEF HostType
  <2> QED
    BY <1>1, <1>2, <2>1, <2>2, <2>3, Quiet DEF Before, Sending
<1>4. CASE e \in Names
  <2> DEFINE new == [hook[h] EXCEPT !.step = "flush", !.list = Tail(@)]
  <2>1. spool' = Without(e) /\ hook' = [hook EXCEPT ![h] = new]
    BY <1>4 DEF Acknowledge
  <2>2. new \in [step : Steps, list : Seq(Events), by : Procs] /\ new.step = "flush"
    <3>1. "flush" \in Steps /\ hook[h] \in [step : Steps, list : Seq(Events), by : Procs]
      BY StepFacts DEF HookType, Steps
    <3> QED
      BY <1>1, <1>2, <3>1, RecordFields
  <2> HIDE DEF new
  <2>3. HookType' /\ Others(h) /\ hook'[h].step = "flush"
    BY <2>1, <2>2, StepFacts, SetFields DEF Others
  <2>4. SpoolType' /\ Files' = {f \in Files : f.event # e}
    BY <2>1, StepFacts, Unlinked
  <2>5. \A f \in Files : f \in Files' \/ Gone(f.by)'
    BY <1>1, <1>2, <2>4 DEF Gone, HInv, Filed, FilesAreOwn
  <2>6. HostType'
    BY <1>1, StepFacts DEF HostType
  <2>7. InHand'
    BY <2>3, StepFacts DEF InHand, Others
  <2>8. h \notin kept
    BY <1>1, StepFacts DEF HInv, Alive, NotYetKept, HostType
  <2>9. Alive'
    BY <1>1, <1>2, <2>3, <2>8, AliveStep DEF Sending
  <2>10. Filed' /\ Stays' /\ KeptIsBounded'
    BY <1>1, <2>1, <2>3, <2>4, <2>5, Shrinks DEF Before
  <2> QED
    BY <2>3, <2>4, <2>6, <2>7, <2>9, <2>10, TypeParts, PTL DEF HInv
<1> QED
  BY <1>3, <1>4

LEMMA SendStep ==
  ASSUME HookAssumption, HInv, NEW h \in Procs, Send(h)
  PROVE  HInv'
<1>1. hook[h].step = "send" /\ UNCHANGED <<spool, quarantine, kept>>
  BY DEF Send
<1>2. h # Visitor /\ EventOf[h] \in Events /\ h \in Active
  BY <1>1, StepFacts DEF HInv, Alive, HooksSend, Sending
<1>3. HostType' /\ captured \subseteq captured'
  BY <1>1, <1>2, StepFacts, AcceptedHost DEF Send
<1>4. CASE End(h)
  <2>1. HookType' /\ Others(h) /\ hook'[h].step = "done"
    BY <1>2, <1>4, StepFacts, EndFields DEF Others
  <2> QED
    BY <1>1, <1>2, <1>3, <2>1, Quiet DEF Before
<1>5. CASE Go(h, "enqueue")
  <2>1. HookType' /\ Others(h) /\ hook'[h].step = "enqueue"
    BY <1>5, StepFacts, GoFields DEF Others, Steps
  <2> QED
    BY <1>1, <1>2, <1>3, <2>1, Quiet DEF Before
<1> QED
  BY <1>4, <1>5 DEF Send

LEMMA CheckStep ==
  ASSUME HookAssumption, HInv, NEW h \in Procs, Check(h)
  PROVE  HInv'
<1>1. hook[h].step = "enqueue" /\ UNCHANGED <<spool, quarantine, seen, captured, kept>>
  BY DEF Check
<1>2. h # Visitor /\ h \in Active /\ HostType'
  BY <1>1, StepFacts DEF HInv, Alive, HooksSend, Sending, HostType
<1>3. CASE End(h)
  <2>1. HookType' /\ Others(h) /\ hook'[h].step = "done"
    BY <1>2, <1>3, StepFacts, EndFields DEF Others
  <2> QED
    BY <1>1, <1>2, <2>1, Quiet DEF Before
<1>4. CASE Go(h, "create") /\ EventOf[h] \notin Names
  <2>1. HookType' /\ Others(h) /\ hook'[h].step = "create"
    BY <1>4, StepFacts, GoFields DEF Others, Steps
  <2> QED
    BY <1>1, <1>2, <1>4, <2>1, Quiet DEF Before
<1> QED
  BY <1>3, <1>4 DEF Check

LEMMA KillStep ==
  ASSUME HookAssumption, HInv, NEW h \in Procs, Kill(h)
  PROVE  HInv'
<1> DEFINE new == [Waiting EXCEPT !.step = "killed"]
<1>1. /\ h # Visitor /\ h \in Active /\ UNCHANGED <<spool, quarantine, seen, captured, kept>>
      /\ hook' = [hook EXCEPT ![h] = new]
  BY DEF Kill
<1>2. new \in [step : Steps, list : Seq(Events), by : Procs] /\ new.step = "killed"
  BY WaitingType DEF Steps
<1> HIDE DEF new
<1>3. HookType' /\ Others(h) /\ hook'[h].step = "killed" /\ HostType'
  BY <1>1, <1>2, StepFacts, SetFields DEF Others, HostType
<1> QED
  BY <1>1, <1>3, Quiet DEF Before

(* The name is free when the file is created: no other delivery of the     *)
(* event is under way.                                                     *)
LEMMA CreateStep ==
  ASSUME HookAssumption, HInv, NEW h \in Procs, Create(h)
  PROVE  HInv'
<1>1. /\ hook[h].step = "create" /\ EventOf[h] \notin Names
      /\ UNCHANGED <<quarantine, seen, captured, kept>>
  BY DEF Create, HInv, Filed, NameIsFree
<1>2. h # Visitor /\ h \in Hooks /\ EventOf[h] \in Events /\ h \in Active
  BY <1>1, StepFacts DEF HInv, Alive, HooksSend, Sending
<1>3. PICK f \in Entry : /\ spool' = Append(spool, f)
                         /\ f.event = EventOf[h] /\ f.by = h
  <2> DEFINE f == [event |-> EventOf[h], by |-> h, whole |-> FALSE]
  <2>1. f \in Entry /\ f.event = EventOf[h] /\ f.by = h
    BY <1>2 DEF Entry
  <2>2. spool' = Append(spool, f)
    BY <1>1 DEF Create
  <2> QED
    BY <2>1, <2>2
<1>4. HookType' /\ Others(h) /\ hook'[h].step = "write"
  <2>1. "write" \in Steps /\ Go(h, "write")
    BY <1>1 DEF Create, Steps
  <2> QED
    BY <2>1, StepFacts, GoFields DEF Others
<1>5. \A g \in Files : g.event # f.event /\ g.by # f.by
  <2>1. \A g \in Files : g.by # h
    BY <1>1 DEF HInv, Filed, NoFileBefore, Before
  <2>2. \A g \in Files : g.event \in Names
    BY DEF Files, Names
  <2> QED
    BY <1>1, <1>3, <2>1, <2>2
<1>6. SpoolType' /\ Files' = Files \cup {f}
  BY <1>3, <1>5, StepFacts, Appended
<1>7. h \notin kept
  BY <1>1, <1>2 DEF HInv, Alive, NotYetKept
<1>8. Alive'
  BY <1>1, <1>2, <1>4, <1>7, AliveStep
<1>9. \A g \in Procs \ {h} : g # Visitor /\ g \in Active => EventOf[g] # EventOf[h]
  BY <1>2 DEF HInv, Alive, OneEach
<1>10. \A g \in Procs : hook[g].step \in {"create", "write", "recheck"} =>
          g # Visitor /\ g \in Active
  BY StepFacts DEF HInv, Alive, HooksSend, Sending
<1>11. Filed'
  <2>1. FilesAreOwn'
    BY <1>3, <1>6 DEF HInv, Filed, FilesAreOwn
  <2>2. NoFileBefore'
    BY <1>3, <1>4, <1>6 DEF HInv, Filed, NoFileBefore, Others, Before
  <2>3. NameIsFree'
    <3>1. Names' = Names \cup {EventOf[h]}
      <4>1. Names' = {g.event : g \in Files'} /\ Names = {g.event : g \in Files}
        BY DEF Files, Names
      <4> QED
        BY <1>3, <1>6, <4>1
    <3> QED
      BY <1>4, <1>9, <1>10, <3>1 DEF HInv, Filed, NameIsFree, Others
  <2>4. NameIsOwn'
    BY <1>3, <1>4, <1>5, <1>6, <1>9, <1>10 DEF HInv, Filed, NameIsOwn, Others
  <2> QED
    BY <2>1, <2>2, <2>3, <2>4 DEF Filed
<1>12. Stays'
  <2>1. AcknowledgedIsCaptured'
    BY <1>1, <1>4 DEF HInv, Stays, AcknowledgedIsCaptured, Others
  <2>2. CreatedStands'
    BY <1>1, <1>3, <1>4, <1>6 DEF HInv, Stays, CreatedStands, Stands, Gone, Others
  <2>3. WrittenIsWhole'
    BY <1>1, <1>4, <1>6, <1>7 DEF HInv, Stays, WrittenIsWhole, IsWhole, Gone, Others
  <2> QED
    BY <2>1, <2>2, <2>3 DEF Stays
<1>13. KeptIsBounded'
  <2>1. Kept(spool', kept') = Kept(spool, kept)
    BY <1>1, <1>3, <1>7, StepFacts DEF Kept, SpoolType
  <2> QED
    BY <2>1 DEF HInv, KeptIsBounded
<1>14. InHand' /\ HostType'
  BY <1>1, <1>4, StepFacts DEF InHand, HostType, Others
<1> QED
  BY <1>4, <1>6, <1>8, <1>11, <1>12, <1>13, <1>14, TypeParts, PTL DEF HInv

LEMMA WriteStep ==
  ASSUME HookAssumption, HInv, NEW h \in Procs, Write(h)
  PROVE  HInv'
<1>1. hook[h].step = "write" /\ UNCHANGED <<quarantine, seen, captured, kept>>
  BY DEF Write
<1>2. h # Visitor /\ h \in Hooks /\ h \in Active
  BY <1>1, StepFacts DEF HInv, Alive, HooksSend, Sending
<1>3. HookType' /\ Others(h) /\ hook'[h].step = "recheck"
  <2>1. "recheck" \in Steps /\ Go(h, "recheck")
    BY <1>1 DEF Write, Steps
  <2> QED
    BY <2>1, StepFacts, GoFields DEF Others
<1>4. /\ SpoolType'
      /\ \A g \in Files' : \E f \in Files :
           /\ g.event = f.event /\ g.by = f.by
           /\ IF f.by = h THEN g.whole = TRUE ELSE g = f
      /\ \A f \in Files : \E g \in Files' :
           /\ g.event = f.event /\ g.by = f.by
           /\ IF f.by = h THEN g.whole = TRUE ELSE g = f
  BY StepFacts, Written
<1>5. h \notin kept
  BY <1>1, <1>2 DEF HInv, Alive, NotYetKept
<1>6. Alive'
  BY <1>1, <1>2, <1>3, <1>5, AliveStep
<1>7. Filed'
  <2>1. FilesAreOwn'
    BY <1>4 DEF HInv, Filed, FilesAreOwn
  <2>2. NoFileBefore'
    BY <1>3, <1>4 DEF HInv, Filed, NoFileBefore, Others, Before
  <2>3. NameIsFree'
    <3>1. Names' = {g.event : g \in Files'} /\ Names = {g.event : g \in Files}
      BY DEF Files, Names
    <3>2. Names' \subseteq Names
      BY <1>4, <3>1
    <3> QED
      BY <1>3, <3>2 DEF HInv, Filed, NameIsFree, Others
  <2>4. NameIsOwn'
    BY <1>1, <1>3, <1>4 DEF HInv, Filed, NameIsOwn, Others
  <2> QED
    BY <2>1, <2>2, <2>3, <2>4 DEF Filed
<1>8. Stays'
  <2>1. AcknowledgedIsCaptured'
    BY <1>1, <1>3 DEF HInv, Stays, AcknowledgedIsCaptured, Others
  <2>2. CreatedStands'
    BY <1>1, <1>3, <1>4 DEF HInv, Stays, CreatedStands, Stands, Gone, Others
  <2>3. IsWhole(h)'
    <3>1. Stands(h)
      BY <1>1 DEF HInv, Stays, CreatedStands
    <3> QED
      BY <1>1, <1>4, <3>1 DEF Stands, IsWhole, Gone
  <2>4. ASSUME NEW g \in Procs \ {h}, IsWhole(g) PROVE IsWhole(g)'
    BY <1>1, <1>4, <2>4 DEF IsWhole, Gone
  <2>5. WrittenIsWhole'
    BY <1>1, <1>3, <2>3, <2>4 DEF HInv, Stays, WrittenIsWhole, Others
  <2> QED
    BY <2>1, <2>2, <2>5 DEF Stays
<1>9. KeptIsBounded'
  <2>1. Cardinality(Kept(spool', kept)) <= Cardinality(Kept(spool, kept))
    BY <1>4, StepFacts, KeptShrinks
  <2>2. /\ Cardinality(Kept(spool, kept)) \in Nat
        /\ Cardinality(Kept(spool', kept)) \in Nat
    BY <1>4, StepFacts, KeptBound DEF SpoolType
  <2> QED
    BY <1>1, <2>1, <2>2 DEF HInv, KeptIsBounded, HookAssumption
<1>10. InHand' /\ HostType'
  BY <1>1, <1>3, StepFacts DEF InHand, HostType, Others
<1> QED
  BY <1>3, <1>4, <1>6, <1>7, <1>8, <1>9, <1>10, TypeParts, PTL DEF HInv

LEMMA RecheckStep ==
  ASSUME HookAssumption, HInv, NEW h \in Procs, Recheck(h)
  PROVE  HInv'
<1>1. /\ hook[h].step = "recheck" /\ End(h)
      /\ UNCHANGED <<quarantine, seen, captured>>
  BY DEF Recheck
<1>2. h # Visitor /\ h \in Hooks /\ h \in Active
  BY <1>1, StepFacts DEF HInv, Alive, HooksSend, Sending
<1>3. HookType' /\ Others(h) /\ hook'[h].step = "done"
  BY <1>1, <1>2, StepFacts, EndFields DEF Others
<1>4. h \notin kept
  BY <1>1, <1>2 DEF HInv, Alive, NotYetKept
<1>5. InHand' /\ HostType'
  BY <1>1, <1>2, <1>3, StepFacts DEF InHand, HostType, Others, Recheck
<1>6. Alive'
  BY <1>1, <1>2, <1>3, <1>4, AliveStep DEF Recheck
<1>7. CASE Len(spool) > MaxEntries
  <2>1. spool' = Without(EventOf[h]) /\ kept' = kept
    BY <1>7 DEF Recheck
  <2>2. SpoolType' /\ Files' = {f \in Files : f.event # EventOf[h]}
    BY <2>1, StepFacts, Unlinked
  <2>3. \A f \in Files : f \in Files' \/ (f.by = h /\ h \notin kept)
    BY <1>1, <1>4, <2>2 DEF HInv, Filed, NameIsOwn
  <2>4. Filed' /\ Stays' /\ KeptIsBounded'
    BY <1>1, <1>3, <2>1, <2>2, <2>3, Shrinks DEF Before
  <2> QED
    BY <1>3, <1>5, <1>6, <2>2, <2>4, TypeParts, PTL DEF HInv
<1>8. CASE ~(Len(spool) > MaxEntries)
  <2>1. kept' = kept \cup {h} /\ spool' = spool
    BY <1>8 DEF Recheck
  <2>2. SpoolType' /\ Files' = Files /\ Names' = Names
    BY <2>1, StepFacts, SameFiles
  <2>3. Filed'
    BY <1>3, <2>2 DEF HInv, Filed, FilesAreOwn, NoFileBefore, NameIsFree, NameIsOwn,
       Others, Before
  <2>4. Stays'
    BY <1>1, <1>3, <2>1, <2>2 DEF HInv, Stays, AcknowledgedIsCaptured, CreatedStands,
       WrittenIsWhole, Stands, IsWhole, Gone, Others
  <2>5. KeptIsBounded'
    <3>1. Len(spool) \in Nat
      BY StepFacts DEF SpoolType
    <3>2. Cardinality(Kept(spool, kept')) <= Len(spool)
          /\ Cardinality(Kept(spool, kept')) \in Nat
      BY <3>1, KeptBound
    <3> QED
      BY <1>8, <2>1, <3>1, <3>2 DEF KeptIsBounded, HookAssumption
  <2> QED
    BY <1>3, <1>5, <1>6, <2>2, <2>3, <2>4, <2>5, TypeParts, PTL DEF HInv
<1> QED
  BY <1>7, <1>8

(* A listing that fails adds nothing, and takes at most the hook's own     *)
(* file, which nobody was promised.                                        *)
LEMMA VanishesStep ==
  ASSUME HookAssumption, ~Overlap, HInv, NEW h \in Procs, Vanishes(h)
  PROVE  HInv'
<1>1. UNCHANGED <<quarantine, seen, captured, kept>> /\ HostType'
  BY StepFacts DEF Vanishes, HostType
<1>2. CASE MayStart(h) /\ Own(h) /\ UNCHANGED spool
  <2>1. hook[h].step = "waiting" /\ Alone(h)
    BY <1>2 DEF MayStart
  <2>2. HookType' /\ Others(h) /\ hook'[h].step = IF h = Visitor THEN "waiting" ELSE "send"
    BY <1>2, StepFacts, OwnStep
  <2>3. SpoolType' /\ Files' = Files
    BY <1>2, StepFacts, SameFiles
  <2>4. h \notin kept
    BY <2>1, StepFacts DEF HInv, Alive, NotYetKept, HostType
  <2>5. Alive'
    BY <1>1, <2>1, <2>2, <2>4, AliveStep DEF Sending
  <2>6. Filed' /\ Stays' /\ KeptIsBounded'
    BY <1>1, <2>1, <2>2, <2>3, Shrinks DEF Before
  <2>7. InHand'
    BY <2>2, StepFacts DEF InHand, Others
  <2> QED
    BY <1>1, <2>2, <2>3, <2>5, <2>6, <2>7, TypeParts, PTL DEF HInv
<1>3. CASE hook[h].step = "enqueue" /\ End(h) /\ UNCHANGED spool
  <2>1. h # Visitor /\ h \in Active
    BY <1>3, StepFacts DEF HInv, Alive, HooksSend, Sending
  <2>2. HookType' /\ Others(h) /\ hook'[h].step = "done"
    BY <1>3, <2>1, StepFacts, EndFields DEF Others
  <2> QED
    BY <1>1, <1>3, <2>1, <2>2, Quiet DEF Before
<1>4. CASE hook[h].step = "recheck" /\ End(h) /\ spool' = Without(EventOf[h])
  <2>1. h # Visitor /\ h \in Hooks /\ h \in Active
    BY <1>4, StepFacts DEF HInv, Alive, HooksSend, Sending
  <2>2. HookType' /\ Others(h) /\ hook'[h].step = "done"
    BY <1>4, <2>1, StepFacts, EndFields DEF Others
  <2>3. h \notin kept
    BY <1>4, <2>1 DEF HInv, Alive, NotYetKept
  <2>4. SpoolType' /\ Files' = {f \in Files : f.event # EventOf[h]}
    BY <1>4, StepFacts, Unlinked
  <2>5. \A f \in Files : f \in Files' \/ (f.by = h /\ h \notin kept)
    BY <1>4, <2>3, <2>4 DEF HInv, Filed, NameIsOwn
  <2>6. Filed' /\ Stays' /\ KeptIsBounded'
    BY <1>1, <1>4, <2>2, <2>4, <2>5, Shrinks DEF Before
  <2>7. Alive' /\ InHand'
    BY <1>1, <1>4, <2>1, <2>2, <2>3, StepFacts, AliveStep DEF InHand, Others
  <2> QED
    BY <1>1, <2>2, <2>4, <2>6, <2>7, TypeParts, PTL DEF HInv
<1> QED
  BY <1>2, <1>3, <1>4 DEF Vanishes

LEMMA StutterStep ==
  ASSUME HInv, UNCHANGED vars
  PROVE  HInv'
<1> USE DEF vars
<1>1. TypeOK'
  BY DEF HInv, TypeOK
<1>2. Alive'
  BY DEF HInv, Alive, OneEach, HooksSend, NotYetKept, Active
<1>3. Filed'
  BY DEF HInv, Filed, FilesAreOwn, NoFileBefore, NameIsFree, NameIsOwn, Names, Files
<1>4. Stays'
  BY DEF HInv, Stays, AcknowledgedIsCaptured, CreatedStands, WrittenIsWhole, Stands,
         IsWhole, Gone, Files
<1>5. KeptIsBounded'
  BY DEF HInv, KeptIsBounded
<1> QED
  BY <1>1, <1>2, <1>3, <1>4, <1>5 DEF HInv

LEMMA HInvStep ==
  ASSUME HookAssumption, ~Overlap, HInv, [HNext]_vars
  PROVE  HInv'
BY StutterStep, StartStep, FlushedStep, ReadStep, DeliverStep, AcknowledgeStep,
   SendStep, CheckStep, CreateStep, WriteStep, RecheckStep, VanishesStep,
   KillStep
   DEF HNext, Step

(* The inductive invariant holds in every reachable state.                 *)
THEOREM HInvHolds ==
  ASSUME HookAssumption, ~Overlap
  PROVE  HSpec => []HInv
<1>1. HInit => HInv
  BY Start0
<1>2. HInv /\ [HNext]_vars => HInv'
  BY HInvStep
<1> QED
  BY <1>1, <1>2, PTL DEF HSpec

(* However many hooks run, are killed or find the host down: the spool is  *)
(* well formed, the entries whose enqueue succeeded are within its bound,  *)
(* and each is in the spool with its contents, in the quarantine or        *)
(* captured, as long as two deliveries of one event do not overlap.        *)
THEOREM SpoolIsSound ==
  ASSUME HookAssumption, ~Overlap
  PROVE  HSpec => []SpoolSound
BY HInvHolds, HInvImplies, PTL
=============================================================================
