-------------------------- MODULE GovernanceProofs --------------------------
(***************************************************************************)
(* What governed memories and their views guarantee for any memories,      *)
(* calls, contents, clocks and bounds.                                     *)
(*                                                                         *)
(* Linear history.  A writer is a call without a receipt, so it has not    *)
(* written before; a proposal writes only where there is no revision, any  *)
(* other writer only over the revision it had read, which is then still    *)
(* the newest.                                                             *)
(*                                                                         *)
(* Views.  A call that takes a revision out of use names it to the lane:   *)
(* the projections lose it in the same transaction, and the index gets a   *)
(* job that removes it.  A batch is published only while the ledger is     *)
(* where it was when its sources were listed, so they are still what may   *)
(* be used.                                                                *)
(***************************************************************************)
EXTENDS Governance, TLAPS

(* What the calls, the memories and the worker are made of.                *)
Verdicts == {"activate", "candidate_only", "quarantine"}
Written == {"active", "candidate", "quarantined"}
Lives == Written \cup {"none", "revoked", "purged"}
ToolNames == (UNION {Tools[l] : l \in Lanes}) \cup {"none", "memory_propose", "memory_correct",
                                                    "learning_rollback"}
Clock == (UNION {Times[l] : l \in Lanes}) \cup {0}

Revision == [content : Contents \cup {0}, life : Written, parent : Nat,
             linked : BOOLEAN, by : Calls]
Memory == [life : Lives, current : Nat, revs : Seq(Revision)]
Asking == [at : Clock, tool : ToolNames, memory : Memories \cup {0},
           content : Contents \cup {0}, decision : Verdicts \cup {"none"},
           expected : Nat, source : Nat]

Types ==
    /\ memory \in [Memories -> Memory]
    /\ conflict \subseteq Memories
    /\ \A r \in rules : r.effect \in {"allow", "block"} /\ r.by \in Calls
    /\ call \in [Calls -> [step : {"idle", "prepared"}, request : Asking]]
    /\ receipt \in [Calls -> Nat]
    /\ ledger \in Nat
    /\ lane \in Lanes

(* What a prepared call asks for; an idle one has asked for nothing.       *)
IsAsked(r) ==
    /\ r.memory \in Memories
    /\ r.tool = "memory_propose" => r.expected = 0
    /\ r.tool # "memory_propose" => r.expected > 0
    /\ r.tool \in {"memory_propose", "memory_correct"} =>
         r.decision \in Verdicts /\ r.content \in Contents
    /\ r.tool \notin {"memory_propose", "memory_correct"} => r.source \in 1 .. r.expected

Asked ==
    \A c \in Calls : /\ call[c].step = "prepared" => IsAsked(Request(c))
                     /\ call[c].step = "idle" => receipt[c] = 0

(* The receipts are epochs of the ledger, each of one call.                *)
Receipts ==
    /\ \A c \in Calls : receipt[c] <= ledger
    /\ \A c, d \in Calls : receipt[c] = receipt[d] => (c = d \/ receipt[c] = 0)

(* The line a memory's revisions form: each was written over the one its    *)
(* caller had read, by a call that has its receipt.                        *)
Wrote(c, i) == receipt[c] # 0 /\ call[c].request.expected = i - 1

IsLine(v) ==
    /\ v.current \in {0, Len(v.revs)}
    /\ v.life = "none" => Len(v.revs) = 0
    /\ \A i \in 1 .. Len(v.revs) : v.revs[i].parent = i - 1 /\ Wrote(v.revs[i].by, i)
    /\ \A i, j \in 1 .. Len(v.revs) : v.revs[i].by = v.revs[j].by => i = j

Lines == \A m \in Memories : IsLine(memory[m])

MInv == Types /\ Asked /\ Receipts /\ Lines

-----------------------------------------------------------------------------
(* The history of the memories.                                            *)

LEMMA Asks ==
  ASSUME MInv, NEW c \in Calls
  PROVE  /\ call[c] \in [step : {"idle", "prepared"}, request : Asking]
         /\ Request(c) \in Asking
         /\ Held(c) = memory[Target(c)]
BY DEF MInv, Types, Request, Held

LEMMA AsksFields ==
  ASSUME NEW r \in Asking
  PROVE  /\ r.memory \in Memories \cup {0}
         /\ r.content \in Contents \cup {0} /\ r.decision \in Verdicts \cup {"none"}
         /\ r.expected \in Nat /\ r.source \in Nat
         /\ r.at \in Clock
BY DEF Asking

LEMMA NoCallAsks == NoCall \in Asking
BY DEF NoCall, Asking, Clock, ToolNames

LEMMA AskedBy ==
  ASSUME NEW r, r.memory \in Memories,
         \/ /\ r.tool = "memory_propose" /\ r.expected = 0
            /\ r.content \in Contents /\ r.decision \in Verdicts
         \/ /\ r.tool = "memory_correct" /\ r.expected > 0
            /\ r.content \in Contents /\ r.decision \in Verdicts
         \/ /\ r.tool \notin {"memory_propose", "memory_correct"}
            /\ r.expected > 0 /\ r.source \in 1 .. r.expected
  PROVE  IsAsked(r)
BY DEF IsAsked

LEMMA Proposal ==
  ASSUME NEW t \in Clock, NEW m \in Memories, NEW x \in Contents, NEW d \in Verdicts, NEW r,
         r = [NoCall EXCEPT !.at = t, !.tool = "memory_propose", !.memory = m,
                            !.content = x, !.decision = d]
  PROVE  r \in Asking /\ IsAsked(r)
<1>1. r \in Asking
  BY NoCallAsks DEF Asking, ToolNames
<1>2. /\ r.tool = "memory_propose" /\ r.memory = m /\ r.content = x /\ r.decision = d
      /\ r.expected = 0
  BY DEF NoCall
<1> QED
  BY <1>1, <1>2, AskedBy, m \in Memories, x \in Contents, d \in Verdicts

LEMMA Control ==
  ASSUME NEW t \in Clock, NEW tool \in ToolNames, tool \notin {"memory_propose", "memory_correct"},
         NEW m \in Memories, NEW e \in Nat, NEW i \in 1 .. e, NEW r,
         r = [NoCall EXCEPT !.at = t, !.tool = tool, !.memory = m, !.expected = e, !.source = i]
  PROVE  r \in Asking /\ IsAsked(r)
<1>1. r \in Asking
  <2>1. i \in Nat
    OBVIOUS
  <2> QED
    BY <2>1, NoCallAsks DEF Asking
<1>2. r.tool = tool /\ r.memory = m /\ r.expected = e /\ r.source = i
  BY DEF NoCall
<1>3. e > 0
  OBVIOUS
<1> QED
  BY <1>1, <1>2, <1>3, AskedBy

LEMMA Rollback ==
  ASSUME NEW t \in Clock, NEW m \in Memories, NEW e \in Nat, NEW i \in 1 .. e, NEW r,
         r = [NoCall EXCEPT !.at = t, !.tool = "learning_rollback", !.memory = m,
                            !.source = i, !.expected = e]
  PROVE  r \in Asking /\ IsAsked(r)
<1>1. r \in Asking
  <2>1. i \in Nat /\ "learning_rollback" \in ToolNames
    BY DEF ToolNames
  <2> QED
    BY <2>1, NoCallAsks DEF Asking
<1>2. r.tool = "learning_rollback" /\ r.memory = m /\ r.expected = e /\ r.source = i
  BY DEF NoCall
<1>3. e > 0
  OBVIOUS
<1> QED
  BY <1>1, <1>2, <1>3, AskedBy

(* What a caller asks for.                                                 *)
LEMMA Prepares ==
  ASSUME MInv, NEW c \in Calls, Prepare(c)
  PROVE  \E r : /\ r \in Asking /\ IsAsked(r)
                /\ call' = [call EXCEPT ![c] = [step |-> "prepared", request |-> r]]
<1>1. lane \in Lanes /\ \A m \in Memories : memory[m].current \in Nat
  BY DEF MInv, Types, Memory
<1>2. /\ Times[lane] \subseteq Clock /\ Decisions[lane] \subseteq Verdicts
      /\ Tools[lane] \subseteq ToolNames
  BY <1>1, GovernanceAssumption DEF Clock, Verdicts, ToolNames
<1>3. PICK m \in Memories : \/ PreparePropose(c, m)
                            \/ PrepareCorrect(c, m)
                            \/ PrepareControl(c, m)
                            \/ PrepareRollback(c, m)
  BY DEF Prepare
<1>4. CASE PreparePropose(c, m)
  <2>1. PICK x \in Contents, d \in Decisions[lane], t \in Times[lane] :
          Prepared(c, [NoCall EXCEPT !.at = t, !.tool = "memory_propose", !.memory = m,
                                     !.content = x, !.decision = d])
    BY <1>4 DEF PreparePropose
  <2> QED
    BY <1>2, <2>1, Proposal DEF Prepared
<1>5. CASE PrepareCorrect(c, m)
  <2>1. PICK x \in Contents, d \in Decisions[lane], t \in Times[lane] :
          /\ memory[m].current # 0
          /\ Prepared(c, [at |-> t, tool |-> "memory_correct", memory |-> m, content |-> x,
                          decision |-> d, expected |-> memory[m].current, source |-> 0])
    BY <1>5 DEF PrepareCorrect
  <2> DEFINE r == [at |-> t, tool |-> "memory_correct", memory |-> m, content |-> x,
                   decision |-> d, expected |-> memory[m].current, source |-> 0]
  <2>2. r \in Asking
    BY <1>1, <1>2 DEF Asking, ToolNames
  <2>3. IsAsked(r)
    BY <1>1, <1>2, <2>1, AskedBy
  <2> QED
    BY <2>1, <2>2, <2>3 DEF Prepared
<1>6. CASE PrepareControl(c, m)
  <2>1. PICK tool \in Tools[lane] \ {"memory_propose", "memory_correct", "learning_rollback"},
             t \in Times[lane] :
          /\ memory[m].current # 0
          /\ Prepared(c, [NoCall EXCEPT !.at = t, !.tool = tool, !.memory = m,
                                        !.expected = memory[m].current,
                                        !.source = memory[m].current])
    BY <1>6 DEF PrepareControl
  <2>2. memory[m].current \in 1 .. memory[m].current
    BY <1>1, <2>1
  <2> QED
    BY <1>1, <1>2, <2>1, <2>2, Control DEF Prepared
<1>7. CASE PrepareRollback(c, m)
  <2>1. PICK i \in 1 .. memory[m].current - 1, t \in Times[lane] :
          Prepared(c, [NoCall EXCEPT !.at = t, !.tool = "learning_rollback", !.memory = m,
                                     !.source = i, !.expected = memory[m].current])
    BY <1>7 DEF PrepareRollback
  <2>2. i \in 1 .. memory[m].current
    BY <1>1
  <2> QED
    BY <1>1, <1>2, <2>1, <2>2, Rollback DEF Prepared
<1> QED
  BY <1>3, <1>4, <1>5, <1>6, <1>7

LEMMA RevisionFields ==
  ASSUME NEW r \in Revision
  PROVE  /\ r.parent \in Nat /\ r.by \in Calls /\ r.linked \in BOOLEAN
         /\ r.life \in Written /\ r.content \in Contents \cup {0}
BY DEF Revision

LEMMA MemoryFields ==
  ASSUME NEW v \in Memory
  PROVE  /\ v.life \in Lives /\ v.current \in Nat
         /\ v.revs \in Seq(Revision) /\ Len(v.revs) \in Nat
         /\ \A i \in 1 .. Len(v.revs) :
              /\ v.revs[i] \in Revision
              /\ v.revs[i].parent \in Nat /\ v.revs[i].by \in Calls
              /\ v.revs[i].life \in Written /\ v.revs[i].content \in Contents \cup {0}
<1>1. v.life \in Lives /\ v.current \in Nat /\ v.revs \in Seq(Revision)
  BY DEF Memory
<1>2. Len(v.revs) \in Nat /\ \A i \in 1 .. Len(v.revs) : v.revs[i] \in Revision
  BY <1>1
<1> QED
  BY <1>1, <1>2, RevisionFields

(* A line stays one while what its writers wrote stands.                   *)
LEMMA LineStays ==
  ASSUME \A c \in Calls, i \in Nat : Wrote(c, i) => Wrote(c, i)',
         NEW v \in Memory, IsLine(v)
  PROVE  IsLine(v)'
<1>1. \A i \in 1 .. Len(v.revs) : Wrote(v.revs[i].by, i)'
  BY MemoryFields DEF IsLine
<1> QED
  BY <1>1 DEF IsLine

LEMMA PrepareKeeps ==
  ASSUME MInv, NEW c \in Calls, Prepare(c)
  PROVE  MInv'
<1>1. PICK r : /\ r \in Asking /\ IsAsked(r)
               /\ call' = [call EXCEPT ![c] = [step |-> "prepared", request |-> r]]
  BY Prepares
<1>2. UNCHANGED <<memory, conflict, rules, receipt, lane, ledger>> /\ call[c].step = "idle"
  BY DEF Prepare
<1>3. Types'
  BY <1>1, <1>2 DEF MInv, Types
<1>4. /\ call'[c].request = r /\ call'[c].step = "prepared"
      /\ \A d \in Calls : d # c => call'[d] = call[d]
  BY <1>1 DEF MInv, Types
<1>5. Asked'
  BY <1>1, <1>2, <1>4 DEF MInv, Asked, Request
<1>6. Receipts'
  BY <1>2 DEF MInv, Receipts
<1>7. Lines'
  <2>1. receipt[c] = 0
    BY <1>2 DEF MInv, Asked
  <2>2. \A d \in Calls, i \in Nat : Wrote(d, i) => Wrote(d, i)'
    BY <1>2, <1>4, <2>1 DEF Wrote
  <2>3. \A m \in Memories : memory[m] \in Memory /\ IsLine(memory[m])
    BY DEF MInv, Types, Lines
  <2>4. \A m \in Memories : IsLine(memory[m])'
    <3> SUFFICES ASSUME NEW m \in Memories, NEW v, v = memory[m] PROVE IsLine(v)'
      BY <1>2
    <3> QED
      BY <2>2, <2>3, LineStays
  <2> QED
    BY <1>2, <2>4 DEF Lines
<1> QED
  BY <1>3, <1>5, <1>6, <1>7 DEF MInv

(* How a call changes a memory: its revisions stay what they are, or there *)
(* is one more.                                                            *)
Kept(v, w) ==
    /\ Len(w.revs) = Len(v.revs)
    /\ \A i \in 1 .. Len(v.revs) : /\ w.revs[i].parent = v.revs[i].parent
                                   /\ w.revs[i].by = v.revs[i].by
    /\ w.current \in {0, v.current}
    /\ w.life = "none" => v.life = "none"

Extends(v, w, c) ==
    /\ Len(w.revs) = Len(v.revs) + 1 /\ w.current = Len(v.revs) + 1 /\ w.life # "none"
    /\ \A i \in 1 .. Len(v.revs) : w.revs[i] = v.revs[i]
    /\ w.revs[Len(v.revs) + 1].parent = v.current /\ w.revs[Len(v.revs) + 1].by = c

LEMMA LineKept ==
  ASSUME NEW v \in Memory, NEW w \in Memory, IsLine(v), Kept(v, w)
  PROVE  IsLine(w)
BY MemoryFields DEF IsLine, Kept

LEMMA LineExtended ==
  ASSUME NEW c \in Calls, NEW v \in Memory, NEW w \in Memory, IsLine(v), Extends(v, w, c),
         receipt[c] = 0, receipt'[c] # 0, UNCHANGED call,
         \A d \in Calls, i \in Nat : Wrote(d, i) => Wrote(d, i)',
         v.current = Len(v.revs), call[c].request.expected = Len(v.revs)
  PROVE  IsLine(w)'
<1> DEFINE n == Len(v.revs)
<1>1. n \in Nat /\ Len(w.revs) = n + 1 /\ w.current = n + 1 /\ w.life # "none"
  BY MemoryFields DEF Extends
<1>2. \A i \in 1 .. n : /\ w.revs[i].parent = i - 1 /\ Wrote(v.revs[i].by, i)
                        /\ w.revs[i].by = v.revs[i].by /\ w.revs[i].by \in Calls
  BY <1>1, MemoryFields DEF IsLine, Extends
<1>3. \A i \in 1 .. n : w.revs[i].by # c
  BY <1>2 DEF Wrote
<1>4. w.revs[n + 1].parent = n /\ w.revs[n + 1].by = c
  BY DEF Extends
<1>5. \A i \in 1 .. n + 1 : Wrote(w.revs[i].by, i)'
  <2> SUFFICES ASSUME NEW i \in 1 .. n + 1, NEW d \in Calls, d = w.revs[i].by
               PROVE  Wrote(d, i)'
    BY <1>1, <1>2, <1>4
  <2>1. CASE i = n + 1
    BY <1>1, <1>4, <2>1 DEF Wrote
  <2>2. CASE i \in 1 .. n
    BY <1>2, <2>2
  <2> QED
    BY <1>1, <2>1, <2>2
<1>6. \A i \in 1 .. n + 1 : w.revs[i].parent = i - 1
  BY <1>1, <1>2, <1>4
<1>7. \A i, j \in 1 .. n + 1 : w.revs[i].by = w.revs[j].by => i = j
  <2> SUFFICES ASSUME NEW i \in 1 .. n + 1, NEW j \in 1 .. n + 1,
                      w.revs[i].by = w.revs[j].by, i # j
               PROVE  FALSE
    OBVIOUS
  <2>1. i \in 1 .. n /\ j \in 1 .. n
    BY <1>1, <1>3, <1>4
  <2> QED
    BY <1>2, <2>1 DEF IsLine
<1> QED
  BY <1>1, <1>5, <1>6, <1>7 DEF IsLine

(* The next revision.                                                      *)
LEMMA Writes ==
  ASSUME MInv, NEW c \in Calls, Target(c) \in Memories,
         NEW content \in Contents \cup {0}, NEW life \in Written, NEW linked \in BOOLEAN,
         Write(c, content, life, linked)
  PROVE  \E w \in Memory : /\ memory' = [memory EXCEPT ![Target(c)] = w]
                           /\ Extends(Held(c), w, c)
<1>1. PICK v \in Memory : v = memory[Target(c)]
  BY DEF MInv, Types
<1> DEFINE x == [content |-> content, life |-> life, parent |-> v.current,
                 linked |-> linked, by |-> c]
           w == [life |-> life, current |-> Len(v.revs) + 1, revs |-> Append(v.revs, x)]
<1>2. memory' = [memory EXCEPT ![Target(c)] = w]
  BY <1>1 DEF Write
<1>3. x \in Revision
  BY MemoryFields DEF Revision
<1>4. x.parent = v.current /\ x.by = c
  OBVIOUS
<1>5. /\ Append(v.revs, x) \in Seq(Revision)
      /\ Len(Append(v.revs, x)) = Len(v.revs) + 1
      /\ \A i \in 1 .. Len(v.revs) : Append(v.revs, x)[i] = v.revs[i]
      /\ Append(v.revs, x)[Len(v.revs) + 1] = x
  <2> HIDE DEF x
  <2> QED
    BY <1>3, MemoryFields
<1>6. w \in Memory
  BY <1>5, MemoryFields DEF Memory, Lives
<1>7. Extends(v, w, c)
  BY <1>4, <1>5 DEF Extends, Written
<1> HIDE DEF w
<1> QED
  BY <1>1, <1>2, <1>6, <1>7 DEF Held

(* Is a memory's current revision in use?                                  *)
Active(v) == v.life = "active" /\ v.current # 0 /\ v.revs[v.current].life = "active"

(* A candidate is linked to the revision that says the same.               *)
LEMMA Relinks ==
  ASSUME MInv, NEW c \in Calls, Target(c) \in Memories, Reuse(c)
  PROVE  \E w \in Memory : /\ memory' = [memory EXCEPT ![Target(c)] = w]
                           /\ Kept(Held(c), w)
                           /\ w.current = Held(c).current /\ Active(w) = Active(Held(c))
<1>1. PICK v \in Memory : v = memory[Target(c)]
  BY DEF MInv, Types
<1>2. v.current \in 1 .. Len(v.revs)
  BY <1>1, MemoryFields DEF MInv, Lines, IsLine, Reuse, Held
<1>3. PICK k \in 1 .. Len(v.revs) : k = v.current
  BY <1>2
<1>4. PICK x : x = v.revs[k] /\ x \in Revision
  BY <1>3, MemoryFields
<1> DEFINE y == [x EXCEPT !.linked = TRUE]
           revs == [v.revs EXCEPT ![k] = y]
           w == [v EXCEPT !.revs = revs]
<1>5. memory' = [memory EXCEPT ![Target(c)] = w]
  BY <1>1, <1>3, <1>4 DEF Reuse, Held
<1>6. y \in Revision /\ y.parent = x.parent /\ y.by = x.by /\ y.life = x.life
  BY <1>4 DEF Revision
<1>7. /\ revs \in Seq(Revision) /\ Len(revs) = Len(v.revs)
      /\ revs[k] = y /\ \A i \in 1 .. Len(v.revs) : i # k => revs[i] = v.revs[i]
  <2> HIDE DEF y
  <2> QED
    BY <1>3, <1>6, MemoryFields
<1>8. w \in Memory /\ w.revs = revs /\ w.current = v.current /\ w.life = v.life
  <2> HIDE DEF revs
  <2> QED
    BY <1>7 DEF Memory
<1> HIDE DEF w, revs, y
<1>9. Kept(v, w)
  BY <1>4, <1>6, <1>7, <1>8, MemoryFields DEF Kept
<1>10. Active(w) = Active(v)
  BY <1>3, <1>4, <1>6, <1>7, <1>8 DEF Active
<1> QED
  BY <1>1, <1>5, <1>8, <1>9, <1>10 DEF Held

LEMMA Rests ==
  ASSUME MInv, NEW c \in Calls, Target(c) \in Memories, UNCHANGED memory
  PROVE  /\ Held(c) \in Memory
         /\ memory' = [memory EXCEPT ![Target(c)] = Held(c)]
         /\ Kept(Held(c), Held(c))
BY DEF MInv, Types, Held, Kept

(* A control that takes the memory out of use.                             *)
LEMMA Withdraws ==
  ASSUME MInv, NEW c \in Calls, Target(c) \in Memories,
         \/ SetLifecycle(c, "candidate")
         \/ SetLifecycle(c, "revoked")
         \/ memory' = [memory EXCEPT ![Target(c)].life = "purged", ![Target(c)].current = 0]
  PROVE  \E w \in Memory : /\ memory' = [memory EXCEPT ![Target(c)] = w]
                           /\ Kept(Held(c), w) /\ ~Active(w)
<1>1. PICK v \in Memory : v = memory[Target(c)]
  BY DEF MInv, Types
<1>2. CASE \E life \in {"candidate", "revoked"} : SetLifecycle(c, life)
  <2>1. PICK life \in {"candidate", "revoked"} : SetLifecycle(c, life)
    BY <1>2
  <2> DEFINE w == [v EXCEPT !.life = life]
  <2>2. memory' = [memory EXCEPT ![Target(c)] = w]
    BY <1>1, <2>1 DEF SetLifecycle
  <2>3. w \in Memory /\ w.life = life /\ w.current = v.current /\ w.revs = v.revs
    BY DEF Memory, Lives, Written
  <2> HIDE DEF w
  <2> QED
    BY <1>1, <2>2, <2>3 DEF Held, Kept, Active
<1>3. CASE memory' = [memory EXCEPT ![Target(c)].life = "purged", ![Target(c)].current = 0]
  <2> DEFINE u == [v EXCEPT !.life = "purged"]
             w == [u EXCEPT !.current = 0]
             first == [memory EXCEPT ![Target(c)] = u]
  <2>1. u \in Memory /\ u.life = "purged" /\ u.revs = v.revs
    BY DEF Memory, Lives
  <2>2. w \in Memory /\ w.life = "purged" /\ w.revs = v.revs /\ w.current = 0
    <3> HIDE DEF u
    <3> QED
      BY <2>1 DEF Memory
  <2>3. first[Target(c)] = u /\ memory' = [first EXCEPT ![Target(c)].current = 0]
    BY <1>1, <1>3 DEF MInv, Types
  <2>4. memory' = [memory EXCEPT ![Target(c)] = w]
    <3> HIDE DEF u
    <3>1. memory' = [first EXCEPT ![Target(c)] = w]
      BY <2>3
    <3> QED
      BY <3>1 DEF MInv, Types
  <2> HIDE DEF w
  <2>5. Kept(v, w) /\ ~Active(w)
    BY <2>2 DEF Kept, Active
  <2> QED
    BY <1>1, <2>2, <2>4, <2>5 DEF Held
<1> QED
  BY <1>2, <1>3

LEMMA Applying ==
  ASSUME MInv, NEW c \in Calls, Apply(c)
  PROVE  /\ Target(c) \in Memories /\ IsAsked(Request(c)) /\ Request(c) \in Asking
         /\ Held(c) \in Memory /\ IsLine(Held(c)) /\ receipt[c] = 0
         /\ ledger' = ledger + 1 /\ receipt' = [receipt EXCEPT ![c] = ledger + 1]
         /\ UNCHANGED <<call, lane>>
<1>1. call[c].step = "prepared" /\ receipt[c] = 0
  BY DEF Apply, Unanswered
<1>2. IsAsked(Request(c)) /\ Request(c) \in Asking
  BY <1>1, Asks DEF MInv, Asked
<1>3. Target(c) \in Memories
  BY <1>2 DEF IsAsked, Target
<1>4. Held(c) \in Memory /\ IsLine(Held(c))
  BY <1>3 DEF MInv, Types, Lines, Held
<1> QED
  BY <1>1, <1>2, <1>3, <1>4 DEF Apply, Seal

LEMMA VerdictWritten == \A d \in Verdicts : Lifecycle(d) \in Written
BY DEF Verdicts, Lifecycle, Written

(* A call writes over the newest revision, which is the one it had read.   *)
LEMMA ApplyMemory ==
  ASSUME MInv, NEW c \in Calls, Apply(c)
  PROVE  \E w \in Memory :
           /\ memory' = [memory EXCEPT ![Target(c)] = w]
           /\ \/ Kept(Held(c), w)
              \/ /\ Extends(Held(c), w, c)
                 /\ Held(c).current = Len(Held(c).revs)
                 /\ Request(c).expected = Len(Held(c).revs)
<1>1. /\ Target(c) \in Memories /\ IsAsked(Request(c)) /\ Request(c) \in Asking
      /\ Held(c) \in Memory /\ IsLine(Held(c))
  BY Applying
<1>2. CASE UNCHANGED memory
  BY <1>1, <1>2, Rests
<1>3. CASE Reuse(c)
  BY <1>1, <1>3, Relinks
<1>4. ASSUME WriteGoverned(c), Request(c).tool \in {"memory_propose", "memory_correct"}
      PROVE  \E w \in Memory : /\ memory' = [memory EXCEPT ![Target(c)] = w]
                               /\ Extends(Held(c), w, c)
  <2>1. Request(c).decision \in Verdicts /\ Request(c).content \in Contents
    BY <1>1, <1>4 DEF IsAsked
  <2>2. Write(c, Request(c).content, Lifecycle(Request(c).decision), TRUE)
    BY <1>4 DEF WriteGoverned
  <2> QED
    BY <1>1, <2>1, <2>2, VerdictWritten, Writes
<1>5. CASE Propose(c)
  <2>1. CASE Held(c).life = "none" /\ WriteGoverned(c)
    <3>1. Len(Held(c).revs) = 0 /\ Held(c).current = 0
      BY <1>1, <2>1 DEF IsLine
    <3>2. Request(c).expected = 0
      BY <1>1, <1>5 DEF IsAsked, Propose
    <3> QED
      BY <1>4, <1>5, <2>1, <3>1, <3>2 DEF Propose
  <2> QED
    BY <1>2, <1>3, <1>5, <2>1 DEF Propose, OpenConflict
<1>6. ASSUME Held(c).current = Request(c).expected, Request(c).tool # "memory_propose"
      PROVE  /\ Held(c).current = Len(Held(c).revs) /\ Request(c).expected = Len(Held(c).revs)
             /\ Held(c).current # 0
  BY <1>1, <1>6, AsksFields, MemoryFields DEF IsAsked, IsLine
<1>7. CASE Correct(c)
  <2>1. CASE WriteGoverned(c)
    BY <1>4, <1>6, <1>7, <2>1 DEF Correct
  <2> QED
    BY <1>3, <1>7, <2>1 DEF Correct
<1>8. CASE Demote(c) \/ Revoke(c) \/ Delete(c)
  BY <1>1, <1>8, Withdraws DEF Demote, Revoke, Delete
<1>9. CASE LearningEffect(c)
  <2>1. Request(c).tool \in {"learning_release", "learning_rollback"}
    BY <1>9 DEF LearningEffect
  <2>2. /\ Held(c).current = Len(Held(c).revs) /\ Request(c).expected = Len(Held(c).revs)
    BY <1>6, <1>9, <2>1 DEF LearningEffect, StillCurrent
  <2>3. Request(c).source \in 1 .. Len(Held(c).revs)
    BY <1>1, <2>1, <2>2 DEF IsAsked
  <2>4. PICK source : source = Held(c).revs[Request(c).source] /\ source \in Revision
    BY <1>1, <2>3, MemoryFields
  <2>5. \E life \in {"active", source.life} : Write(c, source.content, life, FALSE)
    BY <1>9, <2>4 DEF LearningEffect
  <2>6. PICK life \in Written, content \in Contents \cup {0} : Write(c, content, life, FALSE)
    BY <2>4, <2>5, RevisionFields DEF Written
  <2>7. \E w \in Memory : memory' = [memory EXCEPT ![Target(c)] = w] /\ Extends(Held(c), w, c)
    BY <1>1, <2>6, Writes
  <2> QED
    BY <2>2, <2>7
<1> QED
  BY <1>2, <1>5, <1>7, <1>8, <1>9 DEF Apply, Pin, UsageSet

LEMMA ApplyRules ==
  ASSUME MInv, NEW c \in Calls, Apply(c)
  PROVE  /\ conflict' \subseteq conflict \cup {Target(c)}
         /\ \A r \in rules' : r \in rules \/ (r.effect \in {"allow", "block"} /\ r.by = c)
<1>1. CASE UsageSet(c)
  <2>1. PICK effect \in {"allow", "block"} :
          rules' = rules \cup {[source |-> <<Target(c), Held(c).current>>,
                                effect |-> effect, at |-> Request(c).at, by |-> c]}
    BY <1>1 DEF UsageSet
  <2> QED
    BY <1>1, <2>1 DEF UsageSet
<1> QED
  BY <1>1 DEF Apply, Propose, Correct, Pin, Demote, Revoke, Delete, LearningEffect,
     WriteGoverned, Reuse, OpenConflict

LEMMA ApplyKeeps ==
  ASSUME MInv, NEW c \in Calls, Apply(c)
  PROVE  MInv'
<1>1. /\ Target(c) \in Memories /\ Held(c) \in Memory /\ IsLine(Held(c)) /\ receipt[c] = 0
      /\ ledger' = ledger + 1 /\ receipt' = [receipt EXCEPT ![c] = ledger + 1]
      /\ UNCHANGED <<call, lane>>
  BY Applying
<1>2. PICK w \in Memory :
           /\ memory' = [memory EXCEPT ![Target(c)] = w]
           /\ \/ Kept(Held(c), w)
              \/ /\ Extends(Held(c), w, c)
                 /\ Held(c).current = Len(Held(c).revs)
                 /\ Request(c).expected = Len(Held(c).revs)
  BY ApplyMemory
<1>3. Types'
  <2>1. memory' \in [Memories -> Memory]
    BY <1>2 DEF MInv, Types
  <2>2. conflict' \subseteq Memories /\ \A r \in rules' : r.effect \in {"allow", "block"} /\ r.by \in Calls
    BY <1>1, ApplyRules DEF MInv, Types
  <2> QED
    BY <1>1, <2>1, <2>2 DEF MInv, Types
<1>4. call[c].step = "prepared"
  BY DEF Apply, Unanswered
<1>5. Asked'
  BY <1>1, <1>4 DEF MInv, Types, Asked, Request
<1>6. /\ receipt'[c] = ledger + 1 /\ ledger \in Nat
      /\ \A d \in Calls : d # c => receipt'[d] = receipt[d]
      /\ \A d \in Calls : receipt[d] \in Nat /\ receipt[d] <= ledger
  BY <1>1 DEF MInv, Types, Receipts
<1>7. Receipts'
  BY <1>1, <1>6 DEF MInv, Receipts
<1>8. Lines'
  <2>1. \A d \in Calls, i \in Nat : Wrote(d, i) => Wrote(d, i)'
    BY <1>1, <1>6 DEF Wrote
  <2>2. IsLine(w)'
    <3>1. CASE Kept(Held(c), w)
      BY <1>1, <2>1, <3>1, LineKept, LineStays
    <3>2. CASE /\ Extends(Held(c), w, c)
               /\ Held(c).current = Len(Held(c).revs)
               /\ Request(c).expected = Len(Held(c).revs)
      <4>1. PICK v \in Memory : v = Held(c)
        BY <1>1
      <4>2. receipt'[c] # 0 /\ call[c].request.expected = Len(v.revs)
        BY <1>6, <3>2, <4>1 DEF Request
      <4> QED
        BY <1>1, <2>1, <3>2, <4>1, <4>2, LineExtended
    <3> QED
      BY <1>2, <3>1, <3>2
  <2>3. \A m \in Memories : m # Target(c) => memory'[m] = memory[m]
    BY <1>2 DEF MInv, Types
  <2>4. memory'[Target(c)] = w
    BY <1>1, <1>2 DEF MInv, Types
  <2> SUFFICES ASSUME NEW m \in Memories, NEW v \in Memory, v = memory'[m] PROVE IsLine(v)'
    BY <1>3 DEF Types, Lines
  <2>5. CASE m = Target(c)
    BY <2>2, <2>4, <2>5
  <2>6. CASE m # Target(c)
    BY <2>1, <2>3, <2>6, LineStays DEF MInv, Lines
  <2> QED
    BY <2>5, <2>6
<1> QED
  BY <1>3, <1>5, <1>7, <1>8 DEF MInv

(* The lanes write neither memories nor receipts nor the ledger.           *)
LaneStep ==
    \/ ConsolidationStep \/ ConsolidationFault \/ ConsolidationRebuild
    \/ IndexStep \/ IndexFault \/ IndexRebuild

LEMMA LaneSteps ==
  ASSUME LaneStep
  PROVE  UNCHANGED <<governanceVars, ledger>>
BY DEF LaneStep, ConsolidationStep, ConsolidationFault, ConsolidationRebuild, IndexStep,
   IndexFault, IndexRebuild, WorkerStep, Claim, ListSources, ReadFrontier, QueryActive,
   InvalidateFound, ApplyBatch, Complete, Fail, CallThrows, WorkerDies, RebuildScope

LEMMA Rest ==
  ASSUME MInv, UNCHANGED <<governanceVars, ledger>>
  PROVE  MInv'
<1> USE DEF governanceVars
<1>1. Types' /\ Asked' /\ Receipts'
  BY DEF MInv, Types, Asked, Receipts, Request
<1>2. Lines'
  <2>1. \A d \in Calls, i \in Nat : Wrote(d, i) => Wrote(d, i)'
    BY DEF Wrote
  <2> SUFFICES ASSUME NEW m \in Memories, NEW v \in Memory, v = memory[m], IsLine(v)
               PROVE  IsLine(v)'
    BY DEF MInv, Types, Lines
  <2> QED
    BY <2>1, LineStays
<1> QED
  BY <1>1, <1>2 DEF MInv

LEMMA MInit == GInit => MInv
<1> SUFFICES ASSUME GInit PROVE MInv
  OBVIOUS
<1>1. NoMemory \in Memory /\ IsLine(NoMemory)
  BY DEF NoMemory, Memory, Lives, IsLine
<1>2. Types
  BY <1>1, NoCallAsks DEF GInit, Types
<1>3. Asked /\ Receipts
  BY DEF GInit, Asked, Receipts, Request
<1>4. Lines
  BY <1>1 DEF GInit, Lines
<1> QED
  BY <1>2, <1>3, <1>4 DEF MInv

LEMMA MStep == MInv /\ [Next]_vars => MInv'
<1> SUFFICES ASSUME MInv, [Next]_vars PROVE MInv'
  OBVIOUS
<1>1. CASE \E c \in Calls : Prepare(c) \/ Apply(c)
  BY <1>1, PrepareKeeps, ApplyKeeps
<1>2. CASE LaneStep \/ UNCHANGED vars
  BY <1>2, LaneSteps, Rest DEF vars
<1> QED
  BY <1>1, <1>2 DEF Next, LaneStep

(* The canonical state is well typed, callers have read what they change,  *)
(* receipts are epochs of their own, and revisions form lines.             *)
THEOREM MInvHolds == Spec => []MInv
BY MInit, MStep, PTL DEF Spec

(* A memory's revisions form one line, each written once, over the one its *)
(* caller had read; no two mutations share an epoch.                       *)
THEOREM HistoryIsLinear == Spec => []LinearHistory
<1>1. MInv => LinearHistory
  <2> SUFFICES ASSUME MInv PROVE LinearHistory
    OBVIOUS
  <2>1. TypeOK
    <3>1. \A m \in Memories : memory[m].current \in 0 .. Len(memory[m].revs)
      BY MemoryFields DEF MInv, Types, Lines, IsLine
    <3>2. receipt \in [Calls -> 0 .. ledger]
      BY DEF MInv, Types, Receipts
    <3> QED
      BY <3>1, <3>2 DEF MInv, Types, TypeOK
  <2>2. \A m \in Memories :
          /\ memory[m].current \in {0, Len(memory[m].revs)}
          /\ DOMAIN memory[m].revs = 1 .. Len(memory[m].revs)
          /\ \A i \in 1 .. Len(memory[m].revs) :
               /\ memory[m].revs[i].parent = i - 1
               /\ receipt[memory[m].revs[i].by] # 0
               /\ Request(memory[m].revs[i].by).expected = i - 1
          /\ \A i, j \in 1 .. Len(memory[m].revs) :
               memory[m].revs[i].by = memory[m].revs[j].by => i = j
    BY MemoryFields DEF MInv, Types, Lines, IsLine, Wrote, Request
  <2> QED
    BY <2>1, <2>2 DEF MInv, Receipts, LinearHistory
<1> QED
  BY <1>1, MInvHolds, PTL

(* A receipt is never replaced.                                            *)
THEOREM ReceiptsStand == Spec => AnsweredOnce
<1>1. MInv /\ [Next]_vars => [\A c \in Calls : receipt[c] # 0 => receipt'[c] = receipt[c]]_vars
  <2> SUFFICES ASSUME MInv, Next, NEW d \in Calls, receipt[d] # 0
               PROVE  receipt'[d] = receipt[d]
    BY DEF AnsweredOnce
  <2>1. CASE \E c \in Calls : Prepare(c)
    BY <2>1 DEF Prepare
  <2>2. ASSUME NEW c \in Calls, Apply(c) PROVE receipt'[d] = receipt[d]
    BY <2>2, Applying DEF MInv, Types
  <2>3. CASE LaneStep
    BY <2>3, LaneSteps DEF governanceVars
  <2> QED
    BY <2>1, <2>2, <2>3 DEF Next, LaneStep
<1> QED
  BY <1>1, MInvHolds, PTL DEF Spec, AnsweredOnce
-----------------------------------------------------------------------------
(* The views.  A job of the index that is still to run and removes a row:  *)
Removes(n, r) == IF n.kind = "invalidate" THEN n.about[1] = r[1] ELSE n.about = r

JobsTyped ==
    \A n \in DOMAIN fjobs :
       fjobs[n] \in [st : {"pending", "failed", "processed"}, tries : Nat]
WithdrawnGoes == \A r \in rows : r \in Indexable \/ \E n \in Outstanding : Removes(n, r)
ReadyIsDone == fts = "ready" => Outstanding = {}

FtsInv == JobsTyped /\ WithdrawnGoes /\ ReadyIsDone

(* The worker's steps from the listing of the sources to their publication. *)
Underway == {"frontier", "query", "invalidate", "apply"}
WorkerSteps == Underway \cup {"idle", "list", "complete", "fail"}
Sources == Memories \X Nat
Statuses == {"pending", "ready"}
Plans == [seen : Nat, sources : SUBSET Sources, epoch : Nat, front : Statuses,
          frontLedger : Nat, found : SUBSET (SUBSET Sources)]

Workers == [step : WorkerSteps, held : SUBSET (Calls \X {"invalidate", "refresh"}),
            plan : Plans, faults : Nat]

LayeredTypes ==
    /\ active \subseteq SUBSET Sources
    /\ scope \in [status : Statuses, ledger : Nat, epoch : Nat, batch : Nat]
    /\ DOMAIN pjobs \subseteq Calls \X {"invalidate", "refresh"}
    /\ worker \in Workers

NoneIsEmpty == {} \notin active
ListedIsEligible ==
    worker.step \in Underway =>
       /\ worker.plan.seen <= ledger
       /\ worker.plan.seen = ledger => worker.plan.sources = Eligible
InvalidatesAll == worker.step = "invalidate" => worker.plan.sources = {}
ReadyIsListed ==
    worker.step \in Underway /\ scope.status = "ready" => worker.plan.sources = Eligible

LayeredInv ==
    /\ LayeredTypes /\ NoneIsEmpty
    /\ ListedIsEligible /\ InvalidatesAll /\ ReadyIsListed
    /\ ProjectionsSound

(* A lane that is not followed rests.                                      *)
Apart ==
    /\ lane = "layered" => rows = {} /\ fjobs = << >>
    /\ lane = "fts" => active = {} /\ scope.status = "pending" /\ worker.step = "idle"

GovInv == MInv /\ FtsInv /\ LayeredInv /\ Apart
(* What the reader sees.                                                   *)
LEMMA IndexableIs ==
  ASSUME NEW r
  PROVE  r \in Indexable <=> \E m \in Memories : /\ r = <<m, memory[m].current>>
                                                 /\ Active(memory[m]) /\ m \notin conflict
BY DEF Indexable, Activated, Current, Active

(* A call that leaves the rules alone changes what may be used only by its *)
(* target.                                                                 *)
LEMMA Touches ==
  ASSUME MInv, NEW t \in Memories, NEW w, memory' = [memory EXCEPT ![t] = w],
         conflict' \in {conflict, conflict \cup {t}}, UNCHANGED rules
  PROVE  /\ \A r \in Indexable : r \in Indexable' \/ r = <<t, memory[t].current>>
         /\ \A r \in Eligible : r \in Eligible' \/ r = <<t, memory[t].current>>
         /\ ~Active(w) \/ t \in conflict' => Eligible' \subseteq Eligible
<1>1. memory'[t] = w /\ \A m \in Memories : m # t => memory'[m] = memory[m]
  BY DEF MInv, Types
<1>2. \A r \in Indexable : r \in Indexable' \/ r = <<t, memory[t].current>>
  <2> SUFFICES ASSUME NEW r \in Indexable, r # <<t, memory[t].current>>
               PROVE  r \in Indexable'
    OBVIOUS
  <2>1. PICK m \in Memories : /\ r = <<m, memory[m].current>>
                              /\ Active(memory[m]) /\ m \notin conflict
    BY IndexableIs
  <2>2. m # t /\ memory'[m] = memory[m] /\ m \notin conflict'
    BY <1>1, <2>1
  <2> QED
    BY <2>1, <2>2 DEF Indexable, Activated, Current, Active
<1>3. \A r : UsageBlocked(r)' <=> UsageBlocked(r)
  BY DEF UsageBlocked
<1>4. \A r \in Eligible : r \in Eligible' \/ r = <<t, memory[t].current>>
  BY <1>2, <1>3 DEF Eligible
<1>5. ASSUME ~Active(w) \/ t \in conflict', NEW r \in Indexable' PROVE r \in Indexable
  <2>1. PICK m \in Memories : /\ r = <<m, memory'[m].current>>
                              /\ Active(memory'[m]) /\ m \notin conflict'
    BY <1>5 DEF Indexable, Activated, Current, Active
  <2>2. m # t /\ memory'[m] = memory[m] /\ m \notin conflict
    BY <1>1, <1>5, <2>1
  <2> QED
    BY <2>1, <2>2, IndexableIs
<1>6. ~Active(w) \/ t \in conflict' => Eligible' \subseteq Eligible
  BY <1>3, <1>5 DEF Eligible
<1> QED
  BY <1>2, <1>4, <1>6

(* What a call tells the lane it has taken out of use: the sources s, and  *)
(* the rows of the jobs k; with no sources and none renewed it has neither *)
(* taken out nor brought in any.                                           *)
Told(c, s, f, k) ==
    /\ \/ Effects(c, s, f, k)
       \/ NoEffects /\ s = {} /\ f = {} /\ k = {}
    /\ Eligible \subseteq Eligible' \cup s
    /\ s = {} /\ f = {} => Eligible' \subseteq Eligible
    /\ \A r \in Indexable \ Indexable' : \E n \in FtsJobs(c, k) : Removes(n, r)

LEMMA WithdrawnRemoves ==
  ASSUME NEW c \in Calls, NEW r, r[1] = Target(c)
  PROVE  \E n \in FtsJobs(c, WithdrawnRow(c)) : Removes(n, r)
<1> DEFINE n == [kind |-> "invalidate", about |-> <<Target(c), 0>>, at |-> Request(c).at]
<1>1. n \in FtsJobs(c, WithdrawnRow(c))
  BY DEF FtsJobs, WithdrawnRow
<1>2. Removes(n, r)
  BY DEF Removes
<1> QED
  BY <1>1, <1>2

LEMMA ChangesRemove ==
  ASSUME NEW c \in Calls, NEW life, Held(c).current # 0
  PROVE  \E n \in FtsJobs(c, RowChanges(c, life)) : Removes(n, <<Target(c), Held(c).current>>)
<1> DEFINE r == <<Target(c), Held(c).current>>
           k == <<"delete", r>>
           n == [kind |-> "delete", about |-> r, at |-> Request(c).at]
<1>1. k \in RowChanges(c, life) /\ k[1] = "delete" /\ k[2] = r
  BY DEF RowChanges, Superseded
<1>2. n \in FtsJobs(c, RowChanges(c, life))
  BY <1>1 DEF FtsJobs
<1>3. Removes(n, r)
  BY DEF Removes
<1> QED
  BY <1>2, <1>3
(* A source of the target that may be used is its current revision.        *)
LEMMA Newest ==
  ASSUME NEW c \in Calls, NEW r \in Indexable, r[1] = Target(c)
  PROVE  Held(c).current # 0 /\ r = <<Target(c), Held(c).current>> /\ r \in Superseded(c)
<1>1. PICK m \in Memories : r = <<m, memory[m].current>> /\ Active(memory[m])
  BY IndexableIs
<1> QED
  BY <1>1 DEF Held, Superseded, Active

LEMMA WritesTold ==
  ASSUME MInv, NEW c \in Calls, Target(c) \in Memories, NEW w, NEW life,
         memory' = [memory EXCEPT ![Target(c)] = w], UNCHANGED <<conflict, rules>>,
         w.life = life,
         Effects(c, Superseded(c), IF life = "active" THEN {Successor(c)} ELSE {},
                 RowChanges(c, life))
  PROVE  \E s, f, k : Told(c, s, f, k)
<1> DEFINE s == Superseded(c)
           f == IF life = "active" THEN {Successor(c)} ELSE {}
           k == RowChanges(c, life)
<1>1. \A r \in Indexable : r[1] = Target(c) => r \in s /\ Held(c).current # 0
                                               /\ r = <<Target(c), Held(c).current>>
  BY Newest
<1>2. /\ \A r \in Indexable : r \in Indexable' \/ r = <<Target(c), Held(c).current>>
      /\ \A r \in Eligible : r \in Eligible' \/ r = <<Target(c), Held(c).current>>
      /\ ~Active(w) => Eligible' \subseteq Eligible
  BY Touches DEF Held
<1>3. Eligible \subseteq Eligible' \cup s
  BY <1>1, <1>2 DEF Eligible
<1>4. f = {} => Eligible' \subseteq Eligible
  BY <1>2 DEF Active
<1>5. \A r \in Indexable \ Indexable' : \E n \in FtsJobs(c, k) : Removes(n, r)
  BY <1>1, <1>2, ChangesRemove
<1>6. Told(c, s, f, k)
  BY <1>3, <1>4, <1>5 DEF Told
<1> QED
  BY <1>6

LEMMA WithdrawsTold ==
  ASSUME MInv, NEW c \in Calls, Target(c) \in Memories, NEW w,
         memory' = [memory EXCEPT ![Target(c)] = w],
         conflict' \in {conflict, conflict \cup {Target(c)}}, UNCHANGED rules,
         ~Active(w) \/ Target(c) \in conflict',
         Effects(c, Superseded(c), {}, WithdrawnRow(c))
  PROVE  \E s, f, k : Told(c, s, f, k)
<1> DEFINE s == Superseded(c)
           k == WithdrawnRow(c)
<1>1. \A r \in Indexable : r[1] = Target(c) => r \in s
  BY Newest
<1>2. /\ \A r \in Indexable : r \in Indexable' \/ r = <<Target(c), Held(c).current>>
      /\ \A r \in Eligible : r \in Eligible' \/ r = <<Target(c), Held(c).current>>
      /\ Eligible' \subseteq Eligible
  BY Touches DEF Held
<1>3. Eligible \subseteq Eligible' \cup s
  BY <1>1, <1>2 DEF Eligible
<1>4. \A r \in Indexable \ Indexable' : \E n \in FtsJobs(c, k) : Removes(n, r)
  BY <1>2, WithdrawnRemoves
<1>5. Told(c, s, {}, k)
  BY <1>2, <1>3, <1>4 DEF Told
<1> QED
  BY <1>5

LEMMA ReusesTold ==
  ASSUME MInv, NEW c \in Calls, Target(c) \in Memories, Reuse(c)
  PROVE  Told(c, {}, {}, {})
<1>1. PICK w : /\ memory' = [memory EXCEPT ![Target(c)] = w]
               /\ w.current = Held(c).current /\ Active(w) = Active(Held(c))
  BY Relinks
<1>2. UNCHANGED <<conflict, rules>> /\ NoEffects
  BY DEF Reuse
<1>3. \A m \in Memories : /\ memory'[m].current = memory[m].current
                          /\ Active(memory'[m]) = Active(memory[m])
  BY <1>1 DEF MInv, Types, Held
<1>4. Indexable' = Indexable
  BY <1>2, <1>3 DEF Indexable, Activated, Current, Active
<1>5. Eligible' = Eligible
  BY <1>2, <1>4 DEF Eligible, UsageBlocked
<1> QED
  BY <1>2, <1>4, <1>5 DEF Told

(* A rule on the current revision withdraws no other source; one that      *)
(* allows withdraws none.                                                  *)
LEMMA UsageTold ==
  ASSUME MInv, NEW c \in Calls, Target(c) \in Memories, Held(c).current # 0, UsageSet(c)
  PROVE  \E s, f : Told(c, s, f, {})
<1> DEFINE own == <<Target(c), Held(c).current>>
           effect == IF Request(c).tool = "usage_block" THEN "block" ELSE "allow"
           x == [source |-> own, effect |-> effect, at |-> Request(c).at, by |-> c]
<1>1. rules' = rules \cup {x} /\ UNCHANGED <<memory, conflict>> /\ Superseded(c) = {own}
  BY DEF UsageSet, Superseded
<1>2. Indexable' = Indexable
  BY <1>1 DEF Indexable, Activated, Current
<1>3. x.source = own /\ x.effect = effect
  OBVIOUS
<1> HIDE DEF x
<1>4. \A r : r # own => (UsageBlocked(r)' => UsageBlocked(r))
  BY <1>1, <1>3 DEF UsageBlocked
<1>5. effect # "block" => \A r : UsageBlocked(r)' => UsageBlocked(r)
  BY <1>1, <1>3 DEF UsageBlocked
<1>6. CASE Request(c).tool = "usage_block"
  <2>1. Effects(c, {own}, {}, {})
    BY <1>1, <1>6 DEF UsageSet
  <2> QED
    BY <1>2, <1>4, <2>1 DEF Told, Eligible
<1>7. CASE Request(c).tool # "usage_block"
  <2>1. Effects(c, {}, {own}, {})
    BY <1>1, <1>7 DEF UsageSet
  <2>2. Eligible \subseteq Eligible' \cup {}
    BY <1>2, <1>5, <1>7 DEF Eligible
  <2>3. Told(c, {}, {own}, {})
    <3> HIDE DEF own
    <3> QED
      BY <1>2, <2>1, <2>2 DEF Told
  <2> QED
    BY <2>3
<1> QED
  BY <1>6, <1>7

LEMMA Rewrites ==
  ASSUME NEW c \in Calls, NEW content, NEW life, NEW linked, Write(c, content, life, linked)
  PROVE  \E w : memory' = [memory EXCEPT ![Target(c)] = w] /\ w.life = life
<1> DEFINE v == memory[Target(c)]
           w == [life |-> life, current |-> Len(v.revs) + 1,
                 revs |-> Append(v.revs, [content |-> content, life |-> life,
                                          parent |-> v.current,
                                          linked |-> linked, by |-> c])]
<1>1. memory' = [memory EXCEPT ![Target(c)] = w]
  BY DEF Write
<1>2. w.life = life
  OBVIOUS
<1> HIDE DEF w
<1> QED
  BY <1>1, <1>2

LEMMA ApplyTells ==
  ASSUME MInv, NEW c \in Calls, Apply(c)
  PROVE  \E s, f, k : Told(c, s, f, k)
<1>1. /\ Target(c) \in Memories /\ IsAsked(Request(c)) /\ Request(c) \in Asking
      /\ Held(c) \in Memory
  BY Applying
<1>2. ASSUME WriteGoverned(c), Request(c).tool \in {"memory_propose", "memory_correct"}
      PROVE  \E s, f, k : Told(c, s, f, k)
  <2>1. PICK life \in Written : life = Lifecycle(Request(c).decision)
    BY <1>1, <1>2, VerdictWritten DEF IsAsked
  <2>2. Write(c, Request(c).content, life, TRUE)
    BY <1>2, <2>1 DEF WriteGoverned
  <2>3. PICK w : memory' = [memory EXCEPT ![Target(c)] = w] /\ w.life = life
    BY <2>2, Rewrites
  <2>4. /\ UNCHANGED <<conflict, rules>>
        /\ Effects(c, Superseded(c), IF life = "active" THEN {Successor(c)} ELSE {},
                   RowChanges(c, life))
    BY <1>2, <2>1 DEF WriteGoverned
  <2> QED
    BY <1>1, <2>3, <2>4, WritesTold
<1>3. CASE Propose(c)
  <2>1. CASE OpenConflict(c)
    <3>1. /\ memory' = [memory EXCEPT ![Target(c)] = Held(c)]
          /\ conflict' = conflict \cup {Target(c)} /\ UNCHANGED rules
          /\ Effects(c, Superseded(c), {}, WithdrawnRow(c))
      BY <1>1, <2>1, Rests DEF OpenConflict
    <3> QED
      BY <1>1, <3>1, WithdrawsTold
  <2> QED
    BY <1>1, <1>2, <1>3, <2>1, ReusesTold DEF Propose
<1>4. CASE Correct(c)
  BY <1>1, <1>2, <1>4, ReusesTold DEF Correct
<1>5. CASE Pin(c)
  <2>1. Indexable' = Indexable /\ Eligible' = Eligible /\ NoEffects
    BY <1>5 DEF Pin, Indexable, Activated, Current, Eligible, UsageBlocked
  <2>2. Told(c, {}, {}, {})
    BY <2>1 DEF Told
  <2> QED
    BY <2>2
<1>6. CASE UsageSet(c)
  <2>1. Held(c).current # 0
    BY <1>1, <1>6, AsksFields, MemoryFields DEF IsAsked, UsageSet, StillCurrent
  <2> QED
    BY <1>1, <1>6, <2>1, UsageTold
<1>7. CASE Demote(c) \/ Revoke(c) \/ Delete(c)
  <2>1. PICK w : memory' = [memory EXCEPT ![Target(c)] = w] /\ ~Active(w)
    BY <1>1, <1>7, Withdraws DEF Demote, Revoke, Delete
  <2>2. UNCHANGED <<conflict, rules>> /\ Effects(c, Superseded(c), {}, WithdrawnRow(c))
    BY <1>7 DEF Demote, Revoke, Delete
  <2> QED
    BY <1>1, <2>1, <2>2, WithdrawsTold
<1>8. CASE LearningEffect(c)
  <2>1. PICK source : source = Held(c).revs[Request(c).source]
    OBVIOUS
  <2>2. PICK life \in {"active", source.life} :
              /\ Write(c, source.content, life, FALSE)
              /\ Effects(c, Superseded(c), IF life = "active" THEN {Successor(c)} ELSE {},
                         RowChanges(c, life))
    BY <1>8, <2>1 DEF LearningEffect
  <2>3. PICK w : memory' = [memory EXCEPT ![Target(c)] = w] /\ w.life = life
    BY <2>2, Rewrites
  <2>4. UNCHANGED <<conflict, rules>>
    BY <1>8 DEF LearningEffect
  <2> QED
    BY <1>1, <2>2, <2>3, <2>4, WritesTold
<1> QED
  BY <1>3, <1>4, <1>5, <1>6, <1>7, <1>8 DEF Apply
-----------------------------------------------------------------------------
(* The full-text lane.                                                     *)
(* A source that is withdrawn has its job in the same transaction.         *)
LEMMA EnqueueKeeps ==
  ASSUME FtsInv, NEW names, Nameable(names), Enqueue(names),
         \A r \in Indexable \ Indexable' : \E n \in names : Removes(n, r)
  PROVE  FtsInv'
<1>1. /\ DOMAIN fjobs' = DOMAIN fjobs \cup names
      /\ \A n \in names : fjobs'[n] = [st |-> "pending", tries |-> 0]
      /\ \A n \in DOMAIN fjobs : fjobs'[n] = fjobs[n]
      /\ rows' = rows
  BY DEF Enqueue, Nameable
<1>2. Outstanding' = Outstanding \cup names
  BY <1>1 DEF Outstanding
<1>3. JobsTyped'
  BY <1>1 DEF FtsInv, JobsTyped
<1>4. WithdrawnGoes'
  <2> SUFFICES ASSUME NEW r \in rows PROVE r \in Indexable' \/ \E n \in Outstanding' : Removes(n, r)
    BY <1>1 DEF WithdrawnGoes, Removes
  <2>1. r \in Indexable \/ \E n \in Outstanding : Removes(n, r)
    BY DEF FtsInv, WithdrawnGoes
  <2> QED
    BY <1>2, <2>1
<1>5. ReadyIsDone'
  BY <1>2 DEF FtsInv, ReadyIsDone, Enqueue
<1> QED
  BY <1>3, <1>4, <1>5 DEF FtsInv

(* Nothing of the lane moves, and nothing is withdrawn.                    *)
LEMMA FtsRests ==
  ASSUME FtsInv, UNCHANGED ftsVars, rows = {} \/ Indexable \subseteq Indexable'
  PROVE  FtsInv'
BY DEF FtsInv, ftsVars, JobsTyped, WithdrawnGoes, ReadyIsDone, Outstanding, Removes

LEMMA FtsApply ==
  ASSUME MInv, FtsInv, Apart, NEW c \in Calls, Apply(c)
  PROVE  FtsInv'
<1>1. PICK s, f, k : Told(c, s, f, k)
  BY ApplyTells
<1>2. \A r \in Indexable \ Indexable' : \E n \in FtsJobs(c, k) : Removes(n, r)
  BY <1>1 DEF Told
<1>3. CASE lane = "layered" /\ UNCHANGED ftsVars
  BY <1>3, FtsRests DEF Apart
<1>4. CASE lane = "fts" /\ Nameable(FtsJobs(c, k)) /\ Enqueue(FtsJobs(c, k))
  BY <1>2, <1>4, EnqueueKeeps
<1>5. CASE NoEffects /\ k = {}
  <2>1. FtsJobs(c, k) = {}
    BY <1>5 DEF FtsJobs
  <2>2. Indexable \subseteq Indexable'
    BY <1>2, <2>1
  <2> QED
    BY <1>5, <2>2, FtsRests DEF NoEffects
<1> QED
  BY <1>1, <1>3, <1>4, <1>5 DEF Told, Effects

(* What may be used changes with the canonical state only.                 *)
LEMMA SameUse ==
  ASSUME UNCHANGED <<memory, conflict, rules>>
  PROVE  Indexable' = Indexable /\ Eligible' = Eligible
BY DEF Indexable, Activated, Current, Eligible, UsageBlocked

(* A job that has run, or has failed.                                      *)
LEMMA JobMoves ==
  ASSUME FtsInv, NEW n \in DOMAIN fjobs, NEW st \in {"processed", "failed"},
         fjobs' = [fjobs EXCEPT ![n].st = st, ![n].tries = @ + 1]
  PROVE  /\ DOMAIN fjobs' = DOMAIN fjobs /\ fjobs'[n].st = st
         /\ \A m \in DOMAIN fjobs : m # n => fjobs'[m] = fjobs[m]
         /\ JobsTyped'
<1> DEFINE x == [fjobs[n] EXCEPT !.st = st]
           y == [x EXCEPT !.tries = x.tries + 1]
           first == [fjobs EXCEPT ![n] = x]
<1>1. x \in [st : {st}, tries : Nat]
  BY DEF FtsInv, JobsTyped
<1>2. y \in [st : {st}, tries : Nat] /\ y.st = st
  <2> HIDE DEF x
  <2> QED
    BY <1>1
<1>3. first[n] = x /\ DOMAIN first = DOMAIN fjobs
      /\ \A m \in DOMAIN fjobs : m # n => first[m] = fjobs[m]
  OBVIOUS
<1>4. fjobs' = [first EXCEPT ![n] = y]
  <2>1. fjobs' = [first EXCEPT ![n].tries = first[n].tries + 1]
    OBVIOUS
  <2> HIDE DEF x, first
  <2> QED
    BY <1>3, <2>1
<1> HIDE DEF x, y, first
<1>5. /\ DOMAIN fjobs' = DOMAIN fjobs /\ fjobs'[n] = y
      /\ \A m \in DOMAIN fjobs : m # n => fjobs'[m] = fjobs[m]
  BY <1>3, <1>4
<1>6. JobsTyped'
  BY <1>2, <1>5 DEF FtsInv, JobsTyped
<1> QED
  BY <1>2, <1>5, <1>6

LEMMA RunJobKeeps ==
  ASSUME FtsInv, RunJob(Indexable), Indexable' = Indexable
  PROVE  FtsInv'
<1>1. PICK n \in Runnable :
        /\ rows' = Indexed(n, Indexable)
        /\ fjobs' = [fjobs EXCEPT ![n].st = "processed", ![n].tries = @ + 1]
  BY DEF RunJob
<1>2. n \in Outstanding /\ n \in DOMAIN fjobs
  BY DEF Runnable, Outstanding
<1>3. /\ DOMAIN fjobs' = DOMAIN fjobs /\ fjobs'[n].st = "processed" /\ JobsTyped'
      /\ \A m \in DOMAIN fjobs : m # n => fjobs'[m] = fjobs[m]
  BY <1>1, <1>2, JobMoves
<1>4. Outstanding' = Outstanding \ {n}
  BY <1>2, <1>3 DEF Outstanding
<1>5. WithdrawnGoes'
  <2> SUFFICES ASSUME NEW r \in rows'
               PROVE  r \in Indexable \/ \E m \in Outstanding' : Removes(m, r)
    BY DEF WithdrawnGoes, Removes
  <2>1. r \in Indexable \/ (r \in rows /\ ~Removes(n, r))
    BY <1>1 DEF Indexed, RowsOf, Removes
  <2> QED
    BY <1>4, <2>1 DEF FtsInv, WithdrawnGoes
<1>6. ReadyIsDone'
  BY <1>2 DEF FtsInv, ReadyIsDone, RunJob
<1> QED
  BY <1>3, <1>5, <1>6 DEF FtsInv

LEMMA JobFailsKeeps ==
  ASSUME FtsInv, JobFails, Indexable' = Indexable
  PROVE  FtsInv'
<1>1. PICK n \in Runnable :
        fjobs' = [fjobs EXCEPT ![n].st = "failed", ![n].tries = @ + 1]
  BY DEF JobFails
<1>2. n \in Outstanding /\ n \in DOMAIN fjobs
  BY DEF Runnable, Outstanding
<1>3. /\ DOMAIN fjobs' = DOMAIN fjobs /\ fjobs'[n].st = "failed" /\ JobsTyped'
      /\ \A m \in DOMAIN fjobs : m # n => fjobs'[m] = fjobs[m]
  BY <1>1, <1>2, JobMoves
<1>4. Outstanding' = Outstanding
  BY <1>2, <1>3 DEF Outstanding
<1>5. WithdrawnGoes' /\ ReadyIsDone'
  BY <1>4 DEF FtsInv, WithdrawnGoes, ReadyIsDone, JobFails, Removes
<1> QED
  BY <1>3, <1>5 DEF FtsInv

LEMMA FtsSteps ==
  ASSUME FtsInv, Indexable' = Indexable,
         Settle \/ RebuildFts(Indexable)
  PROVE  FtsInv'
<1>1. CASE Settle
  <2>1. UNCHANGED <<rows, fjobs>> /\ (fts' = "ready" => Outstanding = {})
    BY <1>1 DEF Settle, Settled
  <2> QED
    BY <2>1 DEF FtsInv, JobsTyped, WithdrawnGoes, ReadyIsDone, Outstanding, Removes
<1>2. CASE RebuildFts(Indexable)
  <2>1. JobsTyped' /\ Outstanding' = {}
    BY <1>2 DEF RebuildFts, FtsInv, JobsTyped, Outstanding
  <2> QED
    BY <1>2, <2>1 DEF RebuildFts, FtsInv, WithdrawnGoes, ReadyIsDone
<1> QED
  BY <1>1, <1>2
-----------------------------------------------------------------------------
(* The layered projections.                                                *)

LEMMA EligibleTyped ==
  ASSUME MInv
  PROVE  /\ Eligible \subseteq Sources
         /\ Project(Eligible) \subseteq SUBSET Sources /\ {} \notin Project(Eligible)
         /\ \A p \in Project(Eligible) : p \subseteq Eligible
<1>1. Eligible \subseteq Sources
  <2> SUFFICES ASSUME NEW r \in Eligible PROVE r \in Sources
    OBVIOUS
  <2>1. PICK m \in Memories : r = <<m, memory[m].current>>
    BY IndexableIs DEF Eligible
  <2>2. memory[m].current \in Nat
    BY MemoryFields DEF MInv, Types
  <2> QED
    BY <2>1, <2>2 DEF Sources
<1> QED
  BY <1>1 DEF Project

LEMMA LayeredApply ==
  ASSUME MInv, LayeredInv, Apart, NEW c \in Calls, Apply(c)
  PROVE  LayeredInv'
<1>1. PICK s, f, k : Told(c, s, f, k)
  BY ApplyTells
<1>2. ledger' = ledger + 1 /\ ledger \in Nat
  BY Applying DEF MInv, Types
<1>3. worker \in Workers /\ worker.plan \in Plans /\ worker.plan.seen \in Nat
  BY DEF LayeredInv, LayeredTypes, Workers, Plans
<1>4. /\ worker' = worker /\ active' \subseteq active
      /\ \A p \in active' : p \cap s = {} \/ lane = "fts"
      /\ scope' \in [status : Statuses, ledger : Nat, epoch : Nat, batch : Nat]
      /\ DOMAIN pjobs' \subseteq Calls \X {"invalidate", "refresh"}
      /\ scope'.status = "ready" => \/ scope'.status = scope.status /\ s = {} /\ f = {}
                                       /\ active' = active
                                    \/ lane = "fts" /\ scope' = scope
  <2>1. CASE NoEffects /\ s = {} /\ f = {}
    BY <2>1 DEF NoEffects, layeredVars, LayeredInv, LayeredTypes
  <2>2. CASE lane = "fts" /\ UNCHANGED layeredVars
    BY <2>2 DEF layeredVars, LayeredInv, LayeredTypes
  <2>3. CASE Effect(c, s, f)
    <3> DEFINE new == {c} \X EffectKinds(s, f)
    <3>1. /\ worker' = worker /\ active' = active \ Descendants(s)
          /\ scope' = IF new = {} THEN scope
                      ELSE [scope EXCEPT !.status = "pending", !.ledger = ledger + 1]
          /\ DOMAIN pjobs' = DOMAIN pjobs \cup new
      BY <2>3 DEF Effect
    <3>2. EffectKinds(s, f) \subseteq {"invalidate", "refresh"}
      BY DEF EffectKinds
    <3>3. new = {} => s = {} /\ f = {}
      <4>1. \A x \in EffectKinds(s, f) : <<c, x>> \in new
        OBVIOUS
      <4> HIDE DEF new
      <4>2. new = {} => EffectKinds(s, f) = {}
        BY <4>1
      <4> QED
        BY <4>2 DEF EffectKinds
    <3>4. new \subseteq Calls \X {"invalidate", "refresh"}
      BY <3>2
    <3> HIDE DEF new
    <3>5. /\ scope' \in [status : Statuses, ledger : Nat, epoch : Nat, batch : Nat]
          /\ new # {} => scope'.status = "pending"
      <4>1. scope \in [status : Statuses, ledger : Nat, epoch : Nat, batch : Nat]
        BY DEF LayeredInv, LayeredTypes
      <4>2. CASE new = {}
        BY <3>1, <4>1, <4>2
      <4>3. CASE new # {}
        <5> DEFINE turned == [scope EXCEPT !.status = "pending"]
        <5>1. turned \in [status : Statuses, ledger : Nat, epoch : Nat, batch : Nat]
              /\ turned.status = "pending"
          BY <4>1 DEF Statuses
        <5>2. scope' = [turned EXCEPT !.ledger = ledger + 1]
          BY <3>1, <4>3
        <5> HIDE DEF turned
        <5> QED
          BY <1>2, <5>1, <5>2
      <4> QED
        BY <4>2, <4>3
    <3>6. \A p \in active' : p \cap s = {}
      BY <3>1 DEF Descendants
    <3>7. s = {} => active' = active
      BY <3>1 DEF Descendants
    <3> QED
      BY <3>1, <3>3, <3>4, <3>5, <3>6, <3>7 DEF LayeredInv, LayeredTypes
  <2> QED
    BY <1>1, <2>1, <2>2, <2>3 DEF Told, Effects
<1>5. LayeredTypes' /\ NoneIsEmpty' /\ InvalidatesAll'
  BY <1>4 DEF LayeredInv, LayeredTypes, NoneIsEmpty, InvalidatesAll
<1>6. ListedIsEligible'
  BY <1>2, <1>3, <1>4 DEF LayeredInv, ListedIsEligible
<1>7. s = {} /\ f = {} => Eligible' = Eligible
  BY <1>1 DEF Told
<1>8. CASE lane = "fts"
  <2>1. active' = {} /\ worker'.step = "idle" /\ scope'.status # "ready"
    BY <1>4, <1>8 DEF Apart
  <2>2. ReadyIsListed' /\ ProjectionsSound'
    BY <2>1 DEF ReadyIsListed, ProjectionsSound
  <2> QED
    BY <1>5, <1>6, <2>2 DEF LayeredInv
<1>9. CASE lane # "fts"
  <2>1. ReadyIsListed'
    BY <1>4, <1>7, <1>9 DEF LayeredInv, ReadyIsListed
  <2>2. \A p \in active' : p \subseteq Eligible'
    BY <1>1, <1>4, <1>9 DEF Told, LayeredInv, ProjectionsSound
  <2>3. scope'.status = "ready" => active' = Project(Eligible')
    BY <1>4, <1>7, <1>9 DEF LayeredInv, ProjectionsSound
  <2>4. ProjectionsSound'
    BY <2>2, <2>3 DEF ProjectionsSound, Project
  <2> QED
    BY <1>5, <1>6, <2>1, <2>4 DEF LayeredInv
<1> QED
  BY <1>8, <1>9
LEMMA WorkerFields ==
  ASSUME NEW w \in Workers
  PROVE  /\ w.step \in WorkerSteps /\ w.held \subseteq Calls \X {"invalidate", "refresh"}
         /\ w.plan \in Plans /\ w.faults \in Nat
         /\ w.plan.seen \in Nat /\ w.plan.sources \subseteq Sources
BY DEF Workers, Plans

LEMMA NoPlanTyped == NoPlan \in Plans
BY DEF NoPlan, Plans, Statuses

(* What the worker becomes when it leaves its plan.                        *)
LEMMA LeaveTyped ==
  ASSUME worker \in Workers, NEW step \in WorkerSteps
  PROVE  Leave(step) \in Workers /\ Leave(step).step = step
BY NoPlanTyped DEF Leave, Workers

LEMMA IdleTyped ==
  ASSUME worker \in Workers, NEW w, NEW n \in Nat, w = [IdleWorker EXCEPT !.faults = n]
  PROVE  w \in Workers /\ w.step = "idle"
<1>1. IdleWorker \in Workers /\ IdleWorker.step = "idle"
  BY NoPlanTyped DEF IdleWorker, Workers, WorkerSteps
<1> HIDE DEF IdleWorker
<1> QED
  BY <1>1 DEF Workers

(* A worker that is between its plans reads nothing that can go stale.     *)
LEMMA BetweenPlans ==
  ASSUME LayeredInv, UNCHANGED <<memory, conflict, rules, ledger, active, scope>>,
         DOMAIN pjobs' \subseteq DOMAIN pjobs, worker' \in Workers, worker'.step \notin Underway
  PROVE  LayeredInv'
<1>1. Eligible' = Eligible
  BY SameUse
<1>2. LayeredTypes' /\ NoneIsEmpty'
  BY DEF LayeredInv, LayeredTypes, NoneIsEmpty
<1>3. ListedIsEligible' /\ InvalidatesAll' /\ ReadyIsListed'
  BY DEF ListedIsEligible, InvalidatesAll, ReadyIsListed, Underway
<1>4. ProjectionsSound'
  BY <1>1 DEF LayeredInv, ProjectionsSound, Project
<1> QED
  BY <1>2, <1>3, <1>4 DEF LayeredInv

(* One that is under way with the sources it has listed.                   *)
LEMMA SamePlan ==
  ASSUME LayeredInv, UNCHANGED <<memory, conflict, rules, ledger, active, scope, pjobs>>,
         worker' \in Workers, worker.step \in Underway,
         worker'.plan.seen = worker.plan.seen, worker'.plan.sources = worker.plan.sources,
         worker'.step = "invalidate" => worker'.plan.sources = {}
  PROVE  LayeredInv'
<1>1. Eligible' = Eligible
  BY SameUse
<1>2. LayeredTypes' /\ NoneIsEmpty' /\ InvalidatesAll'
  BY DEF LayeredInv, LayeredTypes, NoneIsEmpty, InvalidatesAll
<1>3. ListedIsEligible' /\ ReadyIsListed'
  BY <1>1 DEF LayeredInv, ListedIsEligible, ReadyIsListed
<1>4. ProjectionsSound'
  BY <1>1 DEF LayeredInv, ProjectionsSound, Project
<1> QED
  BY <1>2, <1>3, <1>4 DEF LayeredInv

LEMMA ListSourcesKeeps ==
  ASSUME MInv, LayeredInv, ListSources(Eligible), UNCHANGED <<memory, conflict, rules>>
  PROVE  LayeredInv'
<1> DEFINE first == [NoPlan EXCEPT !.seen = ledger]
           plan == [first EXCEPT !.sources = Eligible]
<1>1. plan \in Plans /\ plan.seen = ledger /\ plan.sources = Eligible
  <2>1. first \in Plans /\ first.seen = ledger
    BY NoPlanTyped DEF MInv, Types, Plans
  <2> HIDE DEF first
  <2> QED
    BY <2>1, EligibleTyped DEF Plans
<1>2. worker' = [worker EXCEPT !.step = "frontier", !.plan = plan] /\ worker \in Workers
  BY DEF ListSources, LayeredInv, LayeredTypes
<1> HIDE DEF plan
<1>3. worker' \in Workers /\ worker'.step = "frontier" /\ worker'.plan = plan
  BY <1>1, <1>2 DEF Workers, WorkerSteps, Underway
<1>4. Eligible' = Eligible /\ ledger \in Nat
  BY SameUse DEF MInv, Types
<1>5. LayeredTypes' /\ NoneIsEmpty' /\ InvalidatesAll'
  BY <1>3 DEF LayeredInv, LayeredTypes, NoneIsEmpty, InvalidatesAll, ListSources
<1>6. ListedIsEligible' /\ ReadyIsListed'
  BY <1>1, <1>3, <1>4 DEF ListedIsEligible, ReadyIsListed, ListSources
<1>7. ProjectionsSound'
  BY <1>4 DEF LayeredInv, ProjectionsSound, Project, ListSources
<1> QED
  BY <1>5, <1>6, <1>7 DEF LayeredInv

LEMMA ReadFrontierKeeps ==
  ASSUME LayeredInv, ReadFrontier, UNCHANGED <<memory, conflict, rules>>
  PROVE  LayeredInv'
<1> DEFINE one == [worker EXCEPT !.step = "query"]
           two == [one EXCEPT !.plan.epoch = scope.epoch]
           three == [two EXCEPT !.plan.front = scope.status]
<1>1. one \in Workers /\ one.step = "query" /\ one.plan = worker.plan
  BY DEF LayeredInv, LayeredTypes, Workers, WorkerSteps, Underway
<1>2. /\ two \in Workers /\ two.step = "query" /\ two.plan.seen = worker.plan.seen
      /\ two.plan.sources = worker.plan.sources
  <2> HIDE DEF one
  <2> QED
    BY <1>1 DEF LayeredInv, LayeredTypes, Workers, Plans
<1>3. /\ three \in Workers /\ three.step = "query" /\ three.plan.seen = worker.plan.seen
      /\ three.plan.sources = worker.plan.sources
  <2> HIDE DEF two
  <2> QED
    BY <1>2 DEF LayeredInv, LayeredTypes, Workers, Plans
<1>4. worker' = [three EXCEPT !.plan.frontLedger = scope.ledger]
  BY DEF ReadFrontier
<1>5. /\ worker' \in Workers /\ worker'.step = "query"
      /\ worker'.plan.seen = worker.plan.seen /\ worker'.plan.sources = worker.plan.sources
  <2> HIDE DEF three
  <2> QED
    BY <1>3, <1>4 DEF LayeredInv, LayeredTypes, Workers, Plans
<1> QED
  BY <1>5, SamePlan DEF ReadFrontier, Underway

LEMMA QueryActiveKeeps ==
  ASSUME LayeredInv, QueryActive, UNCHANGED <<memory, conflict, rules>>
  PROVE  LayeredInv'
<1>1. PICK w : w = worker /\ w \in Workers /\ active \subseteq SUBSET Sources
  BY DEF LayeredInv, LayeredTypes
<1>2. CASE worker' = Leave("complete")
  BY <1>1, <1>2, LeaveTyped, BetweenPlans DEF QueryActive, WorkerSteps, Underway
<1>3. CASE w.plan.sources = {} /\ worker' = [worker EXCEPT !.step = "invalidate", !.plan.found = active]
  <2> DEFINE plan == [w.plan EXCEPT !.found = active]
  <2>1. /\ plan \in Plans /\ plan.seen = w.plan.seen /\ plan.sources = w.plan.sources
    BY <1>1, WorkerFields DEF Plans
  <2>2. worker' = [w EXCEPT !.step = "invalidate", !.plan = plan]
    BY <1>1, <1>3 DEF Workers, Plans
  <2> HIDE DEF plan
  <2>3. worker' \in Workers /\ worker'.step = "invalidate" /\ worker'.plan = plan
    BY <1>1, <2>1, <2>2 DEF Workers, WorkerSteps, Underway
  <2> QED
    BY <1>1, <1>3, <2>1, <2>3, SamePlan DEF QueryActive, Underway
<1>4. CASE worker' = [worker EXCEPT !.step = "apply"]
  <2>1. worker' \in Workers /\ worker'.step = "apply" /\ worker'.plan = w.plan
    BY <1>1, <1>4 DEF Workers, WorkerSteps, Underway
  <2> QED
    BY <1>1, <2>1, SamePlan DEF QueryActive, Underway
<1> QED
  BY <1>1, <1>2, <1>3, <1>4 DEF QueryActive
(* The projections change: they are of sources that may be used, and of    *)
(* all of them when the scope reports ready.                               *)
LEMMA Republished ==
  ASSUME LayeredInv, UNCHANGED <<memory, conflict, rules, ledger>>,
         worker' \in Workers, worker'.step \notin Underway,
         scope' \in [status : Statuses, ledger : Nat, epoch : Nat, batch : Nat],
         DOMAIN pjobs' \subseteq DOMAIN pjobs,
         MInv, active' = Project(Eligible)
  PROVE  LayeredInv'
<1>1. Eligible' = Eligible
  BY SameUse
<1>2. LayeredTypes' /\ NoneIsEmpty'
  BY EligibleTyped DEF LayeredInv, LayeredTypes, NoneIsEmpty
<1>3. ListedIsEligible' /\ InvalidatesAll' /\ ReadyIsListed'
  BY DEF ListedIsEligible, InvalidatesAll, ReadyIsListed, Underway
<1>4. ProjectionsSound'
  BY <1>1, EligibleTyped DEF ProjectionsSound, Project
<1> QED
  BY <1>2, <1>3, <1>4 DEF LayeredInv

LEMMA ScopeReady ==
  ASSUME MInv, LayeredInv, NEW s,
         s = [status |-> "ready", ledger |-> ledger, epoch |-> scope.epoch + 1, batch |-> ledger]
  PROVE  s \in [status : Statuses, ledger : Nat, epoch : Nat, batch : Nat]
BY DEF MInv, Types, LayeredInv, LayeredTypes, Statuses

(* What the worker found is invalidated only when nothing may be used, and *)
(* a scope that reports ready then had nothing to show.                    *)
LEMMA InvalidateFoundKeeps ==
  ASSUME LayeredInv, InvalidateFound, UNCHANGED <<memory, conflict, rules>>
  PROVE  LayeredInv'
<1>1. PICK w : w = worker /\ w \in Workers /\ w.step = "invalidate"
  BY DEF LayeredInv, LayeredTypes, InvalidateFound
<1>2. Eligible' = Eligible
  BY SameUse
<1> DEFINE plan == [w.plan EXCEPT !.found = {}]
<1>3. plan \in Plans /\ plan.seen = w.plan.seen /\ plan.sources = w.plan.sources
  BY <1>1, WorkerFields DEF Plans
<1>4. worker' = [w EXCEPT !.step = "apply", !.plan = plan]
  BY <1>1 DEF InvalidateFound, Workers, Plans
<1> HIDE DEF plan
<1>5. worker' \in Workers /\ worker'.step = "apply" /\ worker'.plan = plan
  BY <1>1, <1>3, <1>4 DEF Workers, WorkerSteps, Underway
<1>6. active' \subseteq active /\ UNCHANGED <<ledger, scope, pjobs>>
  BY DEF InvalidateFound
<1>7. LayeredTypes' /\ NoneIsEmpty' /\ InvalidatesAll'
  BY <1>5, <1>6 DEF LayeredInv, LayeredTypes, NoneIsEmpty, InvalidatesAll
<1>8. ListedIsEligible' /\ ReadyIsListed'
  BY <1>1, <1>2, <1>3, <1>5, <1>6 DEF LayeredInv, ListedIsEligible, ReadyIsListed, Underway
<1>9. ProjectionsSound'
  <2>1. \A p \in active' : p \subseteq Eligible'
    BY <1>2, <1>6 DEF LayeredInv, ProjectionsSound
  <2>2. scope.status = "ready" => active = {} /\ Project(Eligible) = {}
    BY <1>1 DEF LayeredInv, ReadyIsListed, InvalidatesAll, ProjectionsSound, Project, Underway
  <2> QED
    BY <1>2, <1>6, <2>1, <2>2 DEF ProjectionsSound, Project
<1> QED
  BY <1>7, <1>8, <1>9 DEF LayeredInv

(* A batch is published while the ledger is where its sources were listed: *)
(* they are still all that may be used.                                    *)
LEMMA ApplyBatchKeeps ==
  ASSUME MInv, LayeredInv, ApplyBatch(Admissible), UNCHANGED <<memory, conflict, rules>>
  PROVE  LayeredInv'
<1>1. PICK w : w = worker /\ w \in Workers /\ w.step = "apply"
  BY DEF LayeredInv, LayeredTypes, ApplyBatch
<1>2. CASE Unmoved /\ w.plan.sources \subseteq Admissible
  <2>1. w.plan.sources = Eligible
    BY <1>1, <1>2 DEF LayeredInv, ListedIsEligible, Unmoved, Underway
  <2>2. active' = Project(Eligible)
    <3>1. Eligible = {} => active = {}
      BY DEF LayeredInv, ProjectionsSound, NoneIsEmpty
    <3> QED
      BY <1>1, <1>2, <2>1, <3>1 DEF ApplyBatch, Project
  <2>3. PICK j \in w.held : /\ pjobs' = Processed(j)
                            /\ worker' = [Leave("complete") EXCEPT !.held = @ \ {j}]
    BY <1>1, <1>2 DEF ApplyBatch
  <2>4. Leave("complete") \in Workers /\ Leave("complete").step = "complete"
    BY <1>1, LeaveTyped DEF WorkerSteps
  <2>5. worker' \in Workers /\ worker'.step = "complete"
    BY <2>3, <2>4 DEF Workers
  <2>6. scope' = [status |-> "ready", ledger |-> ledger, epoch |-> scope.epoch + 1,
                  batch |-> ledger] /\ UNCHANGED ledger
    BY <1>1, <1>2 DEF ApplyBatch
  <2>7. DOMAIN pjobs' \subseteq DOMAIN pjobs
    BY <2>3 DEF Processed
  <2>8. scope' \in [status : Statuses, ledger : Nat, epoch : Nat, batch : Nat]
    BY <2>6, ScopeReady
  <2> QED
    BY <2>2, <2>5, <2>6, <2>7, <2>8, Republished DEF Underway
<1>3. CASE ~(Unmoved /\ w.plan.sources \subseteq Admissible)
  <2>1. /\ worker' = Leave("fail")
        /\ UNCHANGED <<active, scope, pjobs, ledger>>
    BY <1>1, <1>3 DEF ApplyBatch
  <2>2. worker' \in Workers /\ worker'.step = "fail"
    BY <1>1, <2>1, LeaveTyped DEF WorkerSteps
  <2> QED
    BY <2>1, <2>2, BetweenPlans DEF Underway
<1> QED
  BY <1>2, <1>3

LEMMA ClaimKeeps ==
  ASSUME LayeredInv, Claim, UNCHANGED <<memory, conflict, rules>>
  PROVE  LayeredInv'
<1>1. worker \in Workers /\ DOMAIN pjobs \subseteq Calls \X {"invalidate", "refresh"}
  BY DEF LayeredInv, LayeredTypes
<1>2. PICK batch \in SUBSET DOMAIN pjobs :
         /\ worker' = [worker EXCEPT !.step = "list", !.held = batch]
         /\ DOMAIN pjobs' = DOMAIN pjobs
  BY DEF Claim, Claimable
<1>3. worker' \in Workers /\ worker'.step = "list"
  BY <1>1, <1>2 DEF Workers, WorkerSteps
<1> QED
  BY <1>2, <1>3, BetweenPlans DEF Claim, Underway

LEMMA SettleJobsKeeps ==
  ASSUME LayeredInv, Complete \/ Fail, UNCHANGED <<memory, conflict, rules>>
  PROVE  LayeredInv'
<1>1. worker \in Workers /\ worker.step \in {"complete", "fail"} /\ worker.faults \in Nat
  BY WorkerFields DEF LayeredInv, LayeredTypes, Complete, Fail
<1>2. worker' \in Workers /\ worker'.step \in {"complete", "fail", "idle"}
      /\ DOMAIN pjobs' \subseteq DOMAIN pjobs
  <2>1. CASE worker' = [IdleWorker EXCEPT !.faults = worker.faults] /\ UNCHANGED pjobs
    BY <1>1, <2>1, IdleTyped
  <2>2. ASSUME NEW j \in worker.held, worker' = [worker EXCEPT !.held = @ \ {j}],
               pjobs' = Processed(j) \/ pjobs' = [pjobs EXCEPT ![j].st = "failed"]
        PROVE  worker' \in Workers /\ worker'.step = worker.step
               /\ DOMAIN pjobs' \subseteq DOMAIN pjobs
    <3>1. worker' \in Workers /\ worker'.step = worker.step
      BY <1>1, <2>2 DEF Workers
    <3>2. DOMAIN pjobs' \subseteq DOMAIN pjobs
      BY <2>2 DEF Processed
    <3> QED
      BY <3>1, <3>2
  <2> QED
    BY <1>1, <2>1, <2>2 DEF Complete, Fail
<1> QED
  BY <1>2, BetweenPlans DEF Complete, Fail, Underway

LEMMA FaultKeeps ==
  ASSUME LayeredInv, CallThrows \/ WorkerDies, UNCHANGED <<memory, conflict, rules>>
  PROVE  LayeredInv'
<1>1. worker \in Workers /\ worker.faults \in Nat
  BY WorkerFields DEF LayeredInv, LayeredTypes
<1>2. worker' \in Workers /\ worker'.step \in {"fail", "idle"}
  <2>1. CASE CallThrows
    <3>1. Leave("fail") \in Workers /\ Leave("fail").step = "fail"
      BY <1>1, LeaveTyped DEF WorkerSteps
    <3>2. worker' = [Leave("fail") EXCEPT !.faults = @ + 1]
      BY <2>1 DEF CallThrows
    <3> QED
      BY <3>1, <3>2 DEF Workers
  <2>2. CASE WorkerDies
    <3>1. worker' = [IdleWorker EXCEPT !.faults = worker.faults + 1] /\ worker.faults + 1 \in Nat
      BY <1>1, <2>2 DEF WorkerDies
    <3> QED
      BY <1>1, <3>1, IdleTyped
  <2> QED
    BY <2>1, <2>2
<1> QED
  BY <1>2, BetweenPlans DEF CallThrows, WorkerDies, Underway

LEMMA RebuildKeeps ==
  ASSUME MInv, LayeredInv, RebuildScope(Eligible), UNCHANGED <<memory, conflict, rules>>
  PROVE  LayeredInv'
<1>1. worker' \in Workers /\ worker'.step = "idle"
  BY DEF LayeredInv, LayeredTypes, RebuildScope
<1>2. scope' \in [status : Statuses, ledger : Nat, epoch : Nat, batch : Nat]
  BY ScopeReady DEF RebuildScope
<1> QED
  BY <1>1, <1>2, Republished DEF RebuildScope, Underway

-----------------------------------------------------------------------------
LEMMA GovInit == GInit => GovInv
<1> SUFFICES ASSUME GInit PROVE GovInv
  OBVIOUS
<1>1. FtsInv /\ Apart
  BY DEF GInit, FtsInit, LayeredInit, IdleWorker, FtsInv, JobsTyped, WithdrawnGoes, ReadyIsDone,
     Outstanding, Apart
<1>2. IdleWorker \in Workers /\ IdleWorker.step = "idle"
  BY NoPlanTyped DEF IdleWorker, Workers, WorkerSteps
<1>3. LayeredTypes
  BY <1>2 DEF GInit, LayeredInit, LayeredTypes, Statuses
<1>4. NoneIsEmpty /\ ListedIsEligible /\ InvalidatesAll /\ ReadyIsListed /\ ProjectionsSound
  BY <1>2 DEF GInit, LayeredInit, NoneIsEmpty, ListedIsEligible, InvalidatesAll, ReadyIsListed,
     ProjectionsSound, Underway
<1> QED
  BY <1>1, <1>3, <1>4, MInit DEF GovInv, LayeredInv

(* Nothing of the projections moves.                                       *)
LEMMA LayeredRests ==
  ASSUME LayeredInv, UNCHANGED <<memory, conflict, rules, ledger, layeredVars>>
  PROVE  LayeredInv'
<1>1. Eligible' = Eligible
  BY SameUse
<1> QED
  BY <1>1 DEF LayeredInv, LayeredTypes, NoneIsEmpty, ListedIsEligible, InvalidatesAll,
     ReadyIsListed, ProjectionsSound, Project, layeredVars

LEMMA LanesApart ==
  ASSUME MInv, Apart, Next
  PROVE  Apart'
<1>1. lane \in {"fts", "layered"}
  BY GovernanceAssumption DEF MInv, Types
<1>2. CASE \E c \in Calls : Prepare(c)
  BY <1>2 DEF Prepare, Apart, layeredVars, ftsVars
<1>3. ASSUME NEW c \in Calls, Apply(c) PROVE Apart'
  <2>1. PICK s, f, k : Told(c, s, f, k)
    BY <1>3, ApplyTells
  <2>2. UNCHANGED lane
    BY <1>3, Applying
  <2>3. \/ UNCHANGED <<layeredVars, ftsVars>>
        \/ lane = "layered" /\ UNCHANGED ftsVars
        \/ lane = "fts" /\ UNCHANGED layeredVars /\ UNCHANGED rows
    BY <2>1 DEF Told, Effects, NoEffects, Enqueue
  <2> QED
    BY <1>1, <2>2, <2>3 DEF Apart, layeredVars, ftsVars
<1>4. CASE ConsolidationStep \/ ConsolidationFault \/ ConsolidationRebuild
  BY <1>4 DEF ConsolidationStep, ConsolidationFault, ConsolidationRebuild, Apart,
     governanceVars, ftsVars
<1>5. CASE IndexStep \/ IndexFault \/ IndexRebuild
  BY <1>5 DEF IndexStep, IndexFault, IndexRebuild, Apart, governanceVars, layeredVars
<1> QED
  BY <1>2, <1>3, <1>4, <1>5 DEF Next

LEMMA GovStep == GovInv /\ [Next]_vars => GovInv'
<1> SUFFICES ASSUME GovInv, [Next]_vars PROVE GovInv'
  OBVIOUS
<1>1. MInv /\ FtsInv /\ LayeredInv /\ Apart
  BY DEF GovInv
<1>2. MInv'
  BY <1>1, MStep
<1>3. CASE UNCHANGED vars
  <2>1. UNCHANGED <<memory, conflict, rules, ledger, lane, layeredVars, ftsVars>>
    BY <1>3 DEF vars, governanceVars
  <2>2. FtsInv' /\ LayeredInv'
    BY <1>1, <2>1, SameUse, FtsRests, LayeredRests
  <2>3. Apart'
    BY <1>1, <2>1 DEF Apart, layeredVars, ftsVars
  <2> QED
    BY <1>2, <2>2, <2>3 DEF GovInv
<1>4. ASSUME Next PROVE FtsInv' /\ LayeredInv'
  <2>1. CASE \E c \in Calls : Prepare(c)
    <3>1. UNCHANGED <<memory, conflict, rules, ledger, layeredVars, ftsVars>>
      BY <2>1 DEF Prepare
    <3> QED
      BY <1>1, <3>1, SameUse, FtsRests, LayeredRests
  <2>2. CASE \E c \in Calls : Apply(c)
    BY <1>1, <2>2, FtsApply, LayeredApply
  <2>3. CASE ConsolidationStep \/ ConsolidationFault \/ ConsolidationRebuild
    <3>1. UNCHANGED <<memory, conflict, rules, ftsVars>>
      BY <2>3 DEF ConsolidationStep, ConsolidationFault, ConsolidationRebuild, governanceVars
    <3>2. FtsInv'
      BY <1>1, <3>1, SameUse, FtsRests
    <3>3. CASE ConsolidationStep
      BY <1>1, <3>1, <3>2, <3>3, ClaimKeeps, ListSourcesKeeps, ReadFrontierKeeps, QueryActiveKeeps,
         InvalidateFoundKeeps, ApplyBatchKeeps, SettleJobsKeeps DEF ConsolidationStep, WorkerStep
    <3>4. CASE ConsolidationFault
      BY <1>1, <3>1, <3>2, <3>4, FaultKeeps DEF ConsolidationFault
    <3>5. CASE ConsolidationRebuild
      BY <1>1, <3>1, <3>2, <3>5, RebuildKeeps DEF ConsolidationRebuild
    <3> QED
      BY <2>3, <3>3, <3>4, <3>5
  <2>4. CASE IndexStep \/ IndexFault \/ IndexRebuild
    <3>1. UNCHANGED <<memory, conflict, rules, ledger, layeredVars>>
      BY <2>4 DEF IndexStep, IndexFault, IndexRebuild, governanceVars
    <3>2. LayeredInv' /\ Indexable' = Indexable
      BY <1>1, <3>1, LayeredRests, SameUse
    <3>3. FtsInv'
      BY <1>1, <2>4, <3>2, RunJobKeeps, JobFailsKeeps, FtsSteps
         DEF IndexStep, IndexFault, IndexRebuild, FtsStep
    <3> QED
      BY <3>2, <3>3
  <2> QED
    BY <1>4, <2>1, <2>2, <2>3, <2>4 DEF Next
<1> QED
  BY <1>1, <1>2, <1>3, <1>4, LanesApart DEF GovInv

(* Every row of the index is of a usable revision or has a job under way    *)
(* that removes it; every plan of the worker is of the sources that may be  *)
(* used for as long as the ledger stays where they were listed.             *)
THEOREM GovInvHolds == Spec => []GovInv
BY GovInit, GovStep, PTL DEF Spec

(* No projection is served, and no index that reports ready holds a row, of *)
(* a memory that may no longer be used; a ready scope shows all that may.   *)
THEOREM ViewsAreSound == Spec => []ViewsSound
<1>1. GovInv => ViewsSound
  BY DEF GovInv, FtsInv, LayeredInv, WithdrawnGoes, ReadyIsDone, ViewsSound, IndexSound
<1> QED
  BY <1>1, GovInvHolds, PTL
=============================================================================
