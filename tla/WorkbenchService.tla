--------------------------- MODULE WorkbenchService ---------------------------
(***************************************************************************)
(* What a browser session does with the memories (packages/memory-kernel,  *)
(* workbench-service.ts and workbench-approval.ts; packages/runtime-host,  *)
(* snapshot-registry.ts): it reads a list page by page, from a snapshot    *)
(* the host may evict or let expire, and corrects or demotes a memory in   *)
(* two steps, a sealed preview and its confirmation, while other callers   *)
(* change and purge memories, answers are lost and previews expire.        *)
(*                                                                         *)
(* A memory is the sequence of the operations that made its revisions; the *)
(* storage answers an operation it has carried out with the first receipt. *)
(***************************************************************************)
EXTENDS Naturals, Sequences, FiniteSets, SequencesExt

CONSTANTS Sessions, Memories,      \* memories are numbers, in the order of lists
          PageSize,
          MaxSnapshots, MaxMembers, \* of the snapshot registry
          MaxLists, MaxOps, MaxChanges   \* bounds: lists, previews, other writes

ServiceAssumption ==
  /\ Memories \subseteq Nat
  /\ {PageSize, MaxSnapshots, MaxMembers} \subseteq Nat \ {0}
  /\ {MaxLists, MaxOps, MaxChanges} \subseteq Nat

VARIABLES history,     \* memory -> operations that made its revisions
          purged,      \* memories with no row left
          demoted,     \* operations that demoted a memory
          snapshots,   \* #snapshots, the oldest first
          retained,    \* #retainedMembers
          expired,     \* snapshots past their time
          reader,      \* each session's list, as far as it has been read
          draft,       \* a preview being made
          preview,     \* the preview the page holds
          known,       \* previews the registry holds, with what they name
          posted,      \* confirmations under way to the storage, per session
          told,        \* the last answer to a confirmation
          lists, ops, changes

memory == <<history, purged, demoted>>
paging == <<snapshots, retained, expired, reader, lists>>
fixing == <<draft, preview, known, posted, told, ops>>
vars == <<memory, paging, fixing, changes>>

Current(m) == Len(history[m])
Others == 0                                   \* the operation of any other caller
None == [op |-> 0]
Prepared == [op : 1 .. MaxOps, memory : Memories, expected : Nat,
             kind : {"correct", "undo"}, session : Sessions]
NoReader == [id |-> 0]
Member == [memory : Memories, revision : Nat]

TypeOK ==
  /\ history \in [Memories -> Seq(0 .. MaxOps)] /\ purged \subseteq Memories
  /\ demoted \subseteq 1 .. MaxOps
  /\ snapshots \in Seq([id : 1 .. MaxLists, session : Sessions, members : Seq(Member)])
  /\ retained \in Nat /\ expired \subseteq 1 .. MaxLists
  /\ reader \in [Sessions -> {NoReader} \cup
       [id : 1 .. MaxLists, offset : Nat, want : Seq(Member), got : Seq(Member),
        end : {"reading", "whole", "stale"}]]
  /\ draft \in [Sessions -> {None} \cup Prepared]
  /\ preview \in [Sessions -> {None} \cup Prepared] /\ known \subseteq Prepared
  /\ posted \in [Sessions -> Seq(Prepared)]
  /\ told \in [Sessions -> {"nothing", "ready", "stale", "unknown"}]
  /\ lists \in 0 .. MaxLists /\ ops \in 0 .. MaxOps /\ changes \in 0 .. MaxChanges

Init ==
  /\ history = [m \in Memories |-> <<Others>>] /\ purged = {} /\ demoted = {}
  /\ snapshots = <<>> /\ retained = 0 /\ expired = {}
  /\ reader = [s \in Sessions |-> NoReader]
  /\ draft = [s \in Sessions |-> None] /\ preview = [s \in Sessions |-> None]
  /\ known = {} /\ posted = [s \in Sessions |-> <<>>]
  /\ told = [s \in Sessions |-> "nothing"]
  /\ lists = 0 /\ ops = 0 /\ changes = 0

-----------------------------------------------------------------------------
(* Lists. *)

Listed ==
  LET ordered == SetToSortSeq(Memories \ purged, <)
  IN [i \in DOMAIN ordered |-> [memory |-> ordered[i], revision |-> Current(ordered[i])]]

Size(snaps) == FoldSeq(LAMBDA snap, n : n + Len(snap.members), 0, snaps)
Unexpired == SelectSeq(snapshots, LAMBDA snap : snap.id \notin expired)

(* The oldest snapshots go until the new one fits.                         *)
Evicted(snaps, room) ==
  LET Rest(k) == SubSeq(snaps, k + 1, Len(snaps))
      Fits(k) == Len(snaps) - k < MaxSnapshots /\ Size(Rest(k)) + room <= MaxMembers
  IN Rest(CHOOSE k \in 0 .. Len(snaps) : Fits(k) /\ \A j \in 0 .. k - 1 : ~Fits(j))

PageFrom(seq, offset) == SubSeq(seq, offset + 1, offset + PageSize)
Following(offset) == offset + PageSize

Turn(s, r, shown) ==
  reader' = [reader EXCEPT ![s] =
    [r EXCEPT !.offset = Following(r.offset), !.got = r.got \o shown,
              !.end = IF Following(r.offset) < Len(r.want) THEN "reading" ELSE "whole"]]

(* A list without a cursor; one larger than the registry is refused.       *)
List(s) ==
  /\ lists < MaxLists /\ Listed # <<>> /\ Len(Listed) <= MaxMembers
  /\ lists' = lists + 1
  /\ LET kept == Evicted(Unexpired, Len(Listed))
         snap == [id |-> lists', session |-> s, members |-> Listed]
     IN /\ snapshots' = Append(kept, snap)
        /\ retained' = retained - (Size(snapshots) - Size(kept)) + Len(Listed)
        /\ Turn(s, [id |-> lists', offset |-> 0, want |-> Listed, got |-> <<>>, end |-> "reading"],
                PageFrom(Listed, 0))
  /\ expired' = expired \ {snapshots[i].id : i \in DOMAIN snapshots}
  /\ UNCHANGED <<memory, fixing, changes>>

ReadableAny(s) == {i \in DOMAIN snapshots : snapshots[i].session = s}   \* mutation
Readable(s) == {i \in DOMAIN snapshots :
                  snapshots[i].id = reader[s].id /\ snapshots[i].session = s
                  /\ reader[s].id \notin expired}

(* The next page: those of its members that still have a row.  A page with *)
(* none is an error, and the cursor stays.                                 *)
Read(s) ==
  /\ reader[s] # NoReader /\ reader[s].end = "reading"
  /\ IF Readable(s) = {}
     THEN /\ reader' = [reader EXCEPT ![s].end = "stale"]
          /\ IF reader[s].id \in expired
             THEN snapshots' = Unexpired /\ retained' = retained - (Size(snapshots) - Size(Unexpired))
             ELSE UNCHANGED <<snapshots, retained>>
     ELSE LET i == CHOOSE k \in Readable(s) : TRUE
              shown == SelectSeq(PageFrom(snapshots[i].members, reader[s].offset),
                                 LAMBDA x : x.memory \notin purged)
          IN /\ shown # <<>> /\ Turn(s, reader[s], shown)
             /\ UNCHANGED <<snapshots, retained>>
  /\ UNCHANGED <<memory, fixing, expired, lists, changes>>

Expire ==
  /\ \E i \in DOMAIN snapshots :
       /\ snapshots[i].id \notin expired
       /\ \A j \in 1 .. i - 1 : snapshots[j].id \in expired
       /\ expired' = expired \cup {snapshots[i].id}
  /\ UNCHANGED <<memory, snapshots, retained, reader, lists, fixing, changes>>

-----------------------------------------------------------------------------
(* Corrections, and undoing an automatic memory. *)

(* The detail is read first, and the storage's own preview after that.     *)
BeginPreview(s, m, kind) ==
  /\ ops < MaxOps /\ draft[s] = None /\ posted[s] = <<>> /\ m \notin purged
  /\ ops' = ops + 1
  /\ draft' = [draft EXCEPT ![s] =
       [op |-> ops', memory |-> m, expected |-> Current(m), kind |-> kind, session |-> s]]
  /\ preview' = [preview EXCEPT ![s] = None] /\ told' = [told EXCEPT ![s] = "nothing"]
  /\ UNCHANGED <<memory, paging, known, posted, changes>>

IsCurrent(d) == d.memory \notin purged /\ Current(d.memory) = d.expected

EndPreview(s) ==
  /\ draft[s] # None /\ draft' = [draft EXCEPT ![s] = None]
  /\ IF IsCurrent(draft[s])
     THEN known' = known \cup {draft[s]} /\ preview' = [preview EXCEPT ![s] = draft[s]]
     ELSE UNCHANGED <<known, preview>>
  /\ UNCHANGED <<memory, paging, posted, told, ops, changes>>

ExpirePreview(d) ==
  /\ d \in known /\ known' = known \ {d}
  /\ UNCHANGED <<memory, paging, draft, preview, posted, told, ops, changes>>

(* The page confirms what it previewed, again when it was left without an  *)
(* answer, even while the first request is still under way.                *)
Confirm(s) ==
  /\ preview[s] # None /\ told[s] \in {"nothing", "unknown"} /\ Len(posted[s]) < 2
  /\ IF preview[s] \in known
     THEN posted' = [posted EXCEPT ![s] = Append(@, preview[s])] /\ UNCHANGED told
     ELSE told' = [told EXCEPT ![s] = "stale"] /\ UNCHANGED posted
  /\ UNCHANGED <<memory, paging, draft, preview, known, ops, changes>>

Done == demoted \cup UNION {ToSet(history[m]) : m \in Memories}
AppliesToRow(d) == d.memory \notin purged     \* mutation: revision not compared
AppliesTo(d) == IsCurrent(d)

(* The storage carries it out, answers again what it has carried out, or   *)
(* refuses; its answer may get lost on the way.                            *)
Apply(s) ==
  /\ posted[s] # <<>>
  /\ LET d == Head(posted[s])
         answer == IF d.op \in Done \/ AppliesTo(d) THEN "ready" ELSE "stale"
     IN /\ IF d.op \in Done \/ ~AppliesTo(d) THEN UNCHANGED <<history, demoted>>
           ELSE IF d.kind = "undo"
           THEN demoted' = demoted \cup {d.op} /\ UNCHANGED history
           ELSE history' = [history EXCEPT ![d.memory] = Append(@, d.op)] /\ UNCHANGED demoted
        /\ \E heard \in {answer, "unknown"} :
             told' = [told EXCEPT ![s] = IF @ \in {"ready", "stale"} THEN @ ELSE heard]
  /\ posted' = [posted EXCEPT ![s] = Tail(@)]
  /\ UNCHANGED <<purged, paging, draft, preview, known, ops, changes>>

-----------------------------------------------------------------------------
(* Other callers. *)

Revise(m) ==
  /\ changes < MaxChanges /\ m \notin purged
  /\ changes' = changes + 1 /\ history' = [history EXCEPT ![m] = Append(@, Others)]
  /\ UNCHANGED <<purged, demoted, paging, fixing>>

Purge(m) ==
  /\ changes < MaxChanges /\ m \notin purged
  /\ changes' = changes + 1 /\ purged' = purged \cup {m}
  /\ UNCHANGED <<history, demoted, paging, fixing>>

Next ==
  \/ \E s \in Sessions : List(s) \/ Read(s) \/ EndPreview(s) \/ Confirm(s) \/ Apply(s)
  \/ \E s \in Sessions, m \in Memories, kind \in {"correct", "undo"} : BeginPreview(s, m, kind)
  \/ \E d \in known : ExpirePreview(d)
  \/ \E m \in Memories : Revise(m) \/ Purge(m)
  \/ Expire

Spec == Init /\ [][Next]_vars

-----------------------------------------------------------------------------
(* A list read to its end shows what was listed when it began, each memory *)
(* once, in order and in the revision it had, but for what was purged;     *)
(* nothing another session lists, corrects or evicts gets into it.         *)
WholeOrStale ==
  \A s \in Sessions : reader[s] # NoReader /\ reader[s].end = "whole" =>
    LET got == reader[s].got  want == reader[s].want
    IN /\ \A i \in DOMAIN got : \E k \in i .. Len(want) : got[i] = want[k]
       /\ IsInjective(got) /\ \A i, j \in DOMAIN got : i < j => got[i].memory < got[j].memory
       /\ \A k \in DOMAIN want : want[k] \in ToSet(got) \/ want[k].memory \in purged

(* The registry keeps count, and stays in bounds.                          *)
CountIsExact ==
  /\ retained = Size(snapshots) /\ retained <= MaxMembers /\ Len(snapshots) <= MaxSnapshots

SnapshotsSound == WholeOrStale /\ CountIsExact

(* However often it is confirmed, at once or after lost answers, a preview *)
(* is carried out once, and on the very revision the page has seen.        *)
ConfirmedOnce ==
  \A m \in Memories : \A i \in DOMAIN history[m] : history[m][i] # Others =>
    /\ \A j \in DOMAIN history[m] : history[m][i] = history[m][j] => i = j
    /\ \A s \in Sessions : preview[s] # None /\ preview[s].op = history[m][i] =>
         preview[s].memory = m /\ preview[s].expected = i - 1

(* A page that asks again after a lost answer is not told that nothing was *)
(* written when its correction was.                                        *)
LostAnswerRecovers ==
  \A s \in Sessions : told[s] = "stale" => preview[s].op \notin Done
=============================================================================
