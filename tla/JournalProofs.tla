--------------------------- MODULE JournalProofs ---------------------------
(***************************************************************************)
(* What RecoveryJournal guarantees for every set of readers, keys and ids, *)
(* every length of the journal and every number of deaths: the files of    *)
(* the recovery head are sound, and they implement HeadProvider.           *)
(*                                                                         *)
(* A process decides without the lock, on a state that may be stale when   *)
(* it persists.  The invariant says what survives this: a job is a move of *)
(* the provider on the state it was decided on (Jobs); every chain on disk *)
(* is part of the frontier or would become it (ChainsAreKnown), and at     *)
(* most one reconciliation is under way (OneBegun).  A state may come back *)
(* - an abort does that - but a frontier never shrinks (Snaps), so a chain *)
(* that has become the frontier is never met by a job that is older.       *)
(***************************************************************************)
EXTENDS RecoveryJournal, SequenceTheorems, WellFoundedInduction, TLAPS

(* The steps between the decision and the record in the journal.           *)
Writing == {"record", "index", "sequence", "append"}
Persisting == {"persist", "reload"} \cup Writing

(* One operation of the provider, and the chain it puts on disk.           *)
Plain(s, to) ==
  \/ CanBootstrap(s) /\ to = Bootstrapped(s)
  \/ CanBackup(s) /\ to = BackedUp(s)
  \/ \E k \in Keys : /\ CanReserve(s, k)
                     /\ \E id \in Ids \ IdsOf(s) : to = Reserved(s, k, id)
  \/ \E r \in s.pending : \/ CanCommit(s, r) /\ to = Committed(s, r)
                          \/ CanAbort(s, r) /\ to = Aborted(s, r)
Chaining(s, to, chain) ==
  \E r \in s.pending : /\ CanReconcile(s, r) /\ to = Reconciled(s, r)
                       /\ chain = ChainOf(s, r)
Move(s, to, chain) ==
  IF chain = <<>> THEN Plain(s, to) ELSE Chaining(s, to, chain)

(* The local state; and the journal is a chain that is not empty, whose    *)
(* tip the process at the files knows.                                     *)
Locals ==
  /\ pc \in [Procs -> {"idle", "decide", "persist"} \cup UnderLock]
  /\ snap \in [Procs -> ProviderState \cup {NoState}]
  /\ job \in [Procs -> [to : ProviderState \cup {NoState}, chain : Seq(Item)]]
Record == [prev : ProviderState \cup {NoState}, state : ProviderState]
LockIsHeld ==
  /\ lock \in Procs \cup {Nobody, Dead}
  /\ \A p \in Procs : lock = p <=> pc[p] \in UnderLock
Counters == made \in {0} \cup Ids /\ crashes \in 0 .. MaxCrashes
Chains == \A c \in records \cup index \cup sequence : c \in Seq(Item) /\ c # <<>>
JournalShape == journal \in Seq(Record) /\ journal # <<>> /\ Chained
TipIsKnown ==
  /\ head \in InJournal
  /\ \A p \in Procs :
       /\ pc[p] \in Writing => snap[p] = Tip
       /\ pc[p] \in {"head", "compact"} => job[p].to = Tip
       /\ pc[p] = "compact" => head = Tip

(* What a process is persisting, and how far it has come.                  *)
Drawn(s) == \A id \in IdsOf(s) : id <= made
Decided(p) ==
  /\ pc[p] \in {"decide"} \cup Persisting => snap[p] \in ProviderState
  /\ pc[p] \in Persisting =>
       /\ job[p].to \in ProviderState
       /\ Move(snap[p], job[p].to, job[p].chain)
       /\ Drawn(job[p].to)
       /\ p # Owner => job[p].chain # <<>> /\ job[p].chain \in records
Written(p) ==
  /\ pc[p] \in {"record", "index", "sequence"} => job[p].chain # <<>>
  /\ pc[p] \in {"index", "sequence"} => job[p].chain \in records
  /\ pc[p] = "sequence" => job[p].chain \in index
  /\ pc[p] = "append" /\ job[p].chain # <<>> => job[p].chain \in sequence
Jobs == \A p \in Procs : Decided(p) /\ Written(p)

(* A state that was the tip once: its frontier is on disk, and no longer   *)
(* than the tip's; its ids have been drawn.                                *)
OnDisk(f) ==
  \A n \in 1 .. Len(f) : SubSeq(f, 1, n) \in records /\ SubSeq(f, 1, n) \in index
WasTip(s) ==
  OnDisk(s.frontier) /\ Len(s.frontier) <= Len(Tip.frontier) /\ Drawn(s)
Snaps ==
  /\ WasTip(Tip)
  /\ \A p \in Procs : snap[p] \in ProviderState => WasTip(snap[p])

(* A key has one reservation, and none once it is in the frontier.         *)
UniqueKeys(s) ==
  /\ \A r, q \in s.pending : r.key = q.key => r = q
  /\ \A r \in s.pending : r.key \notin KeysOf(s.frontier)
KeysAreUnique == UniqueKeys(Tip)

(* Chains are written to the records, then the index, then the sequence.   *)
(* Each is part of the frontier, or a committed reservation away from it;  *)
(* and at most one reconciliation has begun.                               *)
Layered == sequence \subseteq index /\ index \subseteq records

Prefix(c, f) == Len(c) <= Len(f) /\ c = SubSeq(f, 1, Len(c))
Known(s, c) ==
  \/ Prefix(c, s.frontier)
  \/ \E r \in s.pending : r.st = "committed" /\ c = ChainOf(s, r)
ChainsAreKnown ==
  /\ Tip.frontier # <<>> => Tip.frontier \in sequence
  /\ \A c \in records : Known(Tip, c)

Ahead(c) == c \in records /\ Len(c) = Len(Tip.frontier) + 1
OneAhead == \A c, d \in records : Ahead(c) /\ Ahead(d) => c = d
OwnersAhead ==
  pc[Owner] \in Persisting /\ job[Owner].chain # <<>> /\ snap[Owner] = Tip =>
    \A c \in records : Ahead(c) => c = job[Owner].chain

Files == Layered /\ ChainsAreKnown /\ OneAhead /\ OwnersAhead
JInv ==
  /\ Locals /\ LockIsHeld /\ Counters /\ Chains /\ JournalShape /\ TipIsKnown
  /\ Jobs /\ Snaps /\ KeysAreUnique /\ Files

-----------------------------------------------------------------------------
(* Sequences: chains and their prefixes.                                   *)

LEMMA NoStateIsNone == NoState \notin ProviderState
  BY DEF NoState, ProviderState

(* A set of numbers has a least one.                                       *)
LEMMA LeastOf ==
  ASSUME NEW T \in SUBSET Nat, T # {}
  PROVE  \E x \in T : \A y \in T : x <= y
<1>1. IsWellFoundedOn(OpToRel(<, Nat), Nat)
  BY NatLessThanWellFounded
<1>2. PICK x \in T : \A y \in T : ~ (<<y, x>> \in OpToRel(<, Nat))
  BY <1>1, WFMin
<1>3. \A y \in T : ~ (y < x)
  BY <1>2 DEF OpToRel
<1> QED BY <1>3

(* The chain of a reservation is one longer than the frontier it extends,  *)
(* and agrees with it.                                                     *)
LEMMA ChainFacts ==
  ASSUME NEW s \in ProviderState, NEW r \in s.pending
  PROVE  LET c == ChainOf(s, r)
             f == s.frontier IN
         /\ f \in Seq(Item) /\ c \in Seq(Item) /\ c # <<>>
         /\ Len(c) = Len(f) + 1 /\ Len(f) \in Nat
         /\ LastOf(c) = ItemOf(r)
         /\ \A n \in 0 .. Len(f) : SubSeq(c, 1, n) = SubSeq(f, 1, n)
         /\ SubSeq(c, 1, Len(f)) = f /\ SubSeq(c, 1, Len(c)) = c
<1> DEFINE f == s.frontier
           c == ChainOf(s, r)
<1>1. f \in Seq(Item) /\ r \in Pending
  BY DEF ProviderState
<1>2. ItemOf(r) \in Item
  BY <1>1 DEF Pending, Item, ItemOf
<1>3. /\ c \in Seq(Item) /\ c # <<>> /\ Len(c) = Len(f) + 1
      /\ \A i \in 1 .. Len(f) : c[i] = f[i]
      /\ c[Len(f) + 1] = ItemOf(r)
  BY <1>1, <1>2, AppendProperties DEF ChainOf
<1>4. Len(f) \in Nat
  BY <1>1, LenProperties
<1>5. LastOf(c) = ItemOf(r)
  BY <1>3 DEF LastOf
<1>6. ASSUME NEW n \in 0 .. Len(f)
      PROVE  SubSeq(c, 1, n) = SubSeq(f, 1, n)
  <2>1. \A i \in 1 .. n : f[i] \in Item /\ c[i] = f[i]
    BY <1>1, <1>3, <1>4, ElementOfSeq
  <2>2. /\ SubSeq(c, 1, n) \in Seq(Item) /\ Len(SubSeq(c, 1, n)) = n
        /\ \A i \in 1 .. n : SubSeq(c, 1, n)[i] = c[i]
    <3>1. \A i \in 1 .. n : c[i] \in Item
      BY <2>1
    <3> HIDE DEF c
    <3> QED BY <3>1, <1>4, SubSeqProperties, Z3
  <2>3. /\ SubSeq(f, 1, n) \in Seq(Item) /\ Len(SubSeq(f, 1, n)) = n
        /\ \A i \in 1 .. n : SubSeq(f, 1, n)[i] = f[i]
    <3>1. \A i \in 1 .. n : f[i] \in Item
      BY <2>1
    <3> HIDE DEF f
    <3> QED BY <3>1, <1>4, SubSeqProperties, Z3
  <2> HIDE DEF c, f
  <2> QED BY <2>1, <2>2, <2>3, SeqEqual
<1>7. SubSeq(c, 1, Len(c)) = c /\ SubSeq(f, 1, Len(f)) = f
  BY <1>1, <1>3, SubSeqFull
<1>8. SubSeq(c, 1, Len(f)) = f
  BY <1>4, <1>6, <1>7
<1> HIDE DEF c, f
<1> QED BY <1>1, <1>3, <1>4, <1>5, <1>6, <1>7, <1>8 DEF c, f

(* What a prefix ends in is in the frontier.                               *)
LEMMA PrefixKey ==
  ASSUME NEW f \in Seq(Item), NEW c \in Seq(Item), c # <<>>, Prefix(c, f)
  PROVE  LastOf(c).key \in KeysOf(f)
<1>1. Len(c) \in 1 .. Len(f) /\ Len(f) \in Nat
  BY EmptySeq, LenProperties DEF Prefix
<1>2. \A i \in 1 .. Len(c) : f[i] \in Item
  BY <1>1, ElementOfSeq
<1>3. SubSeq(f, 1, Len(c))[Len(c)] = f[Len(c)]
  BY <1>1, <1>2, SubSeqProperties, Z3
<1> QED BY <1>1, <1>3 DEF Prefix, LastOf, KeysOf

(* A key of a frontier on disk is in the index.                            *)
LEMMA FrontierIsIndexed ==
  ASSUME NEW f \in Seq(Item), OnDisk(f), NEW k \in KeysOf(f)
  PROVE  ~Unindexed(k)
<1>1. PICK n \in 1 .. Len(f) : f[n].key = k
  BY DEF KeysOf
<1>2. Len(f) \in Nat /\ \A i \in 1 .. n : f[i] \in Item
  BY <1>1, LenProperties, ElementOfSeq
<1>3. Len(SubSeq(f, 1, n)) = n /\ SubSeq(f, 1, n)[n] = f[n]
  BY <1>2, SubSeqProperties, Z3
<1>4. SubSeq(f, 1, n) \in index
  BY <1>1 DEF OnDisk
<1> QED BY <1>1, <1>3, <1>4 DEF Unindexed, IndexOf, LastOf

(* The keys and ids of a chain are those of the frontier and the           *)
(* reservation's own.                                                      *)
LEMMA ChainKeys ==
  ASSUME NEW s \in ProviderState, NEW r \in s.pending
  PROVE  /\ KeysOf(ChainOf(s, r)) \subseteq KeysOf(s.frontier) \cup {r.key}
         /\ \A i \in 1 .. Len(ChainOf(s, r)) :
              ChainOf(s, r)[i].id \in IdsOf(s)
<1> DEFINE c == ChainOf(s, r)
           f == s.frontier
<1>1. f \in Seq(Item) /\ ItemOf(r) \in Item
  BY DEF ProviderState, Pending, Item, ItemOf
<1>2. /\ Len(c) = Len(f) + 1 /\ Len(f) \in Nat
      /\ \A i \in 1 .. Len(f) : c[i] = f[i]
      /\ c[Len(f) + 1] = ItemOf(r)
  BY <1>1, AppendProperties, LenProperties DEF ChainOf
<1>3. ASSUME NEW i \in 1 .. Len(c)
      PROVE  i \in 1 .. Len(f) \/ c[i] = ItemOf(r)
  BY <1>2
<1>4. ItemOf(r).key = r.key /\ ItemOf(r).id = r.id
  BY DEF ItemOf
<1>5. \A i \in 1 .. Len(c) : c[i].key \in KeysOf(f) \cup {r.key} /\ c[i].id \in IdsOf(s)
  <2> SUFFICES ASSUME NEW i \in 1 .. Len(c)
               PROVE  c[i].key \in KeysOf(f) \cup {r.key} /\ c[i].id \in IdsOf(s)
    OBVIOUS
  <2>1. CASE i \in 1 .. Len(f)
    BY <1>2, <2>1 DEF KeysOf, IdsOf
  <2>2. CASE c[i] = ItemOf(r)
    BY <1>4, <2>2 DEF IdsOf
  <2> QED BY <1>3, <2>1, <2>2
<1> QED BY <1>5 DEF KeysOf

(* The operations of the provider, field by field.                         *)
LEMMA ReservedFields ==
  ASSUME NEW s \in ProviderState, NEW k \in Keys, NEW id \in Ids
  PROVE  LET t == Reserved(s, k, id) IN
         /\ t \in ProviderState /\ t.frontier = s.frontier
         /\ t.pending = s.pending \cup {[id |-> id, key |-> k, gen |-> s.cur, st |-> "pending"]}
<1>1. [id |-> id, key |-> k, gen |-> s.cur, st |-> "pending"] \in Pending
  BY DEF ProviderState, Pending
<1> QED BY <1>1 DEF Reserved, ProviderState

LEMMA CommittedFields ==
  ASSUME NEW s \in ProviderState, NEW r \in s.pending
  PROVE  LET t == Committed(s, r)
             q == [r EXCEPT !.st = "committed"] IN
         /\ t \in ProviderState /\ t.frontier = s.frontier
         /\ t.pending = (s.pending \ {r}) \cup {q}
         /\ q \in Pending /\ q.key = r.key /\ q.id = r.id /\ q.st = "committed"
<1>1. r \in Pending
  BY DEF ProviderState
<1>2. LET q == [r EXCEPT !.st = "committed"] IN
      q \in Pending /\ q.key = r.key /\ q.id = r.id /\ q.st = "committed"
  BY <1>1 DEF Pending
<1>3. ASSUME NEW P \in SUBSET Pending, NEW n \in Nat
      PROVE  LET t == [s EXCEPT !.cur = n, !.pending = P] IN
             /\ t \in ProviderState /\ t.frontier = s.frontier /\ t.pending = P
  BY DEF ProviderState
<1>4. (s.pending \ {r}) \cup {[r EXCEPT !.st = "committed"]} \in SUBSET Pending
  BY <1>2 DEF ProviderState
<1>5. s.cur + 1 \in Nat
  BY DEF ProviderState
<1> QED BY <1>2, <1>3, <1>4, <1>5 DEF Committed

LEMMA LessFields ==
  ASSUME NEW s \in ProviderState, NEW r \in s.pending
  PROVE  /\ Aborted(s, r) \in ProviderState
         /\ Aborted(s, r).frontier = s.frontier
         /\ Aborted(s, r).pending = s.pending \ {r}
         /\ Reconciled(s, r) \in ProviderState
         /\ Reconciled(s, r).frontier = ChainOf(s, r)
         /\ Reconciled(s, r).pending = s.pending \ {r}
<1>1. ChainOf(s, r) \in Seq(Item)
  BY ChainFacts
<1> QED BY <1>1 DEF Aborted, Reconciled, ProviderState, ChainOf

LEMMA UpFields ==
  ASSUME NEW s \in ProviderState
  PROVE  /\ Bootstrapped(s) \in ProviderState /\ BackedUp(s) \in ProviderState
         /\ Bootstrapped(s).frontier = s.frontier /\ Bootstrapped(s).pending = s.pending
         /\ BackedUp(s).frontier = s.frontier /\ BackedUp(s).pending = s.pending
BY DEF Bootstrapped, BackedUp, ProviderState

(* What the operations that leave the frontier alone have in common.       *)
Same(s, t) ==
  /\ t.frontier = s.frontier
  /\ \A r \in s.pending : r.st = "committed" => r \in t.pending
  /\ \A r \in t.pending :
       \/ \E q \in s.pending : q.key = r.key /\ q.id = r.id
       \/ r.key \notin KeysOf(s.frontier) /\ \A q \in s.pending : q.key # r.key

LEMMA PlainMove ==
  ASSUME NEW s \in ProviderState, NEW t, Plain(s, t), UniqueKeys(s)
  PROVE  Same(s, t) /\ UniqueKeys(t) /\ t \in ProviderState
<1>1. CASE CanBootstrap(s) /\ t = Bootstrapped(s)
  BY <1>1, UpFields DEF Same, UniqueKeys
<1>2. CASE CanBackup(s) /\ t = BackedUp(s)
  BY <1>2, UpFields DEF Same, UniqueKeys
<1>3. ASSUME NEW k \in Keys, CanReserve(s, k),
             NEW id \in Ids, t = Reserved(s, k, id)
      PROVE  Same(s, t) /\ UniqueKeys(t) /\ t \in ProviderState
  <2> DEFINE n == [id |-> id, key |-> k, gen |-> s.cur, st |-> "pending"]
  <2>1. /\ t \in ProviderState /\ t.frontier = s.frontier
        /\ t.pending = s.pending \cup {n} /\ n.key = k /\ n.st = "pending"
    BY <1>3, ReservedFields
  <2>2. k \notin KeysOf(s.frontier) /\ \A q \in s.pending : q.key # k
    BY <1>3 DEF CanReserve
  <2> HIDE DEF n
  <2> QED BY <2>1, <2>2 DEF Same, UniqueKeys
<1>4. ASSUME NEW r \in s.pending, CanCommit(s, r), t = Committed(s, r)
      PROVE  Same(s, t) /\ UniqueKeys(t) /\ t \in ProviderState
  <2> DEFINE n == [r EXCEPT !.st = "committed"]
  <2>1. /\ t \in ProviderState /\ t.frontier = s.frontier
        /\ t.pending = (s.pending \ {r}) \cup {n} /\ n.key = r.key /\ n.id = r.id
    BY <1>4, CommittedFields
  <2>2. r.st = "pending"
    BY <1>4 DEF CanCommit
  <2> HIDE DEF n
  <2> QED BY <2>1, <2>2 DEF Same, UniqueKeys
<1>5. ASSUME NEW r \in s.pending, CanAbort(s, r), t = Aborted(s, r)
      PROVE  Same(s, t) /\ UniqueKeys(t) /\ t \in ProviderState
  <2>1. /\ t \in ProviderState /\ t.frontier = s.frontier
        /\ t.pending = s.pending \ {r}
    BY <1>5, LessFields
  <2>2. r.st = "pending"
    BY <1>5 DEF CanAbort
  <2> QED BY <2>1, <2>2 DEF Same, UniqueKeys
<1> QED BY <1>1, <1>2, <1>3, <1>4, <1>5 DEF Plain

LEMMA ChainingMove ==
  ASSUME NEW s \in ProviderState, NEW t, NEW c, Chaining(s, t, c), UniqueKeys(s)
  PROVE  /\ t \in ProviderState /\ UniqueKeys(t)
         /\ t.frontier = c /\ c \in Seq(Item) /\ c # <<>>
         /\ Len(c) = Len(s.frontier) + 1 /\ Len(s.frontier) \in Nat
         /\ SubSeq(c, 1, Len(c)) = c
         /\ \A n \in 0 .. Len(s.frontier) : SubSeq(c, 1, n) = SubSeq(s.frontier, 1, n)
         /\ \E r \in s.pending : r.st = "committed" /\ c = ChainOf(s, r)
<1>1. PICK r \in s.pending : /\ CanReconcile(s, r) /\ t = Reconciled(s, r)
                             /\ c = ChainOf(s, r)
  BY DEF Chaining
<1>2. /\ t \in ProviderState /\ t.frontier = c
      /\ t.pending = s.pending \ {r}
  BY <1>1, LessFields
<1>3. KeysOf(c) \subseteq KeysOf(s.frontier) \cup {r.key}
  BY <1>1, ChainKeys
<1>4. UniqueKeys(t)
  BY <1>2, <1>3 DEF UniqueKeys
<1>5. r.st = "committed"
  BY <1>1 DEF CanReconcile
<1> QED BY <1>1, <1>2, <1>4, <1>5, ChainFacts

-----------------------------------------------------------------------------
(* What the invariant says of the tip, and what it means for TypeOK.       *)

LEMMA Tips ==
  ASSUME JournalShape
  PROVE  /\ Tip \in ProviderState /\ Len(journal) \in Nat \ {0}
         /\ Tip \in InJournal /\ Tip.frontier \in Seq(Item) /\ Len(Tip.frontier) \in Nat
         /\ \A i \in 1 .. Len(journal) : /\ journal[i].state \in ProviderState
                                         /\ journal[i].prev \in ProviderState \cup {NoState}
<1>1. Len(journal) \in Nat \ {0}
  BY EmptySeq DEF JournalShape
<1>2. \A i \in 1 .. Len(journal) : journal[i] \in Record
  BY ElementOfSeq DEF JournalShape
<1>3. \A i \in 1 .. Len(journal) : /\ journal[i].state \in ProviderState
                                  /\ journal[i].prev \in ProviderState \cup {NoState}
  BY <1>2 DEF Record
<1>4. Len(journal) \in 1 .. Len(journal)
  BY <1>1
<1>5. Tip \in ProviderState /\ Tip \in InJournal
  BY <1>3, <1>4 DEF Tip, LastOf, InJournal
<1>6. Tip.frontier \in Seq(Item)
  BY <1>5 DEF ProviderState
<1> QED BY <1>1, <1>3, <1>5, <1>6, LenProperties

LEMMA InvTypes == ASSUME JInv PROVE TypeOK
<1> USE DEF JInv
<1>1. \A i \in 1 .. Len(journal) : /\ journal[i].state \in ProviderState
                                  /\ journal[i].prev \in ProviderState \cup {NoState}
  BY Tips
<1>2. head \in ProviderState
  BY <1>1 DEF TipIsKnown, InJournal
<1>3. \A p \in Procs : /\ snap[p] \in ProviderState \cup {NoState}
                      /\ job[p].to \in ProviderState \cup {NoState}
  BY DEF Locals
<1>4. pc \in [Procs -> {"idle", "decide", "persist"} \cup UnderLock]
  BY DEF Locals
<1> QED BY <1>1, <1>2, <1>3, <1>4 DEF TypeOK, Chains, LockIsHeld, Counters

(* Whether a chain on disk is part of the frontier or ahead of it, its     *)
(* length tells.                                                           *)
LEMMA AheadIsNext ==
  ASSUME JInv, NEW c \in records
  PROVE  /\ c \in Seq(Item) /\ c # <<>> /\ Len(c) \in Nat \ {0}
         /\ Len(c) <= Len(Tip.frontier) + 1
         /\ Ahead(c) => \E r \in Tip.pending : r.st = "committed" /\ c = ChainOf(Tip, r)
         /\ ~Ahead(c) => Prefix(c, Tip.frontier)
<1>1. c \in Seq(Item) /\ c # <<>> /\ Len(c) \in Nat \ {0}
  BY EmptySeq DEF JInv, Chains
<1>2. Tip \in ProviderState /\ Len(Tip.frontier) \in Nat
  BY Tips DEF JInv
<1>3. Known(Tip, c)
  BY DEF JInv, Files, ChainsAreKnown
<1>4. CASE Prefix(c, Tip.frontier)
  <2>1. Len(c) <= Len(Tip.frontier)
    BY <1>4 DEF Prefix
  <2> QED BY <1>1, <1>2, <1>4, <2>1 DEF Ahead
<1>5. ASSUME NEW r \in Tip.pending, r.st = "committed", c = ChainOf(Tip, r)
      PROVE  Len(c) = Len(Tip.frontier) + 1
  BY <1>2, <1>5, ChainFacts
<1>6. CASE \E r \in Tip.pending : r.st = "committed" /\ c = ChainOf(Tip, r)
  BY <1>1, <1>2, <1>5, <1>6 DEF Ahead
<1> QED BY <1>1, <1>3, <1>4, <1>6 DEF Known

(* A file of the index or the records for a reservation of the tip is that *)
(* reservation's own chain, and the reservation is committed.              *)
LEMMA OwnChain ==
  ASSUME JInv, NEW r \in Tip.pending, NEW c \in records,
         LastOf(c).key = r.key \/ c = ChainOf(Tip, r)
  PROVE  c = ChainOf(Tip, r) /\ r.st = "committed" /\ Ahead(c)
<1>1. Tip \in ProviderState /\ Tip.frontier \in Seq(Item) /\ Len(Tip.frontier) \in Nat
  BY Tips DEF JInv
<1>2. LastOf(c).key = r.key
  BY <1>1, ChainFacts DEF ItemOf
<1>3. r.key \notin KeysOf(Tip.frontier)
  BY DEF JInv, KeysAreUnique, UniqueKeys
<1>4. ~Prefix(c, Tip.frontier)
  BY <1>1, <1>2, <1>3, PrefixKey, AheadIsNext
<1>5. Ahead(c)
  BY <1>4, AheadIsNext
<1>6. PICK q \in Tip.pending : q.st = "committed" /\ c = ChainOf(Tip, q)
  BY <1>5, AheadIsNext
<1>7. q.key = r.key
  BY <1>1, <1>2, <1>6, ChainFacts DEF ItemOf
<1>8. q = r
  BY <1>7 DEF JInv, KeysAreUnique, UniqueKeys
<1> QED BY <1>5, <1>6, <1>8

-----------------------------------------------------------------------------
(* What the invariant says of the files: the properties.                   *)

LEMMA WitnessHolds == ASSUME JInv PROVE Witnessed
<1>1. Tip \in ProviderState /\ Tip.frontier \in Seq(Item) /\ Len(Tip.frontier) \in Nat
  BY Tips DEF JInv
<1>2. Len(Tip.frontier) > 0 => Tip.frontier \in sequence
  <2>1. Len(Tip.frontier) > 0 => Tip.frontier # <<>>
    BY EmptySeq
  <2> QED BY <2>1 DEF JInv, Files, ChainsAreKnown
<1>3. sequence \subseteq records
  BY DEF JInv, Files, Layered
<1>4. \A c \in sequence : Len(c) <= Len(Tip.frontier) + 1
  BY <1>3, AheadIsNext
<1>5. ASSUME NEW c \in Of(Len(Tip.frontier) + 1)
      PROVE  /\ SubSeq(c, 1, Len(Tip.frontier)) = Tip.frontier
             /\ \E r \in Tip.pending : r.st = "committed" /\ ItemOf(r) = LastOf(c)
  <2>1. c \in records /\ Ahead(c)
    BY <1>3 DEF Of, Ahead
  <2>2. PICK r \in Tip.pending : r.st = "committed" /\ c = ChainOf(Tip, r)
    BY <2>1, AheadIsNext
  <2> QED BY <1>1, <2>2, ChainFacts
<1> QED BY <1>2, <1>4, <1>5 DEF Witnessed

LEMMA InvSound == ASSUME JInv PROVE JournalSound
<1>1. Tip \in ProviderState /\ Tip.frontier \in Seq(Item) /\ Len(Tip.frontier) \in Nat
  BY Tips DEF JInv
<1>2. OnlyRepeatsBlock
  BY WitnessHolds DEF OnlyRepeatsBlock, Readable, JInv, JournalShape, TipIsKnown
<1>3. FrontierOnDisk
  BY DEF FrontierOnDisk, JInv, Snaps, WasTip, OnDisk
<1>4. sequence \subseteq records /\ index \subseteq records
  BY DEF JInv, Files, Layered
<1>5. ASSUME NEW r \in Tip.pending
      PROVE  ~Contradicts(Tip, r)
  <2>1. \A c \in IndexOf(r.key) : c = ChainOf(Tip, r) /\ r.st = "committed"
    BY <1>4, OwnChain DEF IndexOf
  <2>2. ChainOf(Tip, r) \in records => r.st = "committed"
    BY OwnChain
  <2> QED BY <2>1, <2>2 DEF Contradicts, Begun
<1>6. ASSUME NEW p \in Procs, pc[p] \in {"index", "sequence"}
      PROVE  LET c == job[p].chain IN
             /\ c \in records /\ Ahead(c)
             /\ \E r \in Tip.pending : c = ChainOf(Tip, r) /\ LastOf(c).key = r.key
  <2>1. snap[p] = Tip
    BY <1>6 DEF JInv, TipIsKnown, Writing
  <2>2. job[p].chain # <<>> /\ job[p].chain \in records
    BY <1>6 DEF JInv, Jobs, Written
  <2>3. Chaining(Tip, job[p].to, job[p].chain)
    BY <1>6, <2>1, <2>2 DEF JInv, Jobs, Decided, Persisting, Writing, Move
  <2>4. PICK r \in Tip.pending : job[p].chain = ChainOf(Tip, r)
    BY <2>3 DEF Chaining
  <2>5. LastOf(job[p].chain).key = r.key
    BY <1>1, <2>4, ChainFacts DEF ItemOf
  <2> QED BY <2>2, <2>4, <2>5, OwnChain
<1>7. FilesNeverClash
  <2> SUFFICES ASSUME NEW p \in Procs
               PROVE  LET c == job[p].chain IN
                      /\ pc[p] = "index" => IndexOf(LastOf(c).key) \subseteq {c}
                      /\ pc[p] = "sequence" => Of(Len(c)) \subseteq {c}
    BY DEF FilesNeverClash
  <2>1. ASSUME pc[p] = "index", NEW d \in IndexOf(LastOf(job[p].chain).key)
        PROVE  d = job[p].chain
    <3>1. PICK r \in Tip.pending :
            job[p].chain = ChainOf(Tip, r) /\ LastOf(job[p].chain).key = r.key
      BY <1>6, <2>1
    <3>2. d \in records /\ LastOf(d).key = r.key
      BY <1>4, <3>1 DEF IndexOf
    <3> QED BY <3>1, <3>2, OwnChain
  <2>2. ASSUME pc[p] = "sequence", NEW d \in Of(Len(job[p].chain))
        PROVE  d = job[p].chain
    <3>1. job[p].chain \in records /\ Ahead(job[p].chain)
      BY <1>6, <2>2
    <3>2. d \in records /\ Ahead(d)
      BY <1>4, <3>1 DEF Of, Ahead
    <3> QED BY <3>1, <3>2 DEF JInv, Files, OneAhead
  <2> QED BY <2>1, <2>2
<1>8. NeverContradicted
  BY <1>5 DEF NeverContradicted
<1> QED BY <1>2, <1>3, <1>7, <1>8, InvTypes DEF JournalSound

-----------------------------------------------------------------------------
(* Steps.  First what a step leaves alone of the processes that do not     *)
(* take it.                                                                *)

More ==
  /\ records \subseteq records' /\ index \subseteq index' /\ sequence \subseteq sequence'
  /\ made \in Nat /\ made' \in Nat /\ made <= made'

LEMMA IdsAreNumbers ==
  ASSUME IdsAssumption, NEW s \in ProviderState
  PROVE  IdsOf(s) \subseteq Nat
<1>1. s.frontier \in Seq(Item) /\ s.pending \subseteq Pending
  BY DEF ProviderState
<1>2. \A i \in 1 .. Len(s.frontier) : s.frontier[i] \in Item
  BY <1>1, ElementOfSeq
<1>3. \A r \in s.pending : r.id \in Ids
  BY <1>1 DEF Pending
<1> QED BY <1>2, <1>3 DEF IdsOf, IdsAssumption, Item

LEMMA DrawnLater ==
  ASSUME IdsAssumption, More, NEW s \in ProviderState, Drawn(s)
  PROVE  Drawn(s)'
<1>1. \A id \in IdsOf(s) : id <= made'
  BY IdsAreNumbers DEF Drawn, More
<1> QED BY <1>1 DEF Drawn

LEMMA DiskGrows ==
  ASSUME More, NEW f, OnDisk(f)
  PROVE  OnDisk(f)'
BY DEF More, OnDisk

LEMMA JobKept ==
  ASSUME IdsAssumption, More, NEW q \in Procs,
         pc'[q] = pc[q], snap'[q] = snap[q], job'[q] = job[q],
         Decided(q), Written(q)
  PROVE  Decided(q)' /\ Written(q)'
<1>1. pc[q] \in Persisting => Drawn(job[q].to)'
  BY DrawnLater DEF Decided
<1>2. Decided(q)'
  <2>1. pc[q] \in Persisting => \A id \in IdsOf(job'[q].to) : id <= made'
    BY <1>1 DEF Drawn
  <2>2. pc'[q] \in {"decide"} \cup Persisting => snap'[q] \in ProviderState
    BY DEF Decided
  <2>3. pc'[q] \in Persisting =>
          /\ job'[q].to \in ProviderState
          /\ Move(snap'[q], job'[q].to, job'[q].chain)
          /\ q # Owner => job'[q].chain # <<>> /\ job'[q].chain \in records'
    BY DEF Decided, More
  <2> QED BY <2>1, <2>2, <2>3 DEF Decided, Drawn
<1>3. Written(q)'
  BY DEF Written, More
<1> QED BY <1>2, <1>3

(* The lock: taking it, freeing it, working under it, and dying with it.   *)
LEMMA LockKept ==
  ASSUME ProcsAssumption, LockIsHeld, NEW p \in Procs, NEW next,
         pc \in [Procs -> {"idle", "decide", "persist"} \cup UnderLock],
         pc' = [pc EXCEPT ![p] = next],
         \/ Take(p) /\ next \in UnderLock
         \/ Free /\ pc[p] \in UnderLock /\ next \notin UnderLock
         \/ lock' = lock /\ (next \in UnderLock <=> pc[p] \in UnderLock)
         \/ lock' = (IF lock = p THEN Dead ELSE lock) /\ next \notin UnderLock
  PROVE  LockIsHeld'
<1>1. Nobody \notin Procs /\ Dead \notin Procs /\ Nobody # Dead
  BY DEF ProcsAssumption, Procs, Owner, Nobody, Dead
<1>2. \A q \in Procs : pc'[q] = IF q = p THEN next ELSE pc[q]
  OBVIOUS
<1>3. CASE Take(p) /\ next \in UnderLock
  BY <1>1, <1>2, <1>3 DEF LockIsHeld, Take
<1>4. CASE Free /\ pc[p] \in UnderLock /\ next \notin UnderLock
  BY <1>1, <1>2, <1>4 DEF LockIsHeld, Free
<1>5. CASE lock' = lock /\ (next \in UnderLock <=> pc[p] \in UnderLock)
  BY <1>1, <1>2, <1>5 DEF LockIsHeld
<1>6. CASE lock' = (IF lock = p THEN Dead ELSE lock) /\ next \notin UnderLock
  BY <1>1, <1>2, <1>6 DEF LockIsHeld
<1> QED BY <1>3, <1>4, <1>5, <1>6

(* Whoever is at the files is alone there.                                 *)
LEMMA Alone ==
  ASSUME LockIsHeld, NEW p \in Procs, NEW q \in Procs, q # p, pc[p] \in UnderLock
  PROVE  pc[q] \notin UnderLock
BY DEF LockIsHeld

(* A step of p that leaves the journal and the terminal files alone: what  *)
(* remains to be shown is about p.                                         *)
Quietly(p) ==
  /\ UNCHANGED <<journal, records, index, sequence>>
  /\ head' \in {head, Tip}
  /\ made' \in Nat /\ made <= made'
  /\ \A q \in Procs : q # p =>
       pc'[q] = pc[q] /\ snap'[q] = snap[q] /\ job'[q] = job[q]
Told(p) ==
  /\ pc[p] \in Writing => snap[p] = Tip
  /\ pc[p] \in {"head", "compact"} => job[p].to = Tip
  /\ pc[p] = "compact" => head = Tip
  /\ snap[p] \in ProviderState => WasTip(snap[p])

LEMMA Quiet ==
  ASSUME JInv, IdsAssumption, NEW p \in Procs, Quietly(p),
         Locals', LockIsHeld', Counters', Told(p)',
         Decided(p)', Written(p)', p = Owner => OwnersAhead'
  PROVE  JInv' /\ Tip' = Tip
<1>1. Tip' = Tip /\ InJournal' = InJournal /\ Chained' = Chained
  BY DEF Quietly, Tip, LastOf, InJournal, Chained
<1>2. Tip \in ProviderState /\ Tip \in InJournal
  BY Tips DEF JInv
<1>3. Chains' /\ JournalShape'
  BY <1>1 DEF JInv, Quietly, Chains, JournalShape
<1>4. More
  <2>1. made \in Nat
    BY DEF JInv, Counters, IdsAssumption
  <2> QED BY <2>1 DEF More, Quietly
<1>5. TipIsKnown'
  <2>1. head' \in InJournal'
    BY <1>1, <1>2 DEF Quietly, JInv, TipIsKnown
  <2>2. ASSUME NEW q \in Procs, q # p
        PROVE  /\ pc'[q] \in Writing => snap'[q] = Tip'
               /\ pc'[q] \in {"head", "compact"} => job'[q].to = Tip'
               /\ pc'[q] = "compact" => head' = Tip'
    BY <1>1, <2>2 DEF Quietly, JInv, TipIsKnown
  <2>3. /\ pc'[p] \in Writing => snap'[p] = Tip'
        /\ pc'[p] \in {"head", "compact"} => job'[p].to = Tip'
        /\ pc'[p] = "compact" => head' = Tip'
    BY DEF Told
  <2> QED BY <2>1, <2>2, <2>3 DEF TipIsKnown
<1>6. Jobs'
  <2>1. ASSUME NEW q \in Procs, q # p
        PROVE  Decided(q)' /\ Written(q)'
    BY <1>4, <2>1, JobKept DEF Quietly, JInv, Jobs
  <2> QED BY <2>1 DEF Jobs
<1>7. ASSUME NEW s \in ProviderState, WasTip(s)
      PROVE  WasTip(s)'
  <2>1. OnDisk(s.frontier)'
    BY <1>4, <1>7, DiskGrows DEF WasTip
  <2>2. Drawn(s)'
    BY <1>4, <1>7, DrawnLater DEF WasTip
  <2> QED BY <1>1, <1>7, <2>1, <2>2 DEF WasTip
<1>8. Snaps'
  <2>1. WasTip(Tip)'
    BY <1>1, <1>2, <1>7 DEF JInv, Snaps, WasTip, Drawn, OnDisk
  <2>2. ASSUME NEW q \in Procs, q # p, snap'[q] \in ProviderState
        PROVE  WasTip(snap[q])'
    BY <1>7, <2>2 DEF Quietly, JInv, Snaps, WasTip, Drawn, OnDisk
  <2>3. snap'[p] \in ProviderState => WasTip(snap[p])'
    BY DEF Told
  <2> QED BY <2>1, <2>2, <2>3 DEF Snaps
<1>9. KeysAreUnique'
  BY <1>1 DEF JInv, KeysAreUnique
<1>10. Layered' /\ ChainsAreKnown' /\ OneAhead'
  <2>1. Layered'
    BY DEF JInv, Files, Layered, Quietly
  <2>2. ChainsAreKnown'
    BY <1>1 DEF JInv, Files, ChainsAreKnown, Quietly
  <2>3. OneAhead'
    BY <1>1 DEF JInv, Files, OneAhead, Ahead, Quietly
  <2> QED BY <2>1, <2>2, <2>3
<1>11. OwnersAhead'
  <2>1. Owner \in Procs
    BY DEF Procs
  <2>2. CASE p # Owner
    BY <1>1, <2>1, <2>2 DEF JInv, Files, OwnersAhead, Ahead, Quietly
  <2> QED BY <2>2
<1> QED BY <1>1, <1>3, <1>5, <1>6, <1>8, <1>9, <1>10, <1>11 DEF JInv, Files

LEMMA OthersStay ==
  ASSUME NEW p \in Procs, NEW q \in Procs, q # p, Locals,
         NEW next, pc' = [pc EXCEPT ![p] = next],
         snap' = snap \/ (\E s : snap' = [snap EXCEPT ![p] = s]),
         job' = job \/ (\E j : job' = [job EXCEPT ![p] = j])
  PROVE  pc'[q] = pc[q] /\ snap'[q] = snap[q] /\ job'[q] = job[q]
BY DEF Locals

(* A process that gives up, or dies.                                       *)
LEMMA Stopped ==
  ASSUME JInv, IdsAssumption, NEW p \in Procs,
         UNCHANGED <<journal, records, index, sequence, made>>, head' \in {head, Tip},
         Stop(p), LockIsHeld', Counters'
  PROVE  JInv' /\ Tip' = Tip
<1>1. Locals
  BY DEF JInv
<1>2. /\ pc'[p] = "idle" /\ snap'[p] = NoState /\ job'[p] = NoJob
      /\ \A q \in Procs : q # p =>
           pc'[q] = pc[q] /\ snap'[q] = snap[q] /\ job'[q] = job[q]
  BY <1>1 DEF Stop, Locals
<1>3. NoJob \in [to : ProviderState \cup {NoState}, chain : Seq(Item)]
  BY EmptySeq DEF NoJob
<1>4. Locals'
  BY <1>1, <1>3 DEF Locals, Stop
<1>5. made \in Nat
  BY DEF JInv, Counters, IdsAssumption
<1>6. Quietly(p)
  BY <1>2, <1>5 DEF Quietly
<1>7. pc'[p] \notin Persisting \cup {"decide", "head", "compact"}
  BY <1>2 DEF Persisting, Writing
<1>8. Decided(p)' /\ Written(p)' /\ Told(p)'
  BY <1>2, <1>7, NoStateIsNone DEF Decided, Written, Told, Persisting, Writing
<1>9. p = Owner => OwnersAhead'
  BY <1>7 DEF OwnersAhead
<1> QED BY <1>4, <1>6, <1>8, <1>9, Quiet

(* A step of p that is only a step: of its locals the pc alone changes.    *)
LEMMA OnlyPc ==
  ASSUME JInv, IdsAssumption, NEW p \in Procs,
         UNCHANGED <<journal, records, index, sequence, made, crashes, snap, job>>,
         head' \in {head, Tip}, NEW next \in {"idle", "decide", "persist"} \cup UnderLock,
         Step(p, next), LockIsHeld',
         next \in Persisting => pc[p] \in Persisting,
         next # "decide", next # "idle",
         Written(p)',
         next \in Writing => snap[p] = Tip,
         next \in {"head", "compact"} => job[p].to = Tip,
         next = "compact" => head' = Tip
  PROVE  JInv' /\ Tip' = Tip
<1>1. Locals
  BY DEF JInv
<1>2. /\ pc'[p] = next /\ snap'[p] = snap[p] /\ job'[p] = job[p]
      /\ \A q \in Procs : q # p =>
           pc'[q] = pc[q] /\ snap'[q] = snap[q] /\ job'[q] = job[q]
  BY <1>1 DEF Step, Locals
<1>3. Locals'
  BY <1>1 DEF Locals, Step
<1>4. made \in Nat
  BY DEF JInv, Counters, IdsAssumption
<1>5. Quietly(p) /\ More
  BY <1>2, <1>4 DEF Quietly, More
<1>6. Tip' = Tip
  BY DEF Tip, LastOf
<1>7. Decided(p)'
  <2>1. Decided(p)
    BY DEF JInv, Jobs
  <2>2. next \in {"decide"} \cup Persisting => pc[p] \in Persisting
    OBVIOUS
  <2>3. next \in Persisting => Drawn(job[p].to)
    BY <2>1, <2>2 DEF Decided
  <2>4. next \in Persisting => \A id \in IdsOf(job'[p].to) : id <= made'
    BY <2>3, <1>2 DEF Drawn
  <2>5. next \in {"decide"} \cup Persisting => snap'[p] \in ProviderState
    BY <2>1, <2>2, <1>2 DEF Decided
  <2>6. next \in Persisting =>
          /\ job'[p].to \in ProviderState
          /\ Move(snap'[p], job'[p].to, job'[p].chain)
          /\ p # Owner => job'[p].chain # <<>> /\ job'[p].chain \in records'
    BY <2>1, <2>2, <1>2 DEF Decided
  <2> QED BY <2>4, <2>5, <2>6, <1>2 DEF Decided, Drawn
<1>8. Told(p)'
  <2>1. snap'[p] \in ProviderState => WasTip(snap[p])'
    <3>1. snap[p] \in ProviderState => WasTip(snap[p])
      BY DEF JInv, Snaps
    <3> QED BY <3>1, <1>2, <1>6 DEF WasTip, OnDisk, Drawn
  <2> QED BY <2>1, <1>2, <1>6 DEF Told
<1>9. p = Owner => OwnersAhead'
  BY <1>2, <1>6 DEF JInv, Files, OwnersAhead, Ahead
<1>10. Counters'
  BY DEF JInv, Counters
<1> QED BY <1>3, <1>5, <1>7, <1>8, <1>9, <1>10, Quiet

-----------------------------------------------------------------------------
(* The actions, up to the decision.                                        *)

LEMMA TakeStep ==
  ASSUME JInv, IdsAssumption, ProcsAssumption, NEW p \in Procs,
         Begin(p) \/ BeginPersist(p)
  PROVE  JInv' /\ Tip' = Tip
<1>1. CASE Begin(p)
  <2>1. LockIsHeld'
    BY <1>1, LockKept DEF Begin, Step, JInv, Locals, UnderLock
  <2>2. pc'[p] = "load"
    BY <1>1 DEF Begin, Step, JInv, Locals
  <2>3. Written(p)'
    BY <2>2 DEF Written
  <2> QED BY <1>1, <2>1, <2>3, OnlyPc DEF Begin, files, UnderLock, Persisting, Writing
<1>2. CASE BeginPersist(p)
  <2>1. LockIsHeld'
    BY <1>2, LockKept DEF BeginPersist, Step, JInv, Locals, UnderLock
  <2>2. pc'[p] = "reload"
    BY <1>2 DEF BeginPersist, Step, JInv, Locals
  <2>3. Written(p)'
    BY <2>2 DEF Written
  <2> QED BY <1>2, <2>1, <2>3, OnlyPc DEF BeginPersist, files, UnderLock, Persisting, Writing
<1> QED BY <1>1, <1>2

LEMMA GiveUpStep ==
  ASSUME JInv, IdsAssumption, ProcsAssumption, NEW p \in Procs,
         \/ LoadFails(p) \/ DecideFails(p) \/ Read(p)
         \/ Reload(p) /\ ~Unchanged(p)
  PROVE  JInv' /\ Tip' = Tip
<1>1. Counters' /\ UNCHANGED <<journal, records, index, sequence, made>> /\ head' = head
  BY DEF LoadFails, DecideFails, Read, Reload, files, JInv, Counters
<1>2. Stop(p)
  BY DEF LoadFails, DecideFails, Read, Reload
<1>3. \/ Free /\ pc[p] \in UnderLock
      \/ lock' = lock /\ pc[p] \notin UnderLock
  BY DEF LoadFails, DecideFails, Read, Reload, Loading, Verified, UnderLock
<1>4. LockIsHeld'
  BY <1>2, <1>3, LockKept DEF Stop, JInv, Locals, UnderLock
<1> QED BY <1>1, <1>2, <1>4, Stopped

LEMMA CrashStep ==
  ASSUME JInv, IdsAssumption, ProcsAssumption, JournalAssumption, NEW p \in Procs, Crash(p)
  PROVE  JInv' /\ Tip' = Tip
<1>1. Counters' /\ UNCHANGED <<journal, records, index, sequence, made>> /\ head' = head
  BY DEF Crash, files, JInv, Counters, JournalAssumption
<1>2. LockIsHeld'
  BY LockKept DEF Crash, Stop, JInv, Locals, UnderLock
<1> QED BY <1>1, <1>2, Stopped DEF Crash

LEMMA RepairStep ==
  ASSUME JInv, IdsAssumption, ProcsAssumption, NEW p \in Procs, RepairHead(p)
  PROVE  JInv' /\ Tip' = Tip
<1>1. LockIsHeld' /\ Step(p, pc[p])
  BY DEF RepairHead, local, JInv, Locals, LockIsHeld, Step
<1>2. pc[p] \in {"load", "reload"}
  BY DEF RepairHead, Loading
<1>3. Written(p)'
  BY <1>2 DEF RepairHead, local, Written
<1> QED BY <1>1, <1>2, <1>3, OnlyPc DEF RepairHead, local, UnderLock, Persisting, Writing

LEMMA LoadStep ==
  ASSUME JInv, IdsAssumption, ProcsAssumption, NEW p \in Procs, Load(p)
  PROVE  JInv' /\ Tip' = Tip
<1> USE DEF Load
<1>1. Locals /\ Tip \in ProviderState
  BY Tips DEF JInv
<1>2. /\ pc'[p] = "decide" /\ snap'[p] = Tip /\ job'[p] = job[p]
      /\ \A q \in Procs : q # p =>
           pc'[q] = pc[q] /\ snap'[q] = snap[q] /\ job'[q] = job[q]
  BY <1>1 DEF Step, Locals
<1>3. Locals'
  BY <1>1 DEF Locals, Step
<1>4. made \in Nat
  BY DEF JInv, Counters, IdsAssumption
<1>5. Quietly(p)
  BY <1>2, <1>4 DEF Quietly, files
<1>6. Tip' = Tip
  BY DEF Tip, LastOf, files
<1>7. Decided(p)' /\ Written(p)'
  BY <1>1, <1>2 DEF Decided, Written, Persisting, Writing
<1>8. Told(p)'
  <2>1. WasTip(Tip)'
    BY <1>6 DEF JInv, Snaps, WasTip, OnDisk, Drawn, files
  <2>2. WasTip(snap[p])'
    BY <2>1, <1>2, <1>6 DEF WasTip, OnDisk, Drawn
  <2> QED BY <1>2, <2>2 DEF Told, Writing
<1>9. LockIsHeld'
  BY <1>1, LockKept DEF Step, JInv, Locals, UnderLock
<1>10. p = Owner => OwnersAhead'
  BY <1>2 DEF OwnersAhead, Persisting, Writing
<1>11. Counters'
  BY DEF JInv, Counters
<1> QED BY <1>3, <1>5, <1>7, <1>8, <1>9, <1>10, <1>11, Quiet

LEMMA ReloadStep ==
  ASSUME JInv, IdsAssumption, ProcsAssumption, NEW p \in Procs, Reload(p), Unchanged(p)
  PROVE  JInv' /\ Tip' = Tip
<1> DEFINE next == IF job[p].chain = <<>> THEN "append" ELSE "record"
<1>1. /\ pc[p] = "reload" /\ Step(p, next)
      /\ UNCHANGED <<lock, snap, job, journal, head, records, index, sequence, made, crashes>>
  BY DEF Reload, files
<1>2. LockIsHeld'
  BY <1>1, LockKept DEF Step, JInv, Locals, UnderLock
<1>3. pc'[p] = next /\ job'[p] = job[p]
  BY <1>1 DEF Step, JInv, Locals
<1>4. Written(p)'
  BY <1>3 DEF Written
<1>5. snap[p] = Tip
  BY DEF Unchanged
<1> QED BY <1>1, <1>2, <1>4, <1>5, OnlyPc DEF UnderLock, Persisting, Writing

LEMMA WriteHeadStep ==
  ASSUME JInv, IdsAssumption, ProcsAssumption, NEW p \in Procs, WriteHead(p)
  PROVE  JInv' /\ Tip' = Tip
<1> USE DEF WriteHead
<1>1. LockIsHeld'
  BY LockKept DEF Step, JInv, Locals, UnderLock
<1>2. pc'[p] = "compact" /\ job[p].to = Tip
  BY DEF Step, JInv, Locals, TipIsKnown
<1>3. Written(p)'
  BY <1>2 DEF Written
<1> QED BY <1>1, <1>2, <1>3, OnlyPc DEF UnderLock, Persisting, Writing

-----------------------------------------------------------------------------
(* Decisions.                                                              *)

LEMMA Persisted ==
  ASSUME JInv, IdsAssumption, ProcsAssumption, NEW p \in Procs, NEW to \in ProviderState,
         NEW chain \in Seq(Item), pc[p] = "decide", Persist(p, to, chain),
         made' \in {made, made + 1}, Counters',
         Move(snap[p], to, chain), Drawn(to)',
         p # Owner => chain # <<>> /\ chain \in records,
         p = Owner /\ chain # <<>> /\ snap[p] = Tip =>
           \A c \in records : Ahead(c) => c = chain
  PROVE  JInv' /\ Tip' = Tip
<1> USE DEF Persist
<1>1. Locals
  BY DEF JInv
<1>2. /\ pc'[p] = "persist" /\ snap'[p] = snap[p]
      /\ job'[p].to = to /\ job'[p].chain = chain
      /\ \A q \in Procs : q # p =>
           pc'[q] = pc[q] /\ snap'[q] = snap[q] /\ job'[q] = job[q]
  BY <1>1 DEF Step, Locals
<1>3. Locals'
  BY <1>1 DEF Locals, Step
<1>4. made \in Nat
  BY DEF JInv, Counters, IdsAssumption
<1>5. Quietly(p) /\ More
  BY <1>2, <1>4 DEF Quietly, More, files
<1>6. Tip' = Tip
  BY DEF Tip, LastOf, files
<1>7. snap[p] \in ProviderState
  BY DEF JInv, Jobs, Decided
<1>8. Decided(p)'
  <2>1. \A id \in IdsOf(job'[p].to) : id <= made'
    BY <1>2 DEF Drawn
  <2>2. snap'[p] \in ProviderState
    BY <1>2, <1>7
  <2>3. /\ job'[p].to \in ProviderState
        /\ Move(snap'[p], job'[p].to, job'[p].chain)
        /\ p # Owner => job'[p].chain # <<>> /\ job'[p].chain \in records'
    BY <1>2 DEF files
  <2> QED BY <2>1, <2>2, <2>3 DEF Decided, Drawn
<1>9. Written(p)'
  BY <1>2 DEF Written
<1>10. Told(p)'
  <2>1. WasTip(snap[p])
    BY <1>7 DEF JInv, Snaps
  <2>2. OnDisk(snap[p].frontier)' /\ Drawn(snap[p])'
    <3>1. \A id \in IdsOf(snap[p]) : id <= made'
      <4>1. ASSUME NEW s \in ProviderState, Drawn(s)
            PROVE  \A id \in IdsOf(s) : id <= made'
        BY <4>1, <1>5, DrawnLater DEF Drawn
      <4> QED BY <4>1, <1>7, <2>1 DEF WasTip
    <3> QED BY <3>1, <2>1, <1>2 DEF WasTip, OnDisk, Drawn, files
  <2>3. WasTip(snap[p])'
    BY <2>1, <2>2, <1>2, <1>6 DEF WasTip
  <2> QED BY <1>2, <2>3 DEF Told, Writing
<1>11. LockIsHeld'
  BY <1>1, LockKept DEF Step, JInv, Locals, UnderLock
<1>12. p = Owner => OwnersAhead'
  BY <1>2, <1>6 DEF OwnersAhead, Ahead, files
<1> QED BY <1>3, <1>5, <1>8, <1>9, <1>10, <1>11, <1>12, Quiet

(* The ids of what an operation returns.                                   *)
LEMMA MoveIds ==
  ASSUME NEW s \in ProviderState, NEW r \in s.pending
  PROVE  /\ IdsOf(Committed(s, r)) \subseteq IdsOf(s)
         /\ IdsOf(Aborted(s, r)) \subseteq IdsOf(s)
         /\ IdsOf(Reconciled(s, r)) \subseteq IdsOf(s)
<1>1. IdsOf(Committed(s, r)) \subseteq IdsOf(s)
  <2> DEFINE q == [r EXCEPT !.st = "committed"]
  <2>1. Committed(s, r).frontier = s.frontier /\ q.id = r.id
        /\ Committed(s, r).pending = (s.pending \ {r}) \cup {q}
    BY CommittedFields
  <2> HIDE DEF q
  <2> QED BY <2>1 DEF IdsOf
<1>2. IdsOf(Aborted(s, r)) \subseteq IdsOf(s)
  BY LessFields DEF IdsOf
<1>3. IdsOf(Reconciled(s, r)) \subseteq IdsOf(s)
  <2>1. /\ Reconciled(s, r).frontier = ChainOf(s, r)
        /\ Reconciled(s, r).pending = s.pending \ {r}
    BY LessFields
  <2>2. \A i \in 1 .. Len(ChainOf(s, r)) : ChainOf(s, r)[i].id \in IdsOf(s)
    BY ChainKeys
  <2>3. \A q \in s.pending : q.id \in IdsOf(s)
    BY DEF IdsOf
  <2>4. ASSUME NEW id \in IdsOf(Reconciled(s, r))
        PROVE  id \in IdsOf(s)
    <3>1. \/ \E q \in s.pending : id = q.id
          \/ \E i \in 1 .. Len(ChainOf(s, r)) : id = ChainOf(s, r)[i].id
      BY <2>1, <2>4 DEF IdsOf
    <3> QED BY <2>2, <2>3, <3>1
  <2> QED BY <2>4
<1> QED BY <1>1, <1>2, <1>3

LEMMA UpIds ==
  ASSUME NEW s \in ProviderState
  PROVE  IdsOf(Bootstrapped(s)) = IdsOf(s) /\ IdsOf(BackedUp(s)) = IdsOf(s)
<1>1. IdsOf(Bootstrapped(s)) = IdsOf(s)
  BY UpFields, Zenon DEF IdsOf
<1>2. IdsOf(BackedUp(s)) = IdsOf(s)
  BY UpFields, Zenon DEF IdsOf
<1> QED BY <1>1, <1>2

LEMMA ReservedIds ==
  ASSUME NEW s \in ProviderState, NEW k \in Keys, NEW id \in Ids
  PROVE  IdsOf(Reserved(s, k, id)) \subseteq IdsOf(s) \cup {id}
<1> DEFINE n == [id |-> id, key |-> k, gen |-> s.cur, st |-> "pending"]
<1>1. /\ Reserved(s, k, id).frontier = s.frontier
      /\ Reserved(s, k, id).pending = s.pending \cup {n} /\ n.id = id
  BY ReservedFields
<1> HIDE DEF n
<1> QED BY <1>1 DEF IdsOf

(* A reservation to be completed has its chain in the records.             *)
LEMMA FirstIsBegun ==
  ASSUME JInv, IdsAssumption, NEW s \in ProviderState, Attention(s) # {},
         ~Contradicts(s, FirstOf(s))
  PROVE  LET r == FirstOf(s) IN
         r \in s.pending /\ r.st = "committed" /\ ChainOf(s, r) \in records
<1>1. Attention(s) \subseteq s.pending /\ s.pending \subseteq Pending
  BY DEF Attention, ProviderState
<1>2. \A r \in Attention(s) : r.id \in Nat
  BY <1>1 DEF Pending, IdsAssumption
<1>3. \E r \in Attention(s) : \A q \in Attention(s) : r.id <= q.id
  <2> DEFINE T == {r.id : r \in Attention(s)}
  <2>1. T \in SUBSET Nat /\ T # {}
    BY <1>2
  <2>2. PICK x \in T : \A y \in T : x <= y
    BY <2>1, LeastOf
  <2> QED BY <2>2
<1>4. FirstOf(s) \in Attention(s)
  BY <1>3 DEF FirstOf
<1>5. Recoverable(s, FirstOf(s)) /\ FirstOf(s) \in s.pending
  BY <1>4 DEF Attention
<1>6. index \subseteq records
  BY DEF JInv, Files, Layered
<1>7. ChainOf(s, FirstOf(s)) \in records
  <2> DEFINE r == FirstOf(s)
  <2>1. Begun(s, r) /\ \A c \in IndexOf(r.key) : c = ChainOf(s, r)
    BY <1>5 DEF Recoverable, Contradicts
  <2> HIDE DEF r
  <2>2. IndexOf(r.key) \subseteq records
    BY <1>6 DEF IndexOf
  <2>3. ChainOf(s, r) \in records
    BY <2>1, <2>2 DEF Begun
  <2> QED BY <2>3 DEF r
<1> QED BY <1>5, <1>7 DEF Recoverable

LEMMA RecoverStep ==
  ASSUME JInv, IdsAssumption, ProcsAssumption, NEW p \in Procs, DecideRecover(p)
  PROVE  JInv' /\ Tip' = Tip
<1>1. ASSUME NEW s \in ProviderState, s = snap[p], NEW r, r = FirstOf(s)
      PROVE  JInv' /\ Tip' = Tip
  <2> DEFINE to == Reconciled(s, r)
             chain == ChainOf(s, r)
  <2>1. /\ Attention(s) # {} /\ ~Contradicts(s, r) /\ pc[p] = "decide"
        /\ Persist(p, to, chain) /\ made' = made
    BY <1>1 DEF DecideRecover
  <2>2. r \in s.pending /\ r.st = "committed" /\ chain \in records
    BY <1>1, <2>1, FirstIsBegun
  <2>3. to \in ProviderState /\ chain \in Seq(Item) /\ chain # <<>>
    BY <2>2, LessFields, ChainFacts
  <2>4. Move(s, to, chain)
    BY <2>2, <2>3 DEF Move, Chaining, CanReconcile
  <2>5. Counters'
    BY <2>1 DEF Persist, JInv, Counters
  <2>6. Drawn(to)'
    <3>1. Drawn(s)
      BY <1>1 DEF JInv, Snaps, WasTip
    <3>2. IdsOf(to) \subseteq IdsOf(s)
      BY <2>2, MoveIds
    <3> QED BY <2>1, <3>1, <3>2 DEF Drawn
  <2>7. s = Tip => \A c \in records : Ahead(c) => c = chain
    <3>1. s = Tip => Ahead(chain)
      BY <2>2, ChainFacts DEF Ahead
    <3> QED BY <2>2, <3>1 DEF JInv, Files, OneAhead
  <2> HIDE DEF to, chain
  <2> QED BY <1>1, <2>1, <2>2, <2>3, <2>4, <2>5, <2>6, <2>7, Persisted
<1>2. snap[p] \in ProviderState
  BY DEF DecideRecover, JInv, Jobs, Decided
<1> QED BY <1>1, <1>2

(* Nothing has begun when the owner decides anew.                          *)
LEMMA NothingBegun ==
  ASSUME JInv, Verified(Owner), snap[Owner] = Tip, NEW c \in records
  PROVE  ~Ahead(c)
<1> SUFFICES ASSUME Ahead(c) PROVE FALSE
  OBVIOUS
<1>1. PICK r \in Tip.pending : r.st = "committed" /\ c = ChainOf(Tip, r)
  BY AheadIsNext
<1>2. Begun(Tip, r)
  BY <1>1 DEF Begun
<1>3. r \in Attention(Tip)
  BY <1>1, <1>2 DEF Attention, Recoverable
<1> QED BY <1>3 DEF Verified

LEMMA ReserveStep ==
  ASSUME JInv, IdsAssumption, ProcsAssumption, NEW k \in Keys, DecideReserve(k)
  PROVE  JInv' /\ Tip' = Tip
<1>1. ASSUME NEW s \in ProviderState, s = snap[Owner], NEW id, id = made + 1
      PROVE  JInv' /\ Tip' = Tip
  <2> DEFINE to == Reserved(s, k, id)
  <2>1. /\ pc[Owner] = "decide" /\ Unindexed(k) /\ s.cur > 0 /\ Unreserved(s, k)
        /\ Cardinality(s.pending) < MaxPending /\ id \in Ids
        /\ Persist(Owner, to, <<>>) /\ made' = made + 1
    BY <1>1 DEF DecideReserve, Verified
  <2>2. Owner \in Procs /\ made \in Nat
    BY DEF Procs, JInv, Counters, IdsAssumption
  <2>3. WasTip(s) /\ s.frontier \in Seq(Item)
    BY <1>1, <2>2 DEF JInv, Snaps, ProviderState
  <2>4. k \notin KeysOf(s.frontier)
    BY <2>1, <2>3, FrontierIsIndexed DEF WasTip
  <2>5. CanReserve(s, k)
    BY <2>1, <2>4 DEF CanReserve, Unreserved
  <2>6. \A i \in IdsOf(s) : i <= made
    BY <2>3 DEF WasTip, Drawn
  <2>7. id \notin IdsOf(s)
    BY <1>1, <2>2, <2>6
  <2>8. Plain(s, to)
    BY <2>1, <2>5, <2>7 DEF Plain
  <2>9. Move(s, to, <<>>)
    BY <2>8 DEF Move
  <2>10. to \in ProviderState /\ <<>> \in Seq(Item)
    BY <2>1, ReservedFields, EmptySeq
  <2>11. Counters'
    BY <1>1, <2>1 DEF Persist, JInv, Counters
  <2>12. Drawn(to)'
    <3>1. \A i \in IdsOf(to) : i \in IdsOf(s) \/ i = made + 1
      BY <1>1, <2>1, ReservedIds
    <3>2. IdsOf(s) \subseteq Nat
      BY IdsAreNumbers
    <3> HIDE DEF to
    <3>3. \A i \in IdsOf(to) : i <= made'
      BY <2>1, <2>2, <2>6, <3>1, <3>2
    <3> QED BY <3>3 DEF Drawn, to
  <2> HIDE DEF to
  <2> QED BY <1>1, <2>1, <2>2, <2>9, <2>10, <2>11, <2>12, Persisted
<1>2. snap[Owner] \in ProviderState
  BY DEF DecideReserve, Verified, JInv, Jobs, Decided, Procs
<1> QED BY <1>1, <1>2

LEMMA OtherStep ==
  ASSUME JInv, IdsAssumption, ProcsAssumption, DecideOther
  PROVE  JInv' /\ Tip' = Tip
<1>1. ASSUME NEW s \in ProviderState, s = snap[Owner]
      PROVE  JInv' /\ Tip' = Tip
  <2>1. Owner \in Procs /\ pc[Owner] = "decide" /\ Verified(Owner) /\ made' = made
    BY DEF Procs, DecideOther, Verified
  <2>2. Drawn(s)
    BY <1>1, <2>1 DEF JInv, Snaps, WasTip
  <2>3. ASSUME NEW to \in ProviderState, NEW chain \in Seq(Item), Move(s, to, chain),
               IdsOf(to) \subseteq IdsOf(s), Persist(Owner, to, chain)
        PROVE  JInv' /\ Tip' = Tip
    <3>1. Counters'
      BY <2>1, <2>3 DEF Persist, JInv, Counters
    <3>2. Drawn(to)'
      BY <2>1, <2>2, <2>3 DEF Drawn
    <3>3. s = Tip => \A c \in records : Ahead(c) => c = chain
      BY <1>1, <2>1, NothingBegun
    <3> QED BY <1>1, <2>1, <2>3, <3>1, <3>2, <3>3, Persisted
  <2>4. <<>> \in Seq(Item)
    BY EmptySeq
  <2>5. ASSUME NEW to, Plain(s, to), IdsOf(to) \subseteq IdsOf(s),
               to \in ProviderState, Persist(Owner, to, <<>>)
        PROVE  JInv' /\ Tip' = Tip
    <3>1. Move(s, to, <<>>)
      BY <2>5 DEF Move
    <3> QED BY <2>3, <2>4, <2>5, <3>1
  <2>6. CASE CanBootstrap(s) /\ Persist(Owner, Bootstrapped(s), <<>>)
    <3>1. Plain(s, Bootstrapped(s))
      BY <2>6 DEF Plain
    <3> QED BY <2>5, <2>6, <3>1, UpFields, UpIds
  <2>7. CASE CanBackup(s) /\ Persist(Owner, BackedUp(s), <<>>)
    <3>1. Plain(s, BackedUp(s))
      BY <2>7 DEF Plain
    <3> QED BY <2>5, <2>7, <3>1, UpFields, UpIds
  <2>8. ASSUME NEW r \in s.pending, CanCommit(s, r), Persist(Owner, Committed(s, r), <<>>)
        PROVE  JInv' /\ Tip' = Tip
    <3>1. Plain(s, Committed(s, r))
      BY <2>8 DEF Plain
    <3>2. Committed(s, r) \in ProviderState
      BY CommittedFields
    <3> QED BY <2>5, <2>8, <3>1, <3>2, MoveIds
  <2>9. ASSUME NEW r \in s.pending, CanAbort(s, r), Persist(Owner, Aborted(s, r), <<>>)
        PROVE  JInv' /\ Tip' = Tip
    <3>1. Plain(s, Aborted(s, r))
      BY <2>9 DEF Plain
    <3> QED BY <2>5, <2>9, <3>1, LessFields, MoveIds
  <2>10. ASSUME NEW r \in s.pending, CanReconcile(s, r),
                Persist(Owner, Reconciled(s, r), ChainOf(s, r))
         PROVE  JInv' /\ Tip' = Tip
    <3>1. ChainOf(s, r) \in Seq(Item) /\ ChainOf(s, r) # <<>>
      BY ChainFacts
    <3>2. Move(s, Reconciled(s, r), ChainOf(s, r))
      BY <2>10, <3>1 DEF Move, Chaining
    <3>3. Reconciled(s, r) \in ProviderState /\ IdsOf(Reconciled(s, r)) \subseteq IdsOf(s)
      BY LessFields, MoveIds
    <3> QED BY <2>3, <2>10, <3>1, <3>2, <3>3
  <2> QED BY <1>1, <2>6, <2>7, <2>8, <2>9, <2>10 DEF DecideOther
<1>2. snap[Owner] \in ProviderState
  BY DEF DecideOther, Verified, JInv, Jobs, Decided, Procs
<1> QED BY <1>1, <1>2

-----------------------------------------------------------------------------
(* The writes.  Of a reconciliation under way the chain is known, and it   *)
(* is the only one ahead of the frontier.                                  *)

LEMMA ChainBeingFiled ==
  ASSUME JInv, NEW p \in Procs, pc[p] \in Writing, job[p].chain # <<>>
  PROVE  LET c == job[p].chain IN
         /\ snap[p] = Tip /\ c \in Seq(Item) /\ Len(c) = Len(Tip.frontier) + 1
         /\ Chaining(Tip, job[p].to, c)
         /\ \E r \in Tip.pending : r.st = "committed" /\ c = ChainOf(Tip, r)
         /\ \A d \in records : Ahead(d) => d = c
<1>1. pc[p] \in Persisting /\ snap[p] = Tip
  BY DEF JInv, TipIsKnown, Persisting
<1>2. Chaining(Tip, job[p].to, job[p].chain)
  BY <1>1 DEF JInv, Jobs, Decided, Move
<1>3. Tip \in ProviderState
  BY Tips DEF JInv
<1>4. PICK r \in Tip.pending : r.st = "committed" /\ job[p].chain = ChainOf(Tip, r)
  BY <1>2 DEF Chaining, CanReconcile
<1>5. job[p].chain \in Seq(Item) /\ Len(job[p].chain) = Len(Tip.frontier) + 1
  BY <1>3, <1>4, ChainFacts
<1>6. \A d \in records : Ahead(d) => d = job[p].chain
  <2>1. CASE p = Owner
    BY <1>1, <2>1 DEF JInv, Files, OwnersAhead
  <2>2. CASE p # Owner
    <3>1. job[p].chain \in records
      BY <1>1, <2>2 DEF JInv, Jobs, Decided
    <3>2. Ahead(job[p].chain)
      BY <1>5, <3>1 DEF Ahead
    <3> QED BY <3>1, <3>2 DEF JInv, Files, OneAhead
  <2> QED BY <2>1, <2>2
<1> QED BY <1>1, <1>2, <1>4, <1>5, <1>6

LEMMA Filed ==
  ASSUME JInv, IdsAssumption, ProcsAssumption, NEW p \in Procs,
         pc[p] \in {"record", "index", "sequence"},
         NEW next \in {"index", "sequence", "append"}, Step(p, next),
         UNCHANGED <<journal, head, lock, snap, job, made, crashes>>,
         records \subseteq records', records' \subseteq records \cup {job[p].chain},
         index \subseteq index', index' \subseteq index \cup {job[p].chain},
         sequence \subseteq sequence', sequence' \subseteq sequence \cup {job[p].chain},
         Layered', Written(p)'
  PROVE  JInv' /\ Tip' = Tip
<1> DEFINE c == job[p].chain
<1>1. Locals /\ pc[p] \in Writing /\ c # <<>>
  BY DEF JInv, Jobs, Written, Writing
<1>2. /\ snap[p] = Tip /\ c \in Seq(Item) /\ Len(c) = Len(Tip.frontier) + 1
      /\ \E r \in Tip.pending : r.st = "committed" /\ c = ChainOf(Tip, r)
      /\ \A d \in records : Ahead(d) => d = c
  BY <1>1, ChainBeingFiled
<1>3. /\ pc'[p] = next /\ next \in Writing
      /\ \A q \in Procs : q # p => pc'[q] = pc[q]
  BY <1>1 DEF Step, Locals, Writing
<1>4. Tip' = Tip /\ InJournal' = InJournal /\ Chained' = Chained
  BY DEF Tip, LastOf, InJournal, Chained
<1>5. More
  BY DEF More, JInv, Counters, IdsAssumption
<1>6. Locals'
  BY <1>1 DEF Locals, Step, UnderLock
<1>7. LockIsHeld'
  BY <1>1, LockKept DEF Step, JInv, Locals, UnderLock
<1>8. Counters' /\ JournalShape'
  BY <1>4 DEF JInv, Counters, JournalShape
<1>9. Chains'
  BY <1>1, <1>2 DEF JInv, Chains
<1>10. TipIsKnown'
  BY <1>2, <1>3, <1>4 DEF JInv, TipIsKnown, Writing
<1>11. Jobs'
  <2>1. ASSUME NEW q \in Procs, q # p
        PROVE  Decided(q)' /\ Written(q)'
    BY <1>3, <1>5, <2>1, JobKept DEF JInv, Jobs
  <2>2. Decided(p)'
    <3>1. Decided(p) /\ pc[p] \in Persisting
      BY <1>1 DEF JInv, Jobs, Persisting
    <3>2. /\ snap'[p] \in ProviderState /\ job'[p].to \in ProviderState
          /\ Move(snap'[p], job'[p].to, job'[p].chain)
          /\ p # Owner => job'[p].chain # <<>> /\ job'[p].chain \in records'
      BY <3>1 DEF Decided
    <3>3. \A id \in IdsOf(job'[p].to) : id <= made'
      BY <3>1 DEF Decided, Drawn
    <3> QED BY <3>2, <3>3 DEF Decided, Drawn
  <2> QED BY <2>1, <2>2 DEF Jobs
<1>12. Snaps'
  <2>1. ASSUME NEW s, WasTip(s)
        PROVE  WasTip(s)'
    <3>1. OnDisk(s.frontier)'
      BY <1>5, <2>1, DiskGrows DEF WasTip
    <3> QED BY <1>4, <2>1, <3>1 DEF WasTip, Drawn
  <2>2. WasTip(Tip)'
    BY <1>4, <2>1 DEF JInv, Snaps, WasTip, OnDisk, Drawn
  <2>3. ASSUME NEW q \in Procs, snap'[q] \in ProviderState
        PROVE  WasTip(snap[q])'
    BY <1>4, <2>1, <2>3 DEF JInv, Snaps, WasTip, OnDisk, Drawn
  <2> QED BY <2>2, <2>3 DEF Snaps
<1>13. KeysAreUnique'
  BY <1>4 DEF JInv, KeysAreUnique
<1>14. ChainsAreKnown'
  <2>1. Known(Tip, c)
    BY <1>2 DEF Known
  <2> QED BY <1>4, <2>1 DEF JInv, Files, ChainsAreKnown
<1>15. \A d \in records' : Len(d) = Len(Tip.frontier) + 1 => d = c
  BY <1>2 DEF Ahead
<1>16. OneAhead'
  BY <1>4, <1>15 DEF OneAhead, Ahead
<1>17. OwnersAhead'
  <2>1. CASE p = Owner
    BY <1>4, <1>15, <2>1 DEF OwnersAhead, Ahead
  <2>2. CASE p # Owner
    <3>1. c \in records
      BY <1>1, <2>2 DEF JInv, Jobs, Decided, Persisting
    <3>2. records' = records
      BY <3>1
    <3>3. pc'[Owner] = pc[Owner]
      BY <1>3, <2>2 DEF Procs
    <3> QED BY <1>4, <3>2, <3>3 DEF JInv, Files, OwnersAhead, Ahead
  <2> QED BY <2>1, <2>2
<1>18. Files'
  BY <1>14, <1>16, <1>17 DEF Files
<1> QED BY <1>4, <1>6, <1>7, <1>8, <1>9, <1>10, <1>11, <1>12, <1>13, <1>18 DEF JInv

LEMMA FileStep ==
  ASSUME JInv, IdsAssumption, ProcsAssumption, NEW p \in Procs,
         WriteRecord(p) \/ WriteIndex(p) \/ WriteSequence(p)
  PROVE  JInv' /\ Tip' = Tip
<1>1. Locals /\ Layered /\ Written(p)
  BY DEF JInv, Files, Jobs
<1>2. CASE WriteRecord(p)
  <2>1. pc'[p] = "index" /\ job'[p] = job[p]
    BY <1>1, <1>2 DEF WriteRecord, Step, Locals
  <2>2. Written(p)' /\ Layered'
    BY <1>1, <1>2, <2>1 DEF WriteRecord, Written, Layered
  <2> QED BY <1>2, <2>2, Filed DEF WriteRecord
<1>3. CASE WriteIndex(p)
  <2>1. pc'[p] = "sequence" /\ job'[p] = job[p]
    BY <1>1, <1>3 DEF WriteIndex, Step, Locals
  <2>2. Written(p)' /\ Layered'
    BY <1>1, <1>3, <2>1 DEF WriteIndex, Written, Layered
  <2> QED BY <1>3, <2>2, Filed DEF WriteIndex
<1>4. CASE WriteSequence(p)
  <2>1. pc'[p] = "append" /\ job'[p] = job[p]
    BY <1>1, <1>4 DEF WriteSequence, Step, Locals
  <2>2. Written(p)' /\ Layered'
    BY <1>1, <1>4, <2>1 DEF WriteSequence, Written, Layered
  <2> QED BY <1>4, <2>2, Filed DEF WriteSequence
<1> QED BY <1>2, <1>3, <1>4

(* The record in the journal is the operation.                             *)
LEMMA Appended ==
  ASSUME JournalShape, NEW to \in ProviderState,
         journal' = Append(journal, [prev |-> Tip, state |-> to])
  PROVE  JournalShape' /\ Tip' = to /\ InJournal \subseteq InJournal'
<1> DEFINE rec == [prev |-> Tip, state |-> to]
<1>1. Tip \in ProviderState /\ Len(journal) \in Nat \ {0}
  BY Tips
<1>2. rec \in Record /\ rec.prev = Tip /\ rec.state = to
  BY <1>1 DEF Record
<1>3. journal \in Seq(Record) /\ Chained
  BY DEF JournalShape
<1> HIDE DEF rec
<1>4. /\ journal' \in Seq(Record) /\ journal' # <<>> /\ Len(journal') = Len(journal) + 1
      /\ \A i \in 1 .. Len(journal) : journal'[i] = journal[i]
      /\ journal'[Len(journal) + 1] = rec
  BY <1>2, <1>3, AppendProperties DEF rec
<1>5. Tip' = to
  BY <1>2, <1>4 DEF Tip, LastOf
<1>6. Chained'
  <2> SUFFICES ASSUME NEW i \in 1 .. Len(journal')
               PROVE  journal'[i].prev = IF i = 1 THEN NoState ELSE journal'[i - 1].state
    BY DEF Chained
  <2>1. CASE i \in 1 .. Len(journal)
    <3>1. journal'[i] = journal[i] /\ (i # 1 => journal'[i - 1] = journal[i - 1])
      BY <1>1, <1>4, <2>1
    <3> QED BY <1>3, <2>1, <3>1 DEF Chained
  <2>2. CASE i = Len(journal) + 1
    <3>1. i # 1 /\ journal'[i - 1] = journal[Len(journal)]
      BY <1>1, <1>4, <2>2
    <3>2. journal'[i].prev = journal[Len(journal)].state
      BY <1>2, <1>4, <2>2 DEF Tip, LastOf
    <3> QED BY <3>1, <3>2
  <2> QED BY <1>1, <1>4, <2>1, <2>2
<1>7. InJournal \subseteq InJournal'
  BY <1>1, <1>4 DEF InJournal
<1> QED BY <1>4, <1>5, <1>6, <1>7 DEF JournalShape

LEMMA AppendStep ==
  ASSUME JInv, IdsAssumption, ProcsAssumption, NEW p \in Procs, AppendJournal(p)
  PROVE  JInv' /\ Move(Tip, Tip', job[p].chain)
<1>1. ASSUME NEW s \in ProviderState, s = Tip, NEW to \in ProviderState, to = job[p].to,
             NEW k, k = job[p].chain
      PROVE  JInv' /\ Move(Tip, Tip', job[p].chain)
  <2>1. /\ pc[p] = "append" /\ Step(p, "head")
        /\ UNCHANGED <<head, records, index, sequence, lock, snap, job, made, crashes>>
        /\ snap[p] = s
    BY <1>1 DEF AppendJournal, JInv, TipIsKnown, Writing
  <2>2. Move(s, to, k) /\ Drawn(to) /\ (p # Owner => k # <<>>)
    BY <1>1, <2>1 DEF JInv, Jobs, Decided, Persisting, Writing
  <2>3. k # <<>> => k \in records /\ k \in index /\ k \in sequence
    BY <1>1, <2>1 DEF JInv, Jobs, Written, Files, Layered
  <2>4. JournalShape' /\ Tip' = to /\ InJournal \subseteq InJournal'
    <3>1. journal' = Append(journal, [prev |-> Tip, state |-> to])
      BY <1>1, <2>1 DEF AppendJournal
    <3> QED BY <3>1, Appended DEF JInv
  <2>5. Locals /\ UniqueKeys(s) /\ WasTip(s) /\ LockIsHeld
        /\ s.frontier \in Seq(Item) /\ Len(s.frontier) \in Nat
    BY <1>1, Tips DEF JInv, KeysAreUnique, Snaps
  <2>6. Locals'
    BY <2>1, <2>5 DEF Locals, Step, UnderLock
  <2>7. /\ pc'[p] = "head"
        /\ \A q \in Procs : q # p => pc'[q] = pc[q] /\ pc[q] \notin UnderLock
    BY <2>1, <2>5, Alone DEF Step, Locals, UnderLock
  <2>8. LockIsHeld'
    BY <2>1, <2>5, LockKept DEF Step, Locals, UnderLock
  <2>9. Counters' /\ Chains' /\ Layered'
    BY <2>1 DEF JInv, Counters, Chains, Files, Layered
  <2>10. TipIsKnown'
    <3>1. head' \in InJournal'
      BY <2>1, <2>4 DEF JInv, TipIsKnown
    <3>2. \A q \in Procs : q # p => pc'[q] \notin Writing \cup {"head", "compact"}
      BY <2>7 DEF UnderLock, Writing
    <3>3. pc'[p] \notin Writing /\ pc'[p] # "compact" /\ job'[p].to = Tip'
      BY <1>1, <2>1, <2>4, <2>7 DEF Writing
    <3> QED BY <3>1, <3>2, <3>3 DEF TipIsKnown
  <2>11. More
    <3>1. made \in Nat
      BY DEF JInv, Counters, IdsAssumption
    <3> QED BY <2>1, <3>1 DEF More
  <2>12. Jobs'
    <3>1. ASSUME NEW q \in Procs, q # p
          PROVE  Decided(q)' /\ Written(q)'
      BY <2>1, <2>7, <2>11, <3>1, JobKept DEF JInv, Jobs
    <3>2. Decided(p)' /\ Written(p)'
      BY <2>7 DEF Decided, Written, Persisting, Writing
    <3> QED BY <3>1, <3>2 DEF Jobs
  \* what becomes of the frontier
  <2>13. CASE k = <<>>
    <3>1. Same(s, to) /\ UniqueKeys(to)
      BY <2>2, <2>5, <2>13, PlainMove DEF Move
    <3>2. to.frontier = s.frontier
      BY <3>1 DEF Same
    <3>3. Snaps'
      BY <1>1, <2>1, <2>2, <2>4, <2>5, <3>2 DEF JInv, Snaps, WasTip, OnDisk, Drawn
    <3>4. KeysAreUnique'
      BY <2>4, <3>1 DEF KeysAreUnique
    <3>5. ASSUME NEW d, Known(s, d)
          PROVE  Known(to, d)
      BY <3>1, <3>5 DEF Known, Same, ChainOf
    <3>6. ChainsAreKnown'
      BY <1>1, <2>1, <2>4, <3>2, <3>5 DEF JInv, Files, ChainsAreKnown
    <3>7. OneAhead'
      BY <1>1, <2>1, <2>4, <3>2 DEF JInv, Files, OneAhead, Ahead
    <3>8. p = Owner
      BY <2>2, <2>13
    <3>9. OwnersAhead'
      BY <2>7, <3>8 DEF OwnersAhead, Persisting, Writing
    <3>10. Files'
      BY <2>9, <3>6, <3>7, <3>9 DEF Files
    <3> QED BY <1>1, <2>2, <2>4, <2>6, <2>8, <2>9, <2>10, <2>12, <3>3, <3>4, <3>10 DEF JInv
  <2>14. CASE k # <<>>
    <3>1. /\ UniqueKeys(to) /\ to.frontier = k /\ Len(k) = Len(s.frontier) + 1
          /\ SubSeq(k, 1, Len(k)) = k /\ k \in Seq(Item)
          /\ \A n \in 0 .. Len(s.frontier) : SubSeq(k, 1, n) = SubSeq(s.frontier, 1, n)
      BY <2>2, <2>5, <2>14, ChainingMove DEF Move
    <3>2. OnDisk(k)
      <4> SUFFICES ASSUME NEW n \in 1 .. Len(k)
                   PROVE  SubSeq(k, 1, n) \in records /\ SubSeq(k, 1, n) \in index
        BY DEF OnDisk
      <4>1. CASE n = Len(k)
        BY <2>3, <2>14, <3>1, <4>1
      <4>2. CASE n # Len(k)
        <5>1. n \in 1 .. Len(s.frontier)
          BY <2>5, <3>1, <4>2
        <5>2. SubSeq(k, 1, n) = SubSeq(s.frontier, 1, n)
          BY <3>1, <5>1
        <5> QED BY <2>5, <5>1, <5>2 DEF WasTip, OnDisk
      <4> QED BY <4>1, <4>2
    <3>3. Snaps'
      <4>1. WasTip(Tip)'
        BY <2>1, <2>2, <2>4, <2>5, <3>1, <3>2 DEF WasTip, OnDisk, Drawn
      <4>2. ASSUME NEW q \in Procs, snap'[q] \in ProviderState
            PROVE  WasTip(snap[q])'
        <5>1. WasTip(snap[q]) /\ snap'[q] = snap[q]
          BY <2>1, <4>2 DEF JInv, Snaps
        <5>2. Len(snap[q].frontier) \in Nat
          <6>1. snap[q].frontier \in Seq(Item)
            BY <4>2, <5>1 DEF ProviderState
          <6> QED BY <6>1, LenProperties
        <5>3. Len(snap[q].frontier) <= Len(s.frontier)
          BY <1>1, <5>1 DEF WasTip
        <5>4. Len(snap[q].frontier) <= Len(to.frontier)
          BY <2>5, <3>1, <5>2, <5>3
        <5> QED BY <2>1, <2>4, <5>1, <5>4 DEF WasTip, OnDisk, Drawn
      <4> QED BY <4>1, <4>2 DEF Snaps
    <3>4. KeysAreUnique'
      BY <2>4, <3>1 DEF KeysAreUnique
    <3>5. ASSUME NEW d \in records
          PROVE  Prefix(d, k)
      <4>1. CASE Ahead(d)
        <5>1. d = k
          BY <1>1, <2>1, <2>14, <4>1, ChainBeingFiled DEF Writing
        <5> QED BY <3>1, <5>1, LenProperties DEF Prefix
      <4>2. CASE ~Ahead(d)
        <5>1. Prefix(d, s.frontier) /\ Len(d) \in Nat
          BY <1>1, <4>2, AheadIsNext
        <5>2. Len(d) \in 0 .. Len(s.frontier) /\ d = SubSeq(s.frontier, 1, Len(d))
          BY <2>5, <5>1 DEF Prefix
        <5>3. d = SubSeq(k, 1, Len(d)) /\ Len(d) <= Len(k)
          BY <2>5, <3>1, <5>2
        <5> QED BY <5>3 DEF Prefix
      <4> QED BY <4>1, <4>2
    <3>6. ChainsAreKnown'
      BY <2>1, <2>3, <2>4, <2>14, <3>1, <3>5 DEF ChainsAreKnown, Known
    <3>7. OneAhead'
      <4>1. ASSUME NEW d \in records
            PROVE  Len(d) # Len(k) + 1
        <5>1. Len(d) <= Len(k)
          BY <3>5 DEF Prefix
        <5>2. Len(d) \in Nat /\ Len(k) \in Nat
          BY <3>1, LenProperties, AheadIsNext
        <5> QED BY <5>1, <5>2
      <4> QED BY <2>1, <2>4, <3>1, <4>1 DEF OneAhead, Ahead
    <3>8. OwnersAhead'
      <4>1. CASE p = Owner
        BY <2>7, <4>1 DEF OwnersAhead, Persisting, Writing
      <4>2. CASE p # Owner
        <5>1. snap[Owner] \in ProviderState => Len(snap[Owner].frontier) <= Len(s.frontier)
          BY <1>1 DEF JInv, Snaps, WasTip, Procs
        <5>2. snap[Owner] # to
          BY <2>5, <3>1, <5>1
        <5> QED BY <2>1, <2>4, <5>2 DEF OwnersAhead
      <4> QED BY <4>1, <4>2
    <3>9. Files'
      BY <2>9, <3>6, <3>7, <3>8 DEF Files
    <3> QED BY <1>1, <2>2, <2>4, <2>6, <2>8, <2>9, <2>10, <2>12, <3>3, <3>4, <3>9 DEF JInv
  <2> QED BY <2>13, <2>14
<1>2. Tip \in ProviderState /\ job[p].to \in ProviderState
  BY Tips DEF AppendJournal, JInv, Jobs, Decided, Persisting, Writing
<1> QED BY <1>1, <1>2

LEMMA OneRecord ==
  ASSUME NEW r \in Record
  PROVE  <<r>> \in Seq(Record) /\ <<r>> # <<>> /\ Len(<<r>>) = 1 /\ <<r>>[1] = r
OBVIOUS

LEMMA Restarted ==
  ASSUME NEW r \in Record, r.prev = NoState, journal' = <<r>>
  PROVE  JournalShape' /\ Tip' = r.state /\ r.state \in InJournal'
<1>1. /\ journal' \in Seq(Record) /\ journal' # <<>>
      /\ Len(journal') = 1 /\ journal'[1] = r
  BY OneRecord
<1>2. Tip' = r.state
  BY <1>1 DEF Tip, LastOf
<1>3. Chained'
  BY <1>1 DEF Chained
<1>4. r.state \in InJournal'
  BY <1>1 DEF InJournal
<1> QED BY <1>1, <1>2, <1>3, <1>4 DEF JournalShape

LEMMA CompactStep ==
  ASSUME JInv, IdsAssumption, ProcsAssumption, NEW p \in Procs, CompactJournal(p)
  PROVE  JInv' /\ Tip' = Tip
<1> USE DEF CompactJournal
<1>1. Locals /\ job[p].to = Tip /\ head = Tip /\ Tip \in ProviderState
  BY Tips DEF JInv, TipIsKnown
<1>2. /\ pc'[p] = "idle" /\ snap'[p] = NoState /\ job'[p] = NoJob
      /\ \A q \in Procs : q # p =>
           pc'[q] = pc[q] /\ snap'[q] = snap[q] /\ job'[q] = job[q]
  BY <1>1 DEF Stop, Locals
<1>3. JournalShape' /\ Tip' = Tip /\ head' \in InJournal'
  <2>1. CASE journal' = journal
    BY <2>1 DEF JInv, JournalShape, TipIsKnown, Chained, Tip, LastOf, InJournal
  <2>2. CASE journal' = <<Snapshot(job[p].to)>>
    <3> DEFINE rec == Snapshot(job[p].to)
    <3>1. rec \in Record /\ rec.state = Tip /\ rec.prev = NoState
      BY <1>1 DEF Snapshot, Record
    <3>2. journal' = <<rec>>
      BY <2>2
    <3> HIDE DEF rec
    <3> QED BY <1>1, <3>1, <3>2, Restarted
  <2> QED BY <1>1, <2>1, <2>2
<1>4. NoJob \in [to : ProviderState \cup {NoState}, chain : Seq(Item)]
  BY EmptySeq DEF NoJob
<1>5. Locals'
  BY <1>1, <1>4 DEF Locals, Stop
<1>6. LockIsHeld'
  BY <1>1, LockKept DEF Stop, JInv, Locals, UnderLock
<1>7. Counters' /\ Chains' /\ Layered'
  BY DEF JInv, Counters, Chains, Files, Layered
<1>8. TipIsKnown'
  BY <1>2, <1>3 DEF JInv, TipIsKnown, Writing
<1>9. More
  <2>1. made \in Nat
    BY DEF JInv, Counters, IdsAssumption
  <2> QED BY <2>1 DEF More
<1>10. Jobs'
  <2>1. ASSUME NEW q \in Procs, q # p
        PROVE  Decided(q)' /\ Written(q)'
    BY <1>2, <1>9, <2>1, JobKept DEF JInv, Jobs
  <2>2. Decided(p)' /\ Written(p)'
    BY <1>2 DEF Decided, Written, Persisting, Writing
  <2> QED BY <2>1, <2>2 DEF Jobs
<1>11. Snaps'
  BY <1>2, <1>3, NoStateIsNone DEF JInv, Snaps, WasTip, OnDisk, Drawn
<1>12. KeysAreUnique'
  BY <1>3 DEF JInv, KeysAreUnique
<1>13. Files'
  <2>1. ChainsAreKnown' /\ OneAhead'
    BY <1>3 DEF JInv, Files, ChainsAreKnown, OneAhead, Ahead
  <2>2. OwnersAhead'
    <3>1. pc'[Owner] \in Persisting => p # Owner
      BY <1>2 DEF Persisting, Writing
    <3> QED BY <1>2, <1>3, <3>1 DEF JInv, Files, OwnersAhead, Ahead, Procs
  <2> QED BY <1>7, <2>1, <2>2 DEF Files
<1> QED BY <1>3, <1>5, <1>6, <1>7, <1>8, <1>10, <1>11, <1>12, <1>13 DEF JInv

-----------------------------------------------------------------------------
(* The theorems.                                                           *)

LEMMA JInitInv ==
  ASSUME IdsAssumption, ProcsAssumption, JournalAssumption, JInit
  PROVE  JInv
<1> USE DEF JInit
<1>1. ZeroState \in ProviderState /\ ZeroState.frontier = <<>> /\ ZeroState.pending = {}
  BY EmptySeq DEF ZeroState, ProviderState
<1>2. /\ journal \in Seq(Record) /\ journal # <<>> /\ Len(journal) = 1
      /\ journal[1].state = ZeroState /\ journal[1].prev = NoState
  <2> DEFINE rec == [prev |-> NoState, state |-> ZeroState]
  <2>1. rec \in Record /\ rec.state = ZeroState /\ rec.prev = NoState
    BY <1>1 DEF Record
  <2> HIDE DEF rec
  <2> QED BY <2>1 DEF rec
<1>3. JournalShape /\ Tip = ZeroState /\ head \in InJournal
  BY <1>2 DEF JournalShape, Chained, Tip, LastOf, InJournal
<1>4. \A p \in Procs : pc[p] = "idle" /\ snap[p] = NoState
  OBVIOUS
<1>5. NoJob \in [to : ProviderState \cup {NoState}, chain : Seq(Item)]
  BY EmptySeq DEF NoJob
<1>6. Locals
  BY <1>5 DEF Locals
<1>7. LockIsHeld
  BY <1>4 DEF LockIsHeld, ProcsAssumption, Procs, Nobody, Dead, Owner, UnderLock
<1>8. Counters /\ Chains /\ Layered
  BY DEF Counters, Chains, Layered, JournalAssumption
<1>9. TipIsKnown /\ Jobs
  BY <1>3, <1>4 DEF TipIsKnown, Jobs, Decided, Written, Persisting, Writing
<1>10. Snaps
  <2>1. Len(<<>>) = 0 /\ IdsOf(ZeroState) = {}
    BY <1>1, EmptySeq DEF IdsOf
  <2>2. WasTip(Tip)
    BY <1>1, <1>3, <2>1 DEF WasTip, OnDisk, Drawn
  <2> QED BY <1>4, <2>2, NoStateIsNone DEF Snaps
<1>11. KeysAreUnique
  BY <1>1, <1>3 DEF KeysAreUnique, UniqueKeys
<1>12. Files
  BY <1>1, <1>3, <1>8 DEF Files, ChainsAreKnown, OneAhead, OwnersAhead
<1> QED BY <1>3, <1>6, <1>7, <1>8, <1>9, <1>10, <1>11, <1>12 DEF JInv

(* Every step preserves the invariant, and is the operation the record it  *)
(* appends to the journal stands for, or nothing to the caller.            *)
LEMMA JStep ==
  ASSUME JInv, IdsAssumption, ProcsAssumption, JournalAssumption, [JNext]_jVars
  PROVE  /\ JInv'
         /\ \/ Tip' = Tip
            \/ \E c : Move(Tip, Tip', c)
<1>1. ASSUME NEW p \in Procs, Begin(p)
      PROVE  JInv' /\ Tip' = Tip
  BY <1>1, TakeStep
<1>2. ASSUME NEW p \in Procs, Crash(p)
      PROVE  JInv' /\ Tip' = Tip
  BY <1>2, CrashStep
<1>3. ASSUME NEW p \in Procs, Proceed(p), ~AppendJournal(p)
      PROVE  JInv' /\ Tip' = Tip
  <2>1. CASE BeginPersist(p)
    BY <2>1, TakeStep
  <2>2. CASE LoadFails(p) \/ DecideFails(p) \/ Read(p)
    BY <2>2, GiveUpStep
  <2>3. CASE RepairHead(p)
    BY <2>3, RepairStep
  <2>4. CASE Load(p)
    BY <2>4, LoadStep
  <2>5. CASE Reload(p)
    BY <2>5, ReloadStep, GiveUpStep
  <2>6. CASE DecideRecover(p)
    BY <2>6, RecoverStep
  <2>7. CASE WriteRecord(p) \/ WriteIndex(p) \/ WriteSequence(p)
    BY <2>7, FileStep
  <2>8. CASE WriteHead(p)
    BY <2>8, WriteHeadStep
  <2>9. CASE CompactJournal(p)
    BY <2>9, CompactStep
  <2> QED BY <1>3, <2>1, <2>2, <2>3, <2>4, <2>5, <2>6, <2>7, <2>8, <2>9 DEF Proceed
<1>4. ASSUME NEW p \in Procs, AppendJournal(p)
      PROVE  JInv' /\ \E c : Move(Tip, Tip', c)
  BY <1>4, AppendStep
<1>5. ASSUME NEW k \in Keys, DecideReserve(k)
      PROVE  JInv' /\ Tip' = Tip
  BY <1>5, ReserveStep
<1>6. CASE DecideOther
  BY <1>6, OtherStep
<1>7. CASE UNCHANGED jVars
  <2>1. UNCHANGED <<journal, head, records, index, sequence, lock, pc, snap, job, made, crashes>>
    BY <1>7 DEF jVars, files, local
  <2>2. Tip' = Tip
    BY <2>1 DEF Tip, LastOf
  <2>3. JInv'
    BY <2>1, <2>2
    DEF JInv, Locals, LockIsHeld, Counters, Chains, JournalShape, Chained, TipIsKnown,
        InJournal, Jobs, Decided, Drawn, Written, Snaps, WasTip, OnDisk, KeysAreUnique,
        Files, Layered, ChainsAreKnown, OneAhead, OwnersAhead, Ahead
  <2> QED BY <2>2, <2>3
<1> QED BY <1>1, <1>2, <1>3, <1>4, <1>5, <1>6, <1>7 DEF JNext

(* The inductive invariant holds.                                          *)
THEOREM JInvHolds ==
  ASSUME ProcsAssumption, IdsAssumption, JournalAssumption
  PROVE  JSpec => []JInv
<1>1. JInit => JInv
  BY JInitInv
<1>2. JInv /\ [JNext]_jVars => JInv'
  BY JStep
<1> QED BY <1>1, <1>2, PTL DEF JSpec

(* The files of the recovery head are sound, whatever the readers do and   *)
(* wherever a process dies: what a crash, a reader or a long journal       *)
(* leaves behind is completed and never in the way (FrontierOnDisk,        *)
(* FilesNeverClash, NeverContradicted), and the head can be read but for a *)
(* state that came back (OnlyRepeatsBlock).                                *)
THEOREM JournalIsSound ==
  ASSUME ProcsAssumption, IdsAssumption, JournalAssumption
  PROVE  JSpec => []JournalSound
<1>1. JInv => JournalSound
  BY InvSound
<1> QED BY <1>1, JInvHolds, PTL

(* The file provider implements HeadProvider: the record in the journal is *)
(* the whole operation on the value of the moment, although it was decided *)
(* without the lock, and nothing else changes the value.                   *)
THEOREM JournalImplements ==
  ASSUME ProcsAssumption, IdsAssumption, JournalAssumption
  PROVE  JSpec => HeadProviderSpec
<1>1. JInit => HP!HPInit
  <2> DEFINE rec == [prev |-> NoState, state |-> ZeroState]
  <2>1. rec \in Record /\ rec.state = ZeroState
    BY EmptySeq DEF Record, ZeroState, ProviderState
  <2> HIDE DEF rec
  <2>2. journal = <<rec>> => Tip = ZeroState
    BY <2>1, OneRecord DEF Tip, LastOf
  <2> QED BY <2>2 DEF JInit, HP!HPInit, HP!ZeroState, ZeroState, rec
<1>2. JInv /\ [JNext]_jVars => [HP!HPNext]_Tip
  <2> SUFFICES ASSUME JInv, [JNext]_jVars
               PROVE  Tip' = Tip \/ HP!HPNext
    OBVIOUS
  <2>1. ASSUME NEW s, NEW k
        PROVE  HP!CanReserve(s, k) <=> CanReserve(s, k)
    <3>1. HP!Cardinality(s.pending) = Cardinality(s.pending)
      BY DEF HP!Cardinality, Cardinality
    <3> QED BY <3>1 DEF HP!CanReserve, CanReserve, HP!KeysOf, KeysOf
  <2>2. ASSUME NEW s, NEW k, NEW id
        PROVE  HP!Reserved(s, k, id) = Reserved(s, k, id) /\ HP!IdsOf(s) = IdsOf(s)
    BY DEF HP!Reserved, Reserved, HP!IdsOf, IdsOf
  <2>3. ASSUME NEW s
        PROVE  /\ HP!CanBootstrap(s) <=> CanBootstrap(s)
               /\ HP!Bootstrapped(s) = Bootstrapped(s)
               /\ HP!CanBackup(s) <=> CanBackup(s)
               /\ HP!BackedUp(s) = BackedUp(s)
    BY DEF HP!CanBootstrap, CanBootstrap, HP!Bootstrapped, Bootstrapped,
       HP!CanBackup, CanBackup, HP!BackedUp, BackedUp
  <2>4. ASSUME NEW s, NEW r
        PROVE  /\ HP!CanCommit(s, r) <=> CanCommit(s, r)
               /\ HP!Committed(s, r) = Committed(s, r)
               /\ HP!CanAbort(s, r) <=> CanAbort(s, r)
               /\ HP!Aborted(s, r) = Aborted(s, r)
               /\ HP!CanReconcile(s, r) <=> CanReconcile(s, r)
               /\ HP!Reconciled(s, r) = Reconciled(s, r)
    BY DEF HP!CanCommit, CanCommit, HP!Committed, Committed, HP!CanAbort, CanAbort,
       HP!Aborted, Aborted, HP!CanReconcile, CanReconcile, HP!Reconciled, Reconciled,
       HP!ItemOf, ItemOf
  <2>5. ASSUME NEW c, Move(Tip, Tip', c)
        PROVE  HP!HPNext
    <3>1. CASE c = <<>>
      <4>1. Plain(Tip, Tip')
        BY <2>5, <3>1 DEF Move
      <4> QED BY <4>1, <2>1, <2>2, <2>3, <2>4
              DEF Plain, HP!HPNext, HP!Bootstrap, HP!Backup, HP!Reserve, HP!Commit, HP!Abort
    <3>2. CASE c # <<>>
      <4>1. Chaining(Tip, Tip', c)
        BY <2>5, <3>2 DEF Move
      <4> QED BY <4>1, <2>4 DEF Chaining, HP!HPNext, HP!Reconcile
    <3> QED BY <3>1, <3>2
  <2> QED BY <2>5, JStep
<1> QED BY <1>1, <1>2, JInvHolds, PTL DEF JSpec, HeadProviderSpec, HP!HPSpec
=============================================================================
