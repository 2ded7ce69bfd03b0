--------------------------- MODULE RecoveryJournal ---------------------------
(***************************************************************************)
(* FileRecoveryHeadProvider (anchor-coordinator.ts): the recovery head in  *)
(* a directory.  An operation                                              *)
(*                                                                         *)
(*   loads the state under the head lock, repairing what a crash left,     *)
(*   decides, without the lock,                                            *)
(*   takes the lock again, loads again and compares, writes the terminal   *)
(*   files of a reconciliation (record, index, sequence witness), appends  *)
(*   the new state to the journal, replaces head.json and, when the        *)
(*   journal is long, replaces it by a snapshot.                           *)
(*                                                                         *)
(* The process that owns the data root changes the state; operator         *)
(* commands read it (readCurrent), which repairs it all the same.  Either  *)
(* may die between any two file operations; each file operation (append    *)
(* and fsync, rename, link) is atomic, as for a process death.  The lock   *)
(* of a dead process is taken over.  A state hash is the state itself.     *)
(***************************************************************************)
EXTENDS HeadState

CONSTANTS Readers,      \* processes that only read the head
          Aborts,       \* does the history contain aborted reservations?
          MaxJournal,   \* #MAX_JOURNAL_RECORDS
          MaxGen,       \* bound: anchor generations
          MaxCrashes    \* bound: process deaths

Owner == "owner"        \* the process that holds the root lease
Procs == {Owner} \cup Readers

Nobody == "nobody"      \* who holds a free lock, and a dead process's
Dead   == "dead"
ProcsAssumption == Readers \cap {Owner, Nobody, Dead} = {}
IdsAssumption == Ids \subseteq Nat
JournalAssumption == MaxJournal \in Nat \ {0} /\ MaxCrashes \in Nat

VARIABLES journal,      \* journal.jsonl: records with their predecessor
          head,         \* head.json
          records,      \* terminal/records: chains, by their own hash
          index,        \* terminal/index: chains, by the key of the last
          sequence,     \* terminal/sequence: chains, by their length
          lock,         \* .head.lock: its owner, Nobody, or one that is dead
          pc, snap,     \* what a process does next; the state it loaded
          job,          \* the transition it is persisting
          made,         \* pending_ids drawn; the n-th of them is n
          crashes

files == <<journal, head, records, index, sequence>>
local == <<pc, snap, job>>
jVars == <<files, lock, local, made, crashes>>

NoState == [none |-> TRUE]
NoJob   == [to |-> NoState, chain |-> <<>>]

LastOf(s) == s[Len(s)]
InJournal == {journal[i].state : i \in 1 .. Len(journal)}
Tip       == LastOf(journal).state

JInit ==
  /\ journal = <<[prev |-> NoState, state |-> ZeroState]>>
  /\ head = ZeroState
  /\ records = {} /\ index = {} /\ sequence = {}
  /\ lock = Nobody
  /\ pc = [p \in Procs |-> "idle"]
  /\ snap = [p \in Procs |-> NoState]
  /\ job = [p \in Procs |-> NoJob]
  /\ made = 0 /\ crashes = 0

-----------------------------------------------------------------------------
(* What a load accepts. *)

Chained ==
  \A i \in 1 .. Len(journal) :
    journal[i].prev = IF i = 1 THEN NoState ELSE journal[i - 1].state
NoStateTwice ==
  \A i, j \in 1 .. Len(journal) :
    journal[i].state = journal[j].state => i = j

Of(n) == {c \in sequence : Len(c) = n}

(* The sequence directory agrees with the frontier: its last record, at    *)
(* most one record more, and that one of a committed reservation.  (The    *)
(* repair of a directory without sequence files, of an older version, is   *)
(* left out: here they exist from the start.)                              *)
Witnessed ==
  LET n == Len(Tip.frontier) IN
  /\ n > 0 => Tip.frontier \in sequence
  /\ \A c \in sequence : Len(c) <= n + 1
  /\ \A c \in Of(n + 1) :
       /\ SubSeq(c, 1, n) = Tip.frontier
       /\ \E r \in Tip.pending : r.st = "committed" /\ ItemOf(r) = LastOf(c)

Readable == Chained /\ NoStateTwice /\ head \in InJournal /\ Witnessed

-----------------------------------------------------------------------------
(* The head lock.  A process that finds a live owner throws and may try    *)
(* again; recovering a dead owner's lock is part of taking it.             *)
Take(p) == lock \in {Nobody, Dead} /\ lock' = p
Free    == lock' = Nobody

Step(p, next) == pc' = [pc EXCEPT ![p] = next]
Stop(p) ==
  /\ pc' = [pc EXCEPT ![p] = "idle"]
  /\ snap' = [snap EXCEPT ![p] = NoState]
  /\ job' = [job EXCEPT ![p] = NoJob]

Begin(p) ==
  /\ pc[p] = "idle" /\ Take(p) /\ Step(p, "load")
  /\ UNCHANGED <<files, snap, job, made, crashes>>

BeginPersist(p) ==
  /\ pc[p] = "persist" /\ Take(p) /\ Step(p, "reload")
  /\ UNCHANGED <<files, snap, job, made, crashes>>

Loading(p) == pc[p] \in {"load", "reload"}

LoadFails(p) ==
  /\ Loading(p) /\ ~Readable
  /\ Free /\ Stop(p)
  /\ UNCHANGED <<files, made, crashes>>

RepairHead(p) ==
  /\ Loading(p) /\ Readable /\ head # Tip
  /\ head' = Tip
  /\ UNCHANGED <<journal, records, index, sequence, lock, local, made, crashes>>

Load(p) ==
  /\ pc[p] = "load" /\ Readable
  /\ head = Tip
  /\ snap' = [snap EXCEPT ![p] = Tip]
  /\ Free /\ Step(p, "decide")
  /\ UNCHANGED <<files, job, made, crashes>>

Unchanged(p) == Tip = snap[p]

Reload(p) ==
  /\ pc[p] = "reload" /\ Readable
  /\ head = Tip
  /\ IF Unchanged(p)
     THEN /\ Step(p, IF job[p].chain = <<>> THEN "append" ELSE "record")
          /\ UNCHANGED <<lock, snap, job>>
     ELSE Free /\ Stop(p)                               \* STALE_RECOVERY_HEAD
  /\ UNCHANGED <<files, made, crashes>>

-----------------------------------------------------------------------------
(* Deciding, on the state loaded (#verifiedState, then the operation).     *)

IndexOf(k) == {c \in index : LastOf(c).key = k}
ChainOf(s, r) == Append(s.frontier, ItemOf(r))
Begun(s, r) == IndexOf(r.key) # {} \/ ChainOf(s, r) \in records

(* A terminal record found for an active reservation must be its own.      *)
Contradicts(s, r) ==
  \/ \E c \in IndexOf(r.key) : c # ChainOf(s, r)
  \/ r.st = "pending" /\ Begun(s, r)
Recoverable(s, r) == r.st = "committed" /\ Begun(s, r)
Attention(s) == {r \in s.pending : Contradicts(s, r) \/ Recoverable(s, r)}
FirstOf(s) == CHOOSE r \in Attention(s) : \A q \in Attention(s) : r.id <= q.id

HeadRecordMissing(s) == s.frontier # <<>> /\ s.frontier \notin records

Persist(p, to, chain) ==
  /\ job' = [job EXCEPT ![p] = [to |-> to, chain |-> chain]]
  /\ Step(p, "persist")
  /\ UNCHANGED <<files, lock, snap, crashes>>

(* An interrupted reconciliation is completed by whoever loads next.       *)
DecideRecover(p) ==
  /\ pc[p] = "decide" /\ ~HeadRecordMissing(snap[p])
  /\ Attention(snap[p]) # {}
  /\ LET r == FirstOf(snap[p]) IN
       /\ ~Contradicts(snap[p], r)
       /\ Persist(p, Reconciled(snap[p], r), ChainOf(snap[p], r))
  /\ UNCHANGED made

DecideFails(p) ==
  /\ pc[p] = "decide"
  /\ \/ HeadRecordMissing(snap[p])
     \/ /\ Attention(snap[p]) # {}
        /\ Contradicts(snap[p], FirstOf(snap[p]))
  /\ Stop(p)
  /\ UNCHANGED <<files, lock, made, crashes>>

Verified(p) ==
  pc[p] = "decide" /\ ~HeadRecordMissing(snap[p]) /\ Attention(snap[p]) = {}

Read(p) ==
  /\ Verified(p) /\ Stop(p)
  /\ UNCHANGED <<files, lock, made, crashes>>

Unindexed(k) == IndexOf(k) = {}

ReservedAgain(s, k) == TRUE               \* mutation: the key is not looked up
Unreserved(s, k) == \A r \in s.pending : r.key # k

DecideReserve(k) ==
  /\ Verified(Owner) /\ Unindexed(k)
  /\ LET s == snap[Owner] IN
       /\ s.cur > 0
       /\ Unreserved(s, k)
       /\ Cardinality(s.pending) < MaxPending
       /\ made + 1 \in Ids
       /\ Persist(Owner, Reserved(s, k, made + 1), <<>>)
  /\ made' = made + 1

DecideOther ==
  /\ Verified(Owner)
  /\ LET s == snap[Owner] IN
       \/ CanBootstrap(s) /\ Persist(Owner, Bootstrapped(s), <<>>)
       \/ CanBackup(s) /\ s.cur < MaxGen /\ Persist(Owner, BackedUp(s), <<>>)
       \/ \E r \in s.pending :
            \/ /\ CanCommit(s, r) /\ s.cur < MaxGen
               /\ Persist(Owner, Committed(s, r), <<>>)
            \/ /\ CanReconcile(s, r)
               /\ Persist(Owner, Reconciled(s, r), ChainOf(s, r))
            \/ /\ Aborts /\ CanAbort(s, r)
               /\ Persist(Owner, Aborted(s, r), <<>>)
  /\ UNCHANGED made

-----------------------------------------------------------------------------
(* Persisting, under the lock.  A terminal file is linked in place; if it  *)
(* exists it must be the same one, which FilesNeverClash shows it is.      *)

WriteRecord(p) ==
  /\ pc[p] = "record"
  /\ records' = records \cup {job[p].chain}
  /\ Step(p, "index")
  /\ UNCHANGED <<journal, head, index, sequence, lock, snap, job, made, crashes>>


WriteIndex(p) ==
  /\ pc[p] = "index"
  /\ index' = index \cup {job[p].chain}
  /\ Step(p, "sequence")
  /\ UNCHANGED <<journal, head, records, sequence, lock, snap, job, made, crashes>>

WriteSequence(p) ==
  /\ pc[p] = "sequence"
  /\ sequence' = sequence \cup {job[p].chain}
  /\ Step(p, "append")
  /\ UNCHANGED <<journal, head, records, index, lock, snap, job, made, crashes>>

AppendJournal(p) ==
  /\ pc[p] = "append"
  /\ journal' = Append(journal, [prev |-> snap[p], state |-> job[p].to])
  /\ Step(p, "head")
  /\ UNCHANGED <<head, records, index, sequence, lock, snap, job, made, crashes>>

WriteHead(p) ==
  /\ pc[p] = "head"
  /\ head' = job[p].to
  /\ Step(p, "compact")
  /\ UNCHANGED <<journal, records, index, sequence, lock, snap, job, made, crashes>>

LastRecord(s) == LastOf(journal)          \* mutation: it keeps its predecessor
Snapshot(s) == [prev |-> NoState, state |-> s]

CompactJournal(p) ==
  /\ pc[p] = "compact"
  /\ journal' = IF Len(journal) > MaxJournal
                THEN <<Snapshot(job[p].to)>> ELSE journal
  /\ Free /\ Stop(p)
  /\ UNCHANGED <<head, records, index, sequence, made, crashes>>

Crash(p) ==
  /\ pc[p] # "idle" /\ crashes < MaxCrashes
  /\ crashes' = crashes + 1
  /\ lock' = IF lock = p THEN Dead ELSE lock
  /\ Stop(p)
  /\ UNCHANGED <<files, made>>

-----------------------------------------------------------------------------
Proceed(p) ==
  \/ BeginPersist(p)
  \/ LoadFails(p) \/ RepairHead(p) \/ Load(p) \/ Reload(p)
  \/ DecideRecover(p) \/ DecideFails(p) \/ Read(p)
  \/ WriteRecord(p) \/ WriteIndex(p) \/ WriteSequence(p)
  \/ AppendJournal(p) \/ WriteHead(p) \/ CompactJournal(p)

JNext ==
  \/ \E p \in Procs : Begin(p) \/ Proceed(p) \/ Crash(p)
  \/ \E k \in Keys : DecideReserve(k)
  \/ DecideOther

JSpec == JInit /\ [][JNext]_jVars

-----------------------------------------------------------------------------
(* Properties *)

UnderLock ==
  {"load", "reload", "record", "index", "sequence", "append", "head", "compact"}

(* Types; and the head lock is held exactly by the process that is at the  *)
(* files.                                                                  *)
TypeOK ==
  /\ pc \in [Procs -> {"idle", "decide", "persist"} \cup UnderLock]
  /\ \A i \in 1 .. Len(journal) :
       /\ journal[i].state \in ProviderState
       /\ journal[i].prev \in ProviderState \cup {NoState}
  /\ head \in ProviderState
  /\ \A c \in records \cup index \cup sequence : c \in Seq(Item) /\ c # <<>>
  /\ lock \in Procs \cup {Nobody, Dead}
  /\ \A p \in Procs : lock = p <=> pc[p] \in UnderLock
  /\ \A p \in Procs : snap[p] \in ProviderState \cup {NoState} /\ job[p].to \in ProviderState \cup {NoState}
  /\ made \in {0} \cup Ids /\ crashes \in 0 .. MaxCrashes

(* A file that a crash, a reader or a long journal could leave behind      *)
(* never makes the head unreadable: only a state that comes back does.     *)
OnlyRepeatsBlock == Readable \/ ~NoStateTwice

(* The head can be read, whatever operations it has carried out and        *)
(* wherever a process died.                                                *)
AlwaysReadable == Readable

(* Terminal files are the memory of what was reconciled: every record of   *)
(* the frontier is on disk, and in the index under its key.                *)
FrontierOnDisk ==
  \A n \in 1 .. Len(Tip.frontier) :
    LET c == SubSeq(Tip.frontier, 1, n) IN c \in records /\ c \in index

(* A terminal file is never met again with another content: whoever        *)
(* completes an interrupted reconciliation completes the same one, and no  *)
(* other reservation takes its place in the chain.                         *)
FilesNeverClash ==
  \A p \in Procs : LET c == job[p].chain IN
    /\ pc[p] = "index" => IndexOf(LastOf(c).key) \subseteq {c}
    /\ pc[p] = "sequence" => Of(Len(c)) \subseteq {c}

(* An index file never contradicts the reservations the journal holds, as  *)
(* it would for a key reserved again: every later load would fail.         *)
NeverContradicted == \A r \in Tip.pending : ~Contradicts(Tip, r)

(* The files of the head, taken together: well formed, complete, never in  *)
(* each other's way, and readable but for a state that came back.          *)
JournalSound ==
  TypeOK /\ OnlyRepeatsBlock /\ FrontierOnDisk /\ FilesNeverClash /\ NeverContradicted

(* The files implement the provider: every operation happens at once, when *)
(* its record is in the journal, or not at all.                            *)
HP == INSTANCE HeadProvider WITH value <- Tip
HeadProviderSpec == HP!HPSpec
=============================================================================
