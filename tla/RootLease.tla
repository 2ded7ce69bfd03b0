----------------------------- MODULE RootLease -----------------------------
(***************************************************************************)
(* Who may write a data root (packages/storage-sqlite/src/root-lease.ts,   *)
(* client.ts; apps/codex-bootstrap/src/cli.ts).                            *)
(*                                                                         *)
(* Two files of the data root say so: the lock, created exclusively and    *)
(* holding the lease of its owner, and the fence, a counter advanced by    *)
(* every acquisition.  Hosts are processes that open the store: they       *)
(* acquire in the client's constructor, check and rewrite the lease before *)
(* each operation and every ten seconds, and release on close.  When a     *)
(* host dies its lock stays; a bootstrap process that finds the lease      *)
(* expired and the owner's pid dead moves the file away.                   *)
(*                                                                         *)
(* Every action is what one process does between two moments at which the  *)
(* others can touch the files: reading and renaming are two of them.  A    *)
(* lease is identified by its owner and its fence token.  A host of the    *)
(* model is one process with one pid; Restart gives its name to a new one. *)
(***************************************************************************)
EXTENDS Naturals

CONSTANTS Hosts,        \* processes that open the store to write
          Bootstraps,   \* processes that recover the lease of a dead host
          NoHost,
          Overlap,      \* may two bootstraps recover at the same time?
          MaxFence      \* bound: acquisitions

ASSUME NoHostAssumption == NoHost \notin Hosts
ASSUME OverlapAssumption == Overlap \in BOOLEAN
ASSUME MaxFenceAssumption == MaxFence \in Nat

VARIABLES
    lockOwner,    \* lock file: the process that created it, or NoHost
    lockFence,    \* lock file: its fence token; 0 while the file is empty
    expired,      \* lock file: whether expires_at has passed
    fence,        \* fence file
    host,         \* what each host does next
    mine,         \* the fence token of each host's lease
    writing,      \* hosts whose worker may be changing the database
    boots         \* what each bootstrap does next

lock == <<lockOwner, lockFence, expired>>
vars == <<lock, fence, host, mine, writing, boots>>

Steps == {"down", "read", "write", "publish", "held", "beat", "release",
          "unlink", "gone"}

TypeOK ==
    /\ lockOwner \in Hosts \cup {NoHost}
    /\ lockFence \in Nat /\ expired \in BOOLEAN
    /\ fence \in Nat
    /\ host \in [Hosts -> Steps]
    /\ mine \in [Hosts -> Nat]
    /\ writing \subseteq Hosts
    /\ boots \in [Bootstraps -> {"idle", "take"}]

Init ==
    /\ lockOwner = NoHost /\ lockFence = 0 /\ expired = FALSE
    /\ fence = 0
    /\ host = [h \in Hosts |-> "down"]
    /\ mine = [h \in Hosts |-> 0]
    /\ writing = {}
    /\ boots = [b \in Bootstraps |-> "idle"]

Go(h, step) == host' = [host EXCEPT ![h] = step]

Lock(h, n) == lockOwner' = h /\ lockFence' = n /\ expired' = FALSE
NoLock == Lock(NoHost, 0)

-----------------------------------------------------------------------------
(* Acquiring: RootWriterLease.acquire. *)

Create(h) ==
    /\ host[h] = "down" /\ fence < MaxFence
    /\ lockOwner = NoHost                 \* EEXIST: ROOT_LEASE_HELD
    /\ Lock(h, 0)
    /\ Go(h, "read")
    /\ UNCHANGED <<fence, mine, writing, boots>>

\* nextFence: currentFence, then the successor is renamed into place.
ReadFence(h) ==
    /\ host[h] = "read"
    /\ mine' = [mine EXCEPT ![h] = fence + 1]
    /\ Go(h, "write")
    /\ UNCHANGED <<lock, fence, writing, boots>>

WriteFence(h) ==
    /\ host[h] = "write"
    /\ fence' = mine[h]
    /\ Go(h, "publish")
    /\ UNCHANGED <<lock, mine, writing, boots>>

\* The lease is written through the descriptor that created the file, which
\* may have been moved.  SqliteStorageClient.open then starts the worker and
\* brings the recovery authority up to date, without another heartbeat.
Publish(h) ==
    /\ host[h] = "publish"
    /\ IF lockOwner = h /\ lockFence = 0 THEN Lock(h, mine[h])
       ELSE UNCHANGED lock
    /\ writing' = writing \cup {h}
    /\ Go(h, "held")
    /\ UNCHANGED <<fence, mine, boots>>

\* An error on the way unlinks whatever is at the lock's path.
AcquireFails(h) ==
    /\ host[h] \in {"read", "write", "publish"}
    /\ NoLock
    /\ Go(h, "down")
    /\ UNCHANGED <<fence, mine, writing, boots>>

-----------------------------------------------------------------------------
(* Holding: heartbeat before an operation enters the queue and again when  *)
(* it starts, and by the writer_lease lane.                                *)

Owned(h) == lockOwner = h /\ lockFence = mine[h] /\ mine[h] > 0

\* Otherwise, or when the clock has stepped back: STALE_ROOT_LEASE.
Beat(h) ==
    /\ host[h] = "held" /\ Owned(h)
    /\ Go(h, "beat")
    /\ UNCHANGED <<lock, fence, mine, writing, boots>>

\* writeLeaseAtomic renames over the path; an operation may then start.
Beaten(h, starts) ==
    /\ host[h] = "beat"
    /\ Lock(h, mine[h])
    /\ writing' = IF starts THEN writing \cup {h} ELSE writing
    /\ Go(h, "held")
    /\ UNCHANGED <<fence, mine, boots>>

Finish(h) ==
    /\ h \in writing
    /\ writing' = writing \ {h}
    /\ UNCHANGED <<lock, fence, host, mine, boots>>

\* close: the worker is shut down and terminated before the lease is released.
ReleaseEarly(h) ==                        \* mutation: released, then closed
    /\ host[h] = "held"
    /\ Go(h, "release")
    /\ UNCHANGED <<lock, fence, mine, writing, boots>>
Close(h) ==
    /\ host[h] = "held"
    /\ writing' = writing \ {h}
    /\ Go(h, "release")
    /\ UNCHANGED <<lock, fence, mine, boots>>

Release(h) ==
    /\ host[h] = "release"
    /\ Go(h, IF Owned(h) THEN "unlink" ELSE "gone")
    /\ UNCHANGED <<lock, fence, mine, writing, boots>>

Unlink(h) ==
    /\ host[h] = "unlink"
    /\ NoLock
    /\ Go(h, "gone")
    /\ UNCHANGED <<fence, mine, writing, boots>>

-----------------------------------------------------------------------------
(* Dying, and what others make of it. *)

Crash(h) ==
    /\ host[h] \notin {"down", "gone"}
    /\ Go(h, "gone")
    /\ writing' = writing \ {h}
    /\ UNCHANGED <<lock, fence, mine, boots>>

Restart(h) ==
    /\ host[h] = "gone" /\ lockOwner # h
    /\ Go(h, "down")
    /\ UNCHANGED <<lock, fence, mine, writing, boots>>

\* DEFAULT_TTL_MS pass after the last heartbeat, of a live owner too.
Expire ==
    /\ lockFence > 0 /\ ~expired
    /\ expired' = TRUE
    /\ UNCHANGED <<lockOwner, lockFence, fence, host, mine, writing, boots>>

\* recoverExpiredDeadOwnerLease and recoverStaleRootLease up to its last
\* reading of the file.  An empty file is unreadable and is left alone.
ExpiredLease == lockFence > 0 /\ expired  \* mutation: pid not examined
SupersededLease ==                        \* mutation: token off by one
    lockFence > 0 /\ expired /\ host[lockOwner] = "gone" /\ lockFence < fence
DeadLease == lockFence > 0 /\ expired /\ host[lockOwner] = "gone"

Examine(b) ==
    /\ boots[b] = "idle" /\ DeadLease
    /\ Overlap \/ \A c \in Bootstraps : boots[c] = "idle"
    /\ boots' = [boots EXCEPT ![b] = "take"]
    /\ UNCHANGED <<lock, fence, host, mine, writing>>

\* The rename takes what is at the path by now, and the unlink of the
\* quarantined file follows; if nothing is there it throws.
Take(b) ==
    /\ boots[b] = "take"
    /\ NoLock
    /\ boots' = [boots EXCEPT ![b] = "idle"]
    /\ UNCHANGED <<fence, host, mine, writing>>

\* The bootstrap process is killed before the rename.
Abandon(b) ==
    /\ boots[b] = "take"
    /\ boots' = [boots EXCEPT ![b] = "idle"]
    /\ UNCHANGED <<lock, fence, host, mine, writing>>

-----------------------------------------------------------------------------
HostNext(h) ==
    \/ Create(h) \/ ReadFence(h) \/ WriteFence(h) \/ Publish(h)
    \/ AcquireFails(h)
    \/ Beat(h) \/ (\E starts \in BOOLEAN : Beaten(h, starts)) \/ Finish(h)
    \/ Close(h) \/ Release(h) \/ Unlink(h)
    \/ Crash(h) \/ Restart(h)

Next ==
    \/ \E h \in Hosts : HostNext(h)
    \/ \E b \in Bootstraps : Examine(b) \/ Take(b) \/ Abandon(b)
    \/ Expire

Spec == Init /\ [][Next]_vars

\* Time passes; every session starts a bootstrap, and not every one of them
\* is killed before its rename.
FairSpec ==
    /\ Spec
    /\ WF_vars(Expire)
    /\ WF_vars(\E b \in Bootstraps : Examine(b))
    /\ SF_vars(\E b \in Bootstraps : Take(b))

-----------------------------------------------------------------------------
(* Properties *)

\* At no time may two processes change the database of one root, whoever
\* died, was slow between two accesses to the lock, or was recovered.
OneWriter == \A g, h \in writing : g = h

\* The lock of a process that lives is never taken from it, be it expired or
\* still empty: it goes by a step of that process.
LiveLeaseStands ==
    [][ \A h \in Hosts :
          lockOwner = h /\ host[h] # "gone" /\ lockOwner' # h
            => host'[h] # host[h] ]_vars

\* A fence token is never issued twice: an approval bound to a token cannot
\* be used under a later lease.
FenceGrows == [][ fence' # fence => fence' > fence ]_vars

\* A lease is its holder's alone, and so is its token.
LeaseIsKept == LiveLeaseStands /\ FenceGrows

\* The lease of a dead host is removed in the end, and does not lock the
\* root for ever.
Abandoned(h) == lockOwner = h /\ lockFence > 0 /\ host[h] = "gone"
StaleIsRecovered == \A h \in Hosts : Abandoned(h) ~> ~Abandoned(h)

=============================================================================
