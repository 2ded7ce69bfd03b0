----------------------------- MODULE HookSpool -----------------------------
(***************************************************************************)
(* The Codex hook commands, their private spool directory and the host's   *)
(* capture endpoint.                                                       *)
(*                                                                         *)
(*   hook command   apps/codex-bootstrap/src/hook-command.ts               *)
(*   spool          apps/codex-bootstrap/src/hook-spool.ts                 *)
(*   endpoint       apps/memory-workbench-host/src/host.ts,                *)
(*                  captureHookEvent                                       *)
(*                                                                         *)
(* Codex starts one process per hook event and several may run at once.    *)
(* A process first flushes the spool, then sends its own event, and if the *)
(* host does not accept it writes the event to the spool.  The spool has   *)
(* no lock: a file appears when it is opened and gets its contents later,  *)
(* and every check of the directory may be stale when it is acted upon.    *)
(*                                                                         *)
(* A hook's request carries the time of its own invocation.  A file is the *)
(* one the hook `by` created; its name is that of the event, its contents  *)
(* are the hook's request.                                                 *)
(***************************************************************************)
EXTENDS Naturals, Sequences, FiniteSets

CONSTANTS
    Hooks,        \* hook invocations that deliver an event
    Events,       \* event identities
    EventOf,      \* the event each hook delivers
    Visitor,      \* invocations without an event of note: they only flush
    MaxEntries,   \* DEFAULT_MAX_ENTRIES of the spool
    FlushLimit,   \* entries one invocation flushes
    MaxActive,    \* hook processes at a time
    Overlap,      \* whether two deliveries of one event may run at once
    Kills,        \* whether Codex may kill a hook (its timeout)
    Outages       \* whether the host may be down, or its answer come too late

HookAssumption ==
    /\ EventOf \in [Hooks -> Events]
    /\ Visitor \notin Hooks
    /\ MaxEntries \in Nat \ {0}
    /\ FlushLimit \in Nat \ {0}
    /\ MaxActive \in Nat \ {0}
    /\ Overlap \in BOOLEAN /\ Kills \in BOOLEAN /\ Outages \in BOOLEAN

VARIABLES
    spool,       \* the directory's files in the order of their mtime
    quarantine,  \* the files moved aside as invalid
    hook,        \* the hook processes
    seen,        \* per event, the hook whose request committed its evidence
    captured,    \* the events in the automatic-memory inbox
    kept         \* the hooks whose enqueue returned without an error

vars == <<spool, quarantine, hook, seen, captured, kept>>

Procs == Hooks \cup {Visitor}
Waiting == [step |-> "waiting", list |-> <<>>, by |-> Visitor]

HInit ==
    /\ spool = <<>>
    /\ quarantine = {}
    /\ hook = [h \in Procs |-> Waiting]
    /\ seen = [e \in Events |-> Visitor]
    /\ captured = {}
    /\ kept = {}

-----------------------------------------------------------------------------
(* The directory.                                                          *)

Names == {spool[i].event : i \in 1 .. Len(spool)}
At(e) == CHOOSE i \in 1 .. Len(spool) : spool[i].event = e
File(e) == spool[At(e)]
Without(e) ==
    IF e \in Names
      THEN [i \in 1 .. Len(spool) - 1 |-> spool[IF i < At(e) THEN i ELSE i + 1]]
      ELSE spool
FileOf(h) == {i \in 1 .. Len(spool) : spool[i].by = h}

Go(h, step) == hook' = [hook EXCEPT ![h].step = step]
End(h) == IF h = Visitor THEN hook' = [hook EXCEPT ![h] = Waiting]
                         ELSE hook' = [hook EXCEPT ![h] = [Waiting EXCEPT !.step = "done"]]
Active == {h \in Procs : hook[h].step \notin {"waiting", "done", "killed"}}

-----------------------------------------------------------------------------
(* The host.  The evidence of an event is committed under the event's key,  *)
(* and the event is captured under the same key: a request of another time  *)
(* is another request under a used key.                                    *)

Accepts(e, by) == seen[e] \in {Visitor, by}

\* What becomes of a request: accepted; refused with CONFLICT; or lost, and
\* then the host may have committed the evidence, or captured the event too.
Accepted(e, by) == /\ Accepts(e, by)
                   /\ seen' = [seen EXCEPT ![e] = by]
                   /\ captured' = captured \cup {e}
Refused(e, by) == ~Accepts(e, by) /\ UNCHANGED <<seen, captured>>
Lost(e, by) == /\ Outages
               /\ \/ UNCHANGED <<seen, captured>>
                  \/ /\ Accepts(e, by)
                     /\ seen' = [seen EXCEPT ![e] = by]
                     /\ UNCHANGED captured
                  \/ Accepted(e, by)

-----------------------------------------------------------------------------
(* Flushing the spool: runCodexHookCommand and AutomaticMemoryHookSpool.   *)

Least(a, b) == IF a < b THEN a ELSE b

\* No other delivery of the hook's event is under way.
Alone(h) == \A g \in Active : Visitor \notin {g, h} => EventOf[g] # EventOf[h]

MayStart(h) ==
    /\ hook[h].step = "waiting"
    /\ Cardinality(Active) < MaxActive
    /\ Overlap \/ Alone(h)

Start(h) ==
    /\ MayStart(h)
    /\ hook' = [hook EXCEPT ![h] =
         [step |-> "flush", by |-> Visitor,
          list |-> [i \in 1 .. Least(FlushLimit, Len(spool)) |-> spool[i].event]]]
    /\ UNCHANGED <<spool, quarantine, seen, captured, kept>>

\* After the flush, however it ended, the hook sends its own event.
Own(h) == IF h = Visitor THEN End(h) ELSE Go(h, "send")

Flushed(h) ==
    /\ hook[h].step = "flush"
    /\ hook[h].list = <<>>
    /\ Own(h)
    /\ UNCHANGED <<spool, quarantine, seen, captured, kept>>

\* mutation: a file without contents is passed over
ReadWholeFile(h) ==
    /\ hook[h].step = "flush"
    /\ hook[h].list # <<>>
    /\ LET e == Head(hook[h].list) IN
         IF e \in Names /\ File(e).whole
           THEN hook' = [hook EXCEPT ![h].step = "deliver", ![h].by = File(e).by]
           ELSE hook' = [hook EXCEPT ![h].list = Tail(@)]
    /\ UNCHANGED <<spool, quarantine, seen, captured, kept>>

\* A whole file is sent; a file without its contents is quarantined; and if
\* the file is gone, the quarantine fails and with it the flush.
ReadFile(h) ==
    /\ hook[h].step = "flush"
    /\ hook[h].list # <<>>
    /\ LET e == Head(hook[h].list) IN
         IF e \notin Names THEN Own(h) /\ UNCHANGED <<spool, quarantine>>
         ELSE IF File(e).whole
           THEN /\ hook' = [hook EXCEPT ![h].step = "deliver", ![h].by = File(e).by]
                /\ UNCHANGED <<spool, quarantine>>
           ELSE /\ quarantine' = quarantine \cup {File(e).by}
                /\ spool' = Without(e)
                /\ hook' = [hook EXCEPT ![h].list = Tail(@)]
    /\ UNCHANGED <<seen, captured, kept>>

Deliver(h) ==
    /\ hook[h].step = "deliver"
    /\ Accepted(Head(hook[h].list), hook[h].by)
    /\ Go(h, "acknowledge")
    /\ UNCHANGED <<spool, quarantine, kept>>

\* The first request that is not accepted ends the flush.
DeliverFails(h) ==
    /\ hook[h].step = "deliver"
    /\ \/ Refused(Head(hook[h].list), hook[h].by)
       \/ Lost(Head(hook[h].list), hook[h].by)
    /\ Own(h)
    /\ UNCHANGED <<spool, quarantine, kept>>

Acknowledge(h) ==
    /\ hook[h].step = "acknowledge"
    /\ LET e == Head(hook[h].list) IN
         IF e \in Names
           THEN /\ spool' = Without(e)
                /\ hook' = [hook EXCEPT ![h].step = "flush", ![h].list = Tail(@)]
           ELSE Own(h) /\ UNCHANGED spool
    /\ UNCHANGED <<quarantine, seen, captured, kept>>

-----------------------------------------------------------------------------
(* The hook's own event.                                                   *)

Send(h) ==
    /\ hook[h].step = "send"
    /\ \/ Accepted(EventOf[h], h) /\ End(h)
       \/ (Refused(EventOf[h], h) \/ Lost(EventOf[h], h)) /\ Go(h, "enqueue")
    /\ UNCHANGED <<spool, quarantine, kept>>

\* enqueue: an equal file is a success; another file of the event, or a full
\* spool, is an error, which the hook command swallows.
Check(h) ==
    /\ hook[h].step = "enqueue"
    /\ IF EventOf[h] \in Names \/ Len(spool) >= MaxEntries
         THEN End(h)
         ELSE Go(h, "create")
    /\ UNCHANGED <<spool, quarantine, seen, captured, kept>>

\* O_EXCL.  If the file has appeared since the check, the error path of
\* enqueue removes it although another process created it.
Create(h) ==
    /\ hook[h].step = "create"
    /\ IF EventOf[h] \in Names
         THEN spool' = Without(EventOf[h]) /\ End(h)
         ELSE /\ spool' = Append(spool, [event |-> EventOf[h], by |-> h, whole |-> FALSE])
              /\ Go(h, "write")
    /\ UNCHANGED <<quarantine, seen, captured, kept>>

\* The contents go to the file that was created, wherever it is by now.
Write(h) ==
    /\ hook[h].step = "write"
    /\ spool' = [i \in 1 .. Len(spool) |->
                   IF i \in FileOf(h) THEN [spool[i] EXCEPT !.whole = TRUE] ELSE spool[i]]
    /\ Go(h, "recheck")
    /\ UNCHANGED <<quarantine, seen, captured, kept>>

\* mutation: the bound is not checked again
RecheckNothing(h) ==
    /\ hook[h].step = "recheck"
    /\ kept' = kept \cup {h}
    /\ End(h)
    /\ UNCHANGED <<spool, quarantine, seen, captured>>

\* The bound is checked again, and the name is unlinked if it is exceeded.
Recheck(h) ==
    /\ hook[h].step = "recheck"
    /\ IF Len(spool) > MaxEntries
         THEN spool' = Without(EventOf[h]) /\ UNCHANGED kept
         ELSE kept' = kept \cup {h} /\ UNCHANGED spool
    /\ End(h)
    /\ UNCHANGED <<quarantine, seen, captured>>

\* Listing the directory fails if a file goes between its name and its stat:
\* a flush ends before it began, and enqueue fails - after the creation with
\* the removal of what it created.
Removing(g) == hook[g].step \in {"flush", "acknowledge", "create", "recheck"}
Vanishes(h) ==
    /\ spool # <<>> /\ \E g \in Active \ {h} : Removing(g)
    /\ \/ MayStart(h) /\ Own(h) /\ UNCHANGED spool
       \/ hook[h].step = "enqueue" /\ End(h) /\ UNCHANGED spool
       \/ hook[h].step = "recheck" /\ End(h) /\ spool' = Without(EventOf[h])
    /\ UNCHANGED <<quarantine, seen, captured, kept>>

\* The hook process is killed wherever it is.
Kill(h) ==
    /\ Kills
    /\ h # Visitor
    /\ h \in Active
    /\ hook' = [hook EXCEPT ![h] = [Waiting EXCEPT !.step = "killed"]]
    /\ UNCHANGED <<spool, quarantine, seen, captured, kept>>

-----------------------------------------------------------------------------
Step(h) == Start(h) \/ Flushed(h) \/ ReadFile(h) \/ Deliver(h) \/ DeliverFails(h)
           \/ Acknowledge(h)
           \/ Send(h) \/ Check(h) \/ Create(h) \/ Write(h) \/ Recheck(h) \/ Vanishes(h)

HNext == \E h \in Procs : Step(h) \/ Kill(h)

HSpec == HInit /\ [][HNext]_vars

\* Processes run, and some hook is started again and again (Codex fires one
\* for every session and prompt); strong fairness of an accepted delivery
\* says that the host is not down or slow for ever.
HLive == /\ HSpec
         /\ \A h \in Procs : WF_vars(Step(h))
         /\ SF_vars(Deliver(Visitor))

-----------------------------------------------------------------------------
Entry == [event : Events, by : Hooks, whole : BOOLEAN]
Steps == {"waiting", "flush", "deliver", "acknowledge", "send", "enqueue", "create",
          "write", "recheck", "done", "killed"}

\* Type invariant; a name is a file's only once, and so is a creator, and a
\* hook that delivers an entry or acknowledges it has it at hand.
TypeOK ==
    /\ spool \in Seq(Entry)
    /\ \A i, j \in 1 .. Len(spool) :
          spool[i].event = spool[j].event \/ spool[i].by = spool[j].by => i = j
    /\ quarantine \subseteq Hooks
    /\ hook \in [Procs -> [step : Steps, list : Seq(Events), by : Procs]]
    /\ \A h \in Procs : hook[h].step \in {"deliver", "acknowledge"} => hook[h].list # <<>>
    /\ seen \in [Events -> Procs]
    /\ captured \subseteq Events
    /\ kept \subseteq Hooks

\* An event whose enqueue succeeded is deleted by nobody before it is
\* captured: it is in the spool, with its contents, or was moved to the
\* quarantine by a flush that came between its creation and its contents -
\* whatever hooks of other events do to the directory meanwhile.
KeptUntilAcknowledged ==
    \A h \in kept : \/ EventOf[h] \in captured
                    \/ EventOf[h] \in Names /\ File(EventOf[h]).whole
                    \/ h \in quarantine

\* The entries whose enqueue succeeded never exceed the bound, although it is
\* checked before a file is created and again after, never together with it.
BoundHolds == Cardinality({i \in 1 .. Len(spool) : spool[i].by \in kept}) <= MaxEntries

\* The spool's files are well formed, within bounds, and what was promised
\* delivery is among them.
SpoolSound == TypeOK /\ KeptUntilAcknowledged /\ BoundHolds

\* A spooled request that the host will never accept: a second delivery of
\* its event.
Poisoned == \E i \in 1 .. Len(spool) : ~Accepts(spool[i].event, spool[i].by)

\* What has been spooled leaves the spool again, however often the host is
\* down, its answers are lost or hooks are killed: only an entry the host
\* refuses for good can keep it there.
SpoolDrains == \A e \in Events : (e \in Names) ~> (e \notin Names \/ Poisoned)
=============================================================================
