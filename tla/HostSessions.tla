----------------------------- MODULE HostSessions -----------------------------
(***************************************************************************)
(* Who is connected to a running host: MCP proxies over its private socket *)
(* (packages/runtime-host, host.ts), and browser pages that bought a       *)
(* session with a ticket (apps/memory-workbench-host, http/server.ts and   *)
(* session-authority.ts) and have a workbench service each; and the        *)
(* shutdown of the host (host.ts of both), which goes on while sockets     *)
(* hang up, sessions are attached and requests are under way.              *)
(*                                                                         *)
(* A page is one browser tab with the ticket it was opened with.           *)
(***************************************************************************)
EXTENDS Naturals, FiniteSets, Sequences, SequencesExt

CONSTANTS Conns, MaxIpc,           \* proxies; maxIpcSessions
          Pages, MaxTickets,       \* tabs; pending tickets kept
          MaxSessions,             \* browser sessions kept
          MaxServices              \* workbench services kept

SessionsAssumption ==
  {MaxIpc, MaxTickets, MaxSessions, MaxServices} \subseteq Nat \ {0}

VARIABLES stop,        \* how far the shutdown is
          socket,      \* of each proxy; destroyed: its "close" is still to come
          step,        \* of the connection handler
          handle,      \* the MCP session of each proxy
          handles,     \* the map of those the host closes
          tickets,     \* pending, the oldest first
          sessions,    \* browser sessions, the oldest first
          spent,       \* pages whose ticket is no good any more
          services,    \* workbenchSessions
          requests     \* [page, step] of requests that passed authentication

ipc == <<socket, step, handle, handles>>
web == <<tickets, sessions, spent, services, requests>>
sessionVars == <<stop, ipc, web>>

SessionTypes ==
  /\ stop \in {"no", "http", "drain", "sockets", "storage", "stopped"}
  /\ socket \in [Conns -> {"none", "open", "destroyed", "closed"}]
  /\ step \in [Conns -> {"none", "auth", "attach", "over"}]
  /\ handle \in [Conns -> {"none", "open", "closed"}] /\ handles \subseteq Conns
  /\ tickets \in Seq(Pages) /\ sessions \in Seq(Pages)
  /\ spent \subseteq Pages /\ services \subseteq Pages
  /\ requests \subseteq [page : Pages, step : {"body", "working"}]

SessionInit ==
  /\ stop = "no"
  /\ socket = [c \in Conns |-> "none"] /\ step = [c \in Conns |-> "none"]
  /\ handle = [c \in Conns |-> "none"] /\ handles = {}
  /\ tickets = <<>> /\ sessions = <<>> /\ spent = {}
  /\ services = {} /\ requests = {}

IsReady == stop \in {"no", "http"}              \* lifecycle = "ready"

-----------------------------------------------------------------------------
(* Proxies. *)

Connected == {c \in Conns : socket[c] \in {"open", "destroyed"}}
Destroyed(cs) == [c \in Conns |-> IF c \in cs /\ socket[c] = "open" THEN "destroyed" ELSE socket[c]]
Destroy(c) == socket' = Destroyed({c}) /\ step' = [step EXCEPT ![c] = "over"]

Connect(c) ==
  /\ socket[c] = "none" /\ stop \in {"no", "http", "drain"}
  /\ LET admitted == Cardinality(Connected) < MaxIpc IN
     /\ socket' = [socket EXCEPT ![c] = IF ~admitted THEN "closed"
                                        ELSE IF IsReady THEN "open" ELSE "destroyed"]
     /\ step' = [step EXCEPT ![c] = IF admitted /\ IsReady THEN "auth" ELSE "over"]
  /\ UNCHANGED <<stop, handle, handles, web>>

(* The handshake fails or times out, or the lifecycle is looked at again.  *)
Authenticate(c) ==
  /\ step[c] = "auth"
  /\ \/ Destroy(c)
     \/ /\ socket[c] = "open" /\ IsReady
        /\ step' = [step EXCEPT ![c] = "attach"] /\ UNCHANGED socket
  /\ UNCHANGED <<stop, handle, handles, web>>

WantedIfReady(c) == IsReady                     \* mutation: socket not looked at again
Wanted(c) == IsReady /\ socket[c] = "open"

Attach(c) ==
  /\ step[c] = "attach"
  /\ \/ Destroy(c) /\ UNCHANGED <<handle, handles>>
     \/ /\ ~Wanted(c) /\ Destroy(c)
        /\ handle' = [handle EXCEPT ![c] = "closed"] /\ UNCHANGED handles
     \/ /\ Wanted(c) /\ step' = [step EXCEPT ![c] = "over"] /\ UNCHANGED socket
        /\ handle' = [handle EXCEPT ![c] = "open"] /\ handles' = handles \cup {c}
  /\ UNCHANGED <<stop, web>>

HangUp(c) ==
  /\ socket[c] = "open" /\ socket' = Destroyed({c})
  /\ UNCHANGED <<stop, step, handle, handles, web>>

SocketClosed(c) ==
  /\ socket[c] = "destroyed" /\ socket' = [socket EXCEPT ![c] = "closed"]
  /\ handle' = IF c \in handles THEN [handle EXCEPT ![c] = "closed"] ELSE handle
  /\ handles' = handles \ {c}
  /\ UNCHANGED <<stop, step, web>>

-----------------------------------------------------------------------------
(* Browser pages. *)

HttpOpen == stop = "no"
InSession(p) == p \in ToSet(sessions)
Kept(seq, max) == IF Len(seq) >= max THEN Tail(seq) ELSE seq    \* evictOldest

IssueTicket(p) ==
  /\ HttpOpen /\ p \notin spent \cup ToSet(tickets \o sessions)
  /\ tickets' = Append(Kept(tickets, MaxTickets), p)
  /\ spent' = spent \cup (ToSet(tickets) \ ToSet(tickets'))
  /\ UNCHANGED <<stop, ipc, sessions, services, requests>>

(* A ticket buys one session, at the cost of the oldest one.  The services *)
(* of sessions that end are kept until the host closes.                    *)
Exchange(p) ==
  /\ HttpOpen
  /\ \E i \in DOMAIN tickets : tickets[i] = p /\ tickets' = RemoveAt(tickets, i)
  /\ spent' = spent \cup {p}
  /\ sessions' = Append(Kept(sessions, MaxSessions), p)
  /\ UNCHANGED <<stop, ipc, services, requests>>

(* Tickets and sessions expire in the order they were made.                *)
ExpireTicket ==
  /\ tickets # <<>> /\ tickets' = Tail(tickets) /\ spent' = spent \cup {Head(tickets)}
  /\ UNCHANGED <<stop, ipc, sessions, services, requests>>
ExpireSession ==
  /\ sessions # <<>> /\ sessions' = Tail(sessions)
  /\ UNCHANGED <<stop, ipc, tickets, spent, services, requests>>

(* A request passes authentication, then its body is read, and only then   *)
(* the service of its session is looked up, or made.                       *)
Request(p) ==
  /\ HttpOpen /\ InSession(p) /\ \A r \in requests : r.page # p
  /\ requests' = requests \cup {[page |-> p, step |-> "body"]}
  /\ UNCHANGED <<stop, ipc, tickets, sessions, spent, services>>

Served(p) == IsReady /\ (p \in services \/ Cardinality(services) < MaxServices)

BodyRead(r) ==
  /\ r \in requests /\ r.step = "body"
  /\ IF Served(r.page)
     THEN /\ services' = services \cup {r.page}
          /\ requests' = (requests \ {r}) \cup {[r EXCEPT !.step = "working"]}
     ELSE requests' = requests \ {r} /\ UNCHANGED services
  /\ UNCHANGED <<stop, ipc, tickets, sessions, spent>>

Respond(r) ==
  /\ r \in requests /\ r.step = "working"
  /\ requests' = requests \ {r}
  /\ UNCHANGED <<stop, ipc, tickets, sessions, spent, services>>

-----------------------------------------------------------------------------
(* Shutdown. *)

(* http.close(): sessions end, and requests whose body is still to come.   *)
CloseHttp ==
  /\ stop = "no" /\ stop' = "http"
  /\ tickets' = <<>> /\ sessions' = <<>> /\ spent' = Pages
  /\ \E cut \in SUBSET {r \in requests : r.step = "body"} : requests' = requests \ cut
  /\ UNCHANGED <<ipc, services>>

(* runtime.close(): the lanes are drained, for five seconds at most.       *)
DrainLanes == stop = "http" /\ stop' = "drain" /\ UNCHANGED <<ipc, web>>

OnlyAttached == handles                         \* mutation: handshakes left alone
Remaining == Conns

CloseSockets ==
  /\ stop = "drain" /\ stop' = "sockets"
  /\ handle' = [c \in Conns |-> IF c \in handles THEN "closed" ELSE handle[c]]
  /\ handles' = {} /\ socket' = Destroyed(Remaining)
  /\ UNCHANGED <<step, web>>

(* The server has closed when the last of its sockets has.                 *)
CloseStorage ==
  /\ stop = "sockets" /\ Connected = {}
  /\ stop' = "storage" /\ services' = {}
  /\ UNCHANGED <<ipc, tickets, sessions, spent, requests>>

Stopped == stop = "storage" /\ stop' = "stopped" /\ UNCHANGED <<ipc, web>>

SessionNext ==
  \/ \E c \in Conns : Connect(c) \/ Authenticate(c) \/ Attach(c) \/ HangUp(c) \/ SocketClosed(c)
  \/ \E p \in Pages : IssueTicket(p) \/ Exchange(p) \/ Request(p)
  \/ \E r \in requests : BodyRead(r) \/ Respond(r)
  \/ ExpireTicket \/ ExpireSession
  \/ CloseHttp \/ DrainLanes \/ CloseSockets \/ CloseStorage \/ Stopped

SessionSpec == SessionInit /\ [][SessionNext]_sessionVars

(* A destroyed socket emits "close", and each step of the shutdown ends:   *)
(* the lanes have a deadline, the storage client is module StorageClient.  *)
FairSessions ==
  /\ SessionSpec /\ \A c \in Conns : WF_sessionVars(SocketClosed(c))
  /\ WF_sessionVars(DrainLanes) /\ WF_sessionVars(CloseSockets) /\ WF_sessionVars(CloseStorage) /\ WF_sessionVars(Stopped)

-----------------------------------------------------------------------------
(* No MCP session outlives its proxy or the sockets of its host, whenever  *)
(* the proxy hangs up or the host stops while the session is attached.     *)
NoLeakedHandle ==
  \A c \in Conns : handle[c] = "open" => socket[c] # "closed" /\ stop \in {"no", "http", "drain"}

SessionsSound == SessionTypes /\ NoLeakedHandle

(* A page with a valid session is served however many there were before.   *)
SessionsAreServed ==
  \A p \in Pages : InSession(p) => p \in services \/ Cardinality(services) < MaxServices

(* A shutdown that has begun ends, whatever the peers do.                  *)
ShutdownEnds == stop = "http" ~> stop = "stopped"
=============================================================================
