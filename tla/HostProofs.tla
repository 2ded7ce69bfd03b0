----------------------------- MODULE HostProofs -----------------------------
(***************************************************************************)
(* What two components of a running host guarantee for any proxies, pages, *)
(* secrets, keys, backups and bounds: its sessions and its secrets.        *)
(***************************************************************************)
EXTENDS HostSessions, SecretStore, FiniteSetTheorems, TLAPS

(* The sessions.  An MCP session that is open is in the map of those the   *)
(* host closes, and its socket has yet to report that it has.              *)
OpenIsKept ==
  \A c \in Conns : handle[c] = "open" =>
    c \in handles /\ socket[c] \in {"open", "destroyed"} /\ stop \in {"no", "http", "drain"}

SessionsInv == SessionTypes /\ OpenIsKept

LEMMA SessionsInit == SessionInit => SessionsInv
BY DEF SessionInit, SessionsInv, SessionTypes, OpenIsKept

(* What is kept of a queue, and what is left of it.                        *)
LEMMA QueueTyped ==
  ASSUME NEW q \in Seq(Pages)
  PROVE  /\ \A max \in Nat \ {0} : Kept(q, max) \in Seq(Pages)
         /\ q # <<>> => Tail(q) \in Seq(Pages) /\ Head(q) \in Pages
         /\ \A i \in DOMAIN q : RemoveAt(q, i) \in Seq(Pages)
         /\ ToSet(q) \subseteq Pages
<1>1. q # <<>> => Tail(q) \in Seq(Pages) /\ Head(q) \in Pages
  OBVIOUS
<1>2. \A max \in Nat \ {0} : Kept(q, max) \in Seq(Pages)
  <2> SUFFICES ASSUME NEW max \in Nat \ {0} PROVE Kept(q, max) \in Seq(Pages)
    OBVIOUS
  <2>1. Len(q) >= max => q # <<>>
    OBVIOUS
  <2> QED
    BY <1>1, <2>1 DEF Kept
<1>3. \A i \in DOMAIN q : RemoveAt(q, i) \in Seq(Pages)
  <2> SUFFICES ASSUME NEW i \in 1 .. Len(q) PROVE RemoveAt(q, i) \in Seq(Pages)
    OBVIOUS
  <2>1. SubSeq(q, 1, i - 1) \in Seq(Pages) /\ SubSeq(q, i + 1, Len(q)) \in Seq(Pages)
    OBVIOUS
  <2> QED
    BY <2>1 DEF RemoveAt
<1>4. ToSet(q) \subseteq Pages
  BY DEF ToSet
<1> QED
  BY <1>1, <1>2, <1>3, <1>4

LEMMA SessionsStep == SessionsAssumption /\ SessionsInv /\ [SessionNext]_sessionVars => SessionsInv'
<1> SUFFICES ASSUME SessionsAssumption, SessionsInv, [SessionNext]_sessionVars PROVE SessionsInv'
  OBVIOUS
<1> USE DEF SessionsInv, SessionTypes, OpenIsKept, ipc, web
<1>1. ASSUME NEW c \in Conns, Connect(c) PROVE SessionsInv'
  BY <1>1 DEF Connect
<1>2. ASSUME NEW c \in Conns, Authenticate(c) PROVE SessionsInv'
  BY <1>2 DEF Authenticate, Destroy, Destroyed
<1>3. ASSUME NEW c \in Conns, Attach(c) PROVE SessionsInv'
  BY <1>3 DEF Attach, Destroy, Destroyed, Wanted, IsReady
<1>4. ASSUME NEW c \in Conns, HangUp(c) \/ SocketClosed(c) PROVE SessionsInv'
  BY <1>4 DEF HangUp, SocketClosed, Destroyed
<1>5. ASSUME NEW p \in Pages, IssueTicket(p) PROVE SessionsInv'
  <2>1. Kept(tickets, MaxTickets) \in Seq(Pages) /\ ToSet(tickets) \subseteq Pages
    BY QueueTyped DEF SessionsAssumption
  <2>2. tickets' \in Seq(Pages) /\ spent' \subseteq Pages
    BY <1>5, <2>1 DEF IssueTicket
  <2> QED
    BY <1>5, <2>2 DEF IssueTicket
<1>6. ASSUME NEW p \in Pages, Exchange(p) PROVE SessionsInv'
  <2>1. Kept(sessions, MaxSessions) \in Seq(Pages)
    BY QueueTyped DEF SessionsAssumption
  <2>2. tickets' \in Seq(Pages) /\ sessions' \in Seq(Pages)
    BY <1>6, <2>1, QueueTyped DEF Exchange
  <2> QED
    BY <1>6, <2>2 DEF Exchange
<1>7. ASSUME NEW p \in Pages, Request(p) PROVE SessionsInv'
  BY <1>7 DEF Request
<1>8. ASSUME NEW r \in requests, BodyRead(r) PROVE SessionsInv'
  BY <1>8 DEF BodyRead
<1>9. ASSUME NEW r \in requests, Respond(r) PROVE SessionsInv'
  BY <1>9 DEF Respond
<1>10. CASE ExpireTicket \/ ExpireSession
  BY <1>10, QueueTyped DEF ExpireTicket, ExpireSession
<1>11. CASE CloseHttp
  BY <1>11 DEF CloseHttp
<1>12. CASE DrainLanes \/ Stopped
  BY <1>12 DEF DrainLanes, Stopped
<1>13. CASE CloseSockets
  BY <1>13 DEF CloseSockets, Destroyed
<1>14. CASE CloseStorage
  BY <1>14 DEF CloseStorage
<1>15. CASE UNCHANGED sessionVars
  BY <1>15 DEF sessionVars
<1> QED
  BY <1>1, <1>2, <1>3, <1>4, <1>5, <1>6, <1>7, <1>8, <1>9, <1>10, <1>11, <1>12, <1>13, <1>14,
     <1>15 DEF SessionNext

(* No MCP session outlives its proxy or the sockets of its host, however   *)
(* hang-ups, attachments, expiries and the shutdown interleave.            *)
THEOREM SessionsAreSound ==
  ASSUME SessionsAssumption
  PROVE  SessionSpec => []SessionsSound
<1>1. SessionsInv => SessionsSound
  BY DEF SessionsInv, OpenIsKept, SessionsSound, NoLeakedHandle
<1>2. SessionsInv /\ [SessionNext]_sessionVars => SessionsInv'
  BY SessionsStep
<1> QED
  BY <1>1, <1>2, SessionsInit, PTL DEF SessionSpec

-----------------------------------------------------------------------------
(* The secrets. *)

(* Everything has its type; an operation goes through its steps.           *)
Operations ==
  {Idle} \cup [do : {"admit"}, it : Requests, at : {"write", "commit"}]
  \cup [do : {"resume"}, it : Keys,
        at : {"next", "last", "reserve", "write", "commit", "finalize"}]
  \cup [do : {"purge"}, it : Owners, at : {"register"}]
  \cup [do : {"maintain"}, it : {0}, at : {"backups", "done"}]
Items == [rot : Keys, owner : Owners, old : Keys, done : BOOLEAN]
Nonces == [owner : Owners, key : Keys, by : Requests \cup {"rotation"},
           state : {"prepared", "committed", "retired"}]
Rotations == [state : Open \cup {"none", "completed", "aborted"}, old : 0..MaxKeys,
              total : Nat, rewritten : Nat]
SecretTypes ==
  /\ keys \in [Keys -> KeyStates]
  /\ rotation \in [Keys -> Rotations]
  /\ items \subseteq Items /\ IsFiniteSet(items)
  /\ reservations \subseteq Nonces
  /\ content \in [Owners -> [Keys -> {"none", "live", "retired", "deleted"}]]
  /\ bound \in [Owners -> 0..MaxKeys] /\ purged \subseteq Owners
  /\ files \subseteq Owners \X Keys /\ used \subseteq Keys \X Owners
  /\ backups \in [Backups -> [Owners -> {"none", "named", "held"}]]
  /\ intents \subseteq Backups /\ maint \subseteq Owners
  /\ op \in Operations /\ faults \in 0..MaxFaults

FreshIsUnused ==
  \A k \in Keys : keys[k] = "none" =>
    /\ rotation[k].state = "none"
    /\ \A x \in reservations : x.key # k
    /\ \A i \in items : i.rot # k
    /\ \A o \in Owners : content[o][k] = "none"

NoncesAgree ==
  /\ \A x \in reservations :
       /\ x.state = "prepared" <=> content[x.owner][x.key] = "none"
       /\ \A y \in reservations :
            x.by \in Requests /\ (y.by = x.by \/ (y.owner = x.owner /\ y.key = x.key)) => y = x
  /\ \A o \in Owners, k \in Keys : content[o][k] # "none" =>
       \E x \in reservations : x.owner = o /\ x.key = k

Bindings ==
  \A o \in Owners :
    /\ bound[o] = 0 => o \notin purged /\ \A k \in Keys : content[o][k] = "none"
    /\ bound[o] # 0 => content[o][bound[o]] # "none"
    /\ o \in purged => \A k \in Keys : content[o][k] \in {"none", "deleted"}

OneOpen ==
  /\ \A j, k \in Current : j = k
  /\ \A j, k \in OpenRotations : j = k
  /\ \A k \in Keys : keys[k] = "rotating_to" => k \in OpenRotations
  /\ \A k \in OpenRotations : rotation[k].state = "in_progress" =>
       keys[k] = "rotating_to" /\ keys[rotation[k].old] = "current"

RotationsAgree ==
  \A k \in OpenRotations :
    /\ keys[k] \in {"rotating_to", "revoked"} /\ rotation[k].old \in Keys \ {k}
    /\ \A x \in reservations : x.key = k => x.by = "rotation"
    /\ \A o \in Owners : content[o][k] # "none" => bound[o] = k
    /\ \A o \in Owners : Active(o) /\ bound[o] = k => \E i \in items : i.rot = k /\ i.owner = o /\ i.done
    /\ \A i \in ItemsOf(k) : i.old = rotation[k].old /\ \A j \in ItemsOf(k) : i.owner = j.owner => i = j

OperationAgrees ==
  /\ op.do = "admit" => \A x \in reservations : x.by = op.it =>
       /\ x.state = "prepared"
       /\ op.at = "commit" => MayCommit(x) /\ <<x.owner, x.key>> \in files
  /\ op.do = "resume" =>
       /\ rotation[op.it].state = "in_progress"
       /\ op.at \in {"write", "commit"} => \A i \in NextItem(op.it) :
            \E x \in reservations : x.owner = i.owner /\ x.key = op.it
       /\ op.at = "commit" => \A i \in NextItem(op.it) : <<i.owner, op.it>> \in files
  /\ op.do = "purge" => Active(op.it) /\ OpenRotations = {}
  /\ op.at = "done" => intents = {}

NothingLeft ==
  /\ op.at \notin {"finalize", "backups"} => Dropped = {}
  /\ \A o \in purged :
       /\ \A b \in Backups : backups[b][o] = "held" => b \in intents
       /\ o \notin maint => /\ \A f \in files : f[1] = o => content[o][f[2]] # "deleted"
                            /\ \A b \in Backups : backups[b][o] # "held"

Rows == FreshIsUnused /\ NoncesAgree /\ Bindings /\ OneOpen /\ RotationsAgree /\ CountIsExact
SecretInv == SecretTypes /\ Rows /\ ActiveIsReadable /\ OperationAgrees /\ NothingLeft

-----------------------------------------------------------------------------
LEMMA SecretInit == SecretAssumption /\ SInit => SecretInv
<1> SUFFICES ASSUME SecretAssumption, SInit PROVE SecretInv
  OBVIOUS
<1> USE DEF SInit
<1>1. SecretTypes
  <2>1. IsFiniteSet(items)
    BY FS_EmptySet
  <2> QED
    BY <2>1 DEF SecretTypes, Rotations, SecretAssumption, NoRotation, Idle, Operations, Open, KeyStates
<1>2. FreshIsUnused /\ NoncesAgree /\ Bindings
  BY DEF FreshIsUnused, NoncesAgree, Bindings, NoRotation
<1>3. OpenRotations = {} /\ Current = {}
  BY DEF OpenRotations, Current, NoRotation, Open
<1>4. OneOpen /\ RotationsAgree /\ CountIsExact
  BY <1>3 DEF OneOpen, RotationsAgree, CountIsExact
<1>5. ActiveIsReadable /\ OperationAgrees /\ NothingLeft
  BY DEF ActiveIsReadable, Active, OperationAgrees, NothingLeft, Dropped, Idle
<1> QED
  BY <1>1, <1>2, <1>4, <1>5 DEF SecretInv, Rows

LEMMA RowsStand == Rows /\ UNCHANGED <<keyVars, contentVars>> => Rows'
<1> SUFFICES ASSUME Rows, UNCHANGED <<keyVars, contentVars>> PROVE Rows'
  OBVIOUS
<1> USE DEF Rows, keyVars, contentVars
<1>1. OpenRotations' = OpenRotations /\ Current' = Current
  BY DEF OpenRotations, Current
<1>2. \A k : Pending(k)' = Pending(k) /\ ItemsOf(k)' = ItemsOf(k)
  BY DEF Pending, ItemsOf
<1>3. \A o : Active(o)' = Active(o)
  BY DEF Active
<1>4. FreshIsUnused' /\ NoncesAgree' /\ Bindings'
  BY DEF FreshIsUnused, NoncesAgree, Bindings
<1>5. OneOpen'
  BY <1>1 DEF OneOpen
<1>6. RotationsAgree'
  BY <1>1, <1>2, <1>3 DEF RotationsAgree
<1>7. CountIsExact'
  BY <1>1, <1>2, <1>3 DEF CountIsExact
<1> QED
  BY <1>4, <1>5, <1>6, <1>7

-----------------------------------------------------------------------------
(* Types. *)

(* What the operation is, by what it does, and its next step.              *)
LEMMA OperationTyped ==
  ASSUME op \in Operations
  PROVE  /\ op.do = "admit" => op.it \in Requests /\ op.at \in {"write", "commit"}
         /\ op.do = "resume" => op.it \in Keys /\ op.at \in
              {"next", "last", "reserve", "write", "commit", "finalize"}
         /\ op.do = "purge" => op.it \in Owners /\ op.at = "register"
         /\ op.do = "maintain" => op.it = 0 /\ op.at \in {"backups", "done"}
         /\ op.do = "idle" => op.at = "idle"
         /\ op.do \in {"idle", "admit", "resume", "purge", "maintain"}
BY DEF Operations, Idle

LEMMA BoundToKey ==
  ASSUME SecretAssumption, SecretTypes
  PROVE  \A o \in Owners : bound[o] # 0 => bound[o] \in Keys
BY DEF SecretAssumption, SecretTypes, Keys

LEMMA OperationGoes ==
  ASSUME op \in Operations, NEW at, op' = [op EXCEPT !.at = at],
         \/ op.do = "admit" /\ at = "commit"
         \/ op.do = "resume" /\ at \in {"next", "last", "reserve", "write", "commit", "finalize"}
         \/ op.do = "maintain" /\ at = "done"
  PROVE  op' \in Operations /\ op'.do = op.do /\ op'.it = op.it /\ op'.at = at
<1>1. CASE op.do = "admit"
  BY <1>1 DEF Operations, Idle
<1>2. CASE op.do = "resume"
  BY <1>2 DEF Operations, Idle
<1>3. CASE op.do = "maintain"
  BY <1>3 DEF Operations, Idle
<1> QED
  BY <1>1, <1>2, <1>3

LEMMA IdleTyped == Idle \in Operations /\ Idle.do = "idle" /\ Idle.at = "idle"
BY DEF Operations, Idle

LEMMA SecretTypesStep ==
  ASSUME SecretAssumption, SecretTypes, [SNext]_secretVars
  PROVE  SecretTypes'
<1> USE DEF SecretTypes, keyVars, contentVars, storeVars, backupVars, Running, Go
<1>a. /\ op.do = "admit" => op.it \in Requests
      /\ op.do = "resume" => op.it \in Keys
      /\ op.do = "purge" => op.it \in Owners
  BY OperationTyped
<1>b. Keys \subseteq 0..MaxKeys
  BY DEF Keys, SecretAssumption
<1>c. \A n \in Keys, s \in {"aborted", "blocked", "completed"} :
        [rotation[n] EXCEPT !.state = s] \in Rotations
  BY DEF Rotations, Open
<1>1. CASE InstallKey
  BY <1>1, 1 \in Keys DEF InstallKey, KeyStates, Keys, SecretAssumption
<1>2. ASSUME NEW r \in Requests, Admit(r) PROVE SecretTypes'
  <2>1. \A k \in Current : Nonce(r, k) \in Nonces
    BY DEF Nonce, Nonces, Current, SecretAssumption
  <2>2. [do |-> "admit", it |-> r, at |-> "write"] \in Operations
    BY DEF Operations
  <2> QED
    BY <1>2, <2>1, <2>2 DEF Admit
<1>3. CASE AdmitWrite
  <2>1. ASSUME NEW x \in reservations, x.by = op.it, Go("commit"), op.do = "admit",
               files' = files \cup {<<x.owner, x.key>>}
        PROVE  files' \subseteq Owners \X Keys /\ op' \in Operations
    <3>1. x \in Nonces
      OBVIOUS
    <3>2. op' \in Operations
      BY <2>1, OperationGoes
    <3> QED
      BY <2>1, <3>1, <3>2 DEF Nonces
  <2> QED
    BY <1>3, <2>1, IdleTyped DEF AdmitWrite
<1>4. CASE AdmitCommit
  <2>1. PICK x \in reservations : 
           /\ x.by = op.it
           /\ IF bound[x.owner] = 0
              THEN /\ content' = [content EXCEPT ![x.owner][x.key] = "live"]
                   /\ bound' = [bound EXCEPT ![x.owner] = x.key]
                   /\ reservations' = (reservations \ {x}) \cup {[x EXCEPT !.state = "committed"]}
              ELSE UNCHANGED <<content, bound, reservations>>
    BY <1>4 DEF AdmitCommit
  <2>2. x.owner \in Owners /\ x.key \in Keys /\ [x EXCEPT !.state = "committed"] \in Nonces
    BY DEF Nonces
  <2>3. [content[x.owner] EXCEPT ![x.key] = "live"] \in [Keys -> {"none", "live", "retired", "deleted"}]
    BY <2>2
  <2>4. content' \in [Owners -> [Keys -> {"none", "live", "retired", "deleted"}]]
    BY <2>1, <2>2, <2>3
  <2>5. bound' \in [Owners -> 0..MaxKeys] /\ reservations' \subseteq Nonces
    BY <1>b, <2>1, <2>2
  <2> QED
    BY <1>4, <2>4, <2>5, IdleTyped DEF AdmitCommit
<1>5. CASE BeginRotation
  <2>1. PICK c \in Current, k \in Fresh : 
           /\ keys' = [keys EXCEPT ![k] = "rotating_to"]
           /\ rotation' = [rotation EXCEPT ![k] =
                [state |-> "in_progress", old |-> c,
                 total |-> Cardinality(ItemsUnder(c, k)), rewritten |-> 0]]
           /\ items' = items \cup ItemsUnder(c, k)
    BY <1>5 DEF BeginRotation
  <2>2. k \in Keys /\ c \in Keys /\ c \in 0..MaxKeys
    BY <1>b DEF Current, Fresh
  <2>3. ItemsUnder(c, k) \subseteq Items /\ IsFiniteSet(ItemsUnder(c, k))
    <3> DEFINE O == {o \in Owners : Active(o) /\ bound[o] = c}
    <3>1. IsFiniteSet(O)
      BY FS_Subset, O \subseteq Owners DEF SecretAssumption
    <3> DEFINE f == [o \in O |-> [rot |-> k, owner |-> o, old |-> c, done |-> FALSE]]
    <3>2. f \in Surjection(O, ItemsUnder(c, k))
      BY DEF ItemsUnder, Surjection
    <3>3. IsFiniteSet(ItemsUnder(c, k))
      BY <3>1, <3>2, FS_Surjection
    <3>4. \A o \in O : [rot |-> k, owner |-> o, old |-> c, done |-> FALSE] \in Items
      BY <2>2 DEF Items
    <3>5. ItemsUnder(c, k) \subseteq Items
      BY <3>4 DEF ItemsUnder
    <3> QED
      BY <3>3, <3>5
  <2>4. Cardinality(ItemsUnder(c, k)) \in Nat
    BY <2>3, FS_CardinalityType
  <2>5. items' \subseteq Items /\ IsFiniteSet(items')
    BY <2>1, <2>3, FS_Union
  <2>6. rotation' \in [Keys -> Rotations]
    BY <2>1, <2>2, <2>4 DEF Rotations, Open
  <2>7. keys' \in [Keys -> KeyStates]
    BY <2>1, <2>2 DEF KeyStates
  <2> QED
    BY <1>5, <2>5, <2>6, <2>7 DEF BeginRotation
<1>6. ASSUME NEW k \in Keys, Resume(k) PROVE SecretTypes'
  <2>1. [do |-> "resume", it |-> k, at |-> "next"] \in Operations
    BY DEF Operations
  <2> QED
    BY <1>6, <2>1 DEF Resume
<1>7. CASE Complete
  <2>1. rotation' \in [Keys -> Rotations] /\ keys' \in [Keys -> KeyStates]
    <3>1. op.it \in Keys
      BY <1>7, <1>a DEF Complete
    <3>2. keys' \in [Keys -> KeyStates]
      BY <1>7 DEF Complete, KeyStates
    <3>3. rotation' \in [Keys -> Rotations]
      BY <1>7, <1>c, <3>1 DEF Complete
    <3> QED
      BY <3>2, <3>3
  <2> QED
    BY <1>7, <2>1, IdleTyped DEF Complete
<1>8. CASE Stop
  BY <1>8, IdleTyped DEF Stop
<1>9. CASE UseAuthority
  <2>1. \A i \in NextItem(op.it) : <<i.rot, i.owner>> \in Keys \X Owners
    BY DEF NextItem, Pending, ItemsOf, Items
  <2>2. Go("reserve") /\ op.do = "resume" => op' \in Operations
    BY OperationGoes
  <2> QED
    BY <1>9, <2>1, <2>2, IdleTyped DEF UseAuthority
<1>10. CASE RotReserve
  <2>1. \A i \in NextItem(op.it) :
          [owner |-> i.owner, key |-> op.it, by |-> "rotation", state |-> "prepared"] \in Nonces
    BY <1>10, <1>a DEF NextItem, Pending, ItemsOf, Items, Nonces, RotReserve
  <2>2. op' \in Operations
    BY <1>10, OperationGoes DEF RotReserve
  <2> QED
    BY <1>10, <2>1, <2>2 DEF RotReserve
<1>11. CASE RotWrite
  <2>1. \A i \in NextItem(op.it) : <<i.owner, op.it>> \in Owners \X Keys
    BY <1>11, <1>a DEF NextItem, Pending, ItemsOf, Items, RotWrite
  <2>2. op' \in Operations
    BY <1>11, OperationGoes DEF RotWrite
  <2> QED
    BY <1>11, <2>1, <2>2 DEF RotWrite
<1>12. CASE RotFinalize
  <2>1. op' \in Operations
    BY <1>12, OperationGoes DEF RotFinalize
  <2> QED
    BY <1>12, <2>1 DEF RotFinalize, Dropped
<1>13. ASSUME NEW k \in Keys, Abort(k) \/ Revoke(k) PROVE SecretTypes'
  <2>1. keys' \in [Keys -> KeyStates]
    BY <1>13 DEF Abort, Revoke, KeyStates
  <2>2. Abort(k) => rotation' \in [Keys -> Rotations]
    BY <1>c DEF Abort
  <2>3. Revoke(k) => rotation' \in [Keys -> Rotations]
    <3>1. \A n \in Keys : rotation[n] \in Rotations /\ [rotation[n] EXCEPT !.state = "blocked"] \in Rotations
      BY <1>c
    <3> QED
      BY <3>1 DEF Revoke
  <2> QED
    BY <1>13, <2>1, <2>2, <2>3 DEF Abort, Revoke
<1>14. ASSUME NEW o \in Owners, Purge(o) PROVE SecretTypes'
  <2>1. [do |-> "purge", it |-> o, at |-> "register"] \in Operations
    BY DEF Operations
  <2> QED
    BY <1>14, <2>1 DEF Purge
<1>15. CASE PurgeCommit
  <2>1. [do |-> "maintain", it |-> 0, at |-> "backups"] \in Operations
    BY DEF Operations
  <2>2. op.it \in Owners
    BY <1>15, <1>a DEF PurgeCommit
  <2>3. \A x \in reservations : x \in Nonces /\ Retire(x) \in Nonces
    BY DEF Retire, Nonces
  <2>4. reservations' \subseteq Nonces
    BY <1>15, <2>3 DEF PurgeCommit
  <2>5. content' \in [Owners -> [Keys -> {"none", "live", "retired", "deleted"}]]
    BY <1>15, <2>2 DEF PurgeCommit
  <2>6. items' \subseteq Items /\ IsFiniteSet(items')
    BY <1>15, FS_Subset DEF PurgeCommit
  <2> QED
    BY <1>15, <2>1, <2>2, <2>4, <2>5, <2>6 DEF PurgeCommit
<1>16. CASE Maintain
  <2>1. [do |-> "maintain", it |-> 0, at |-> "backups"] \in Operations
    BY DEF Operations
  <2> QED
    BY <1>16, <2>1 DEF Maintain
<1>17. ASSUME NEW b \in Backups, RegisterIntent(b) \/ RemoveBackup(b) PROVE SecretTypes'
  BY <1>17 DEF RegisterIntent, RemoveBackup, Forgotten
<1>18. CASE RemoveFiles
  <2>1. op' \in Operations
    BY <1>18, OperationGoes DEF RemoveFiles
  <2> QED
    BY <1>18, <2>1 DEF RemoveFiles, Dropped
<1>19. CASE Maintained
  BY <1>19, IdleTyped DEF Maintained
<1>20. ASSUME NEW b \in Backups, Backup(b) PROVE SecretTypes'
  BY <1>20 DEF Backup
<1>21. CASE Fail
  <2>1. faults' \in 0..MaxFaults
    BY <1>21 DEF Fail, SecretAssumption
  <2> QED
    BY <1>21, <2>1, IdleTyped DEF Fail, Forgotten
<1>22. CASE RotCommit
  <2>1. PICK i \in NextItem(op.it) : 
           /\ content' = [content EXCEPT ![i.owner][op.it] = "live", ![i.owner][i.old] = "retired"]
           /\ bound' = [bound EXCEPT ![i.owner] = op.it]
           /\ reservations' = {IF x.owner = i.owner /\ x.key = i.old THEN Retire(x)
                               ELSE IF x.owner = i.owner /\ x.key = op.it
                               THEN [x EXCEPT !.state = "committed"] ELSE x : x \in reservations}
           /\ items' = (items \ {i}) \cup {[i EXCEPT !.done = TRUE]}
    BY <1>22 DEF RotCommit
  <2>2. op.it \in Keys /\ i \in Items /\ i \in items
    BY <1>22, <1>a DEF RotCommit, NextItem, Pending, ItemsOf
  <2>3. i.owner \in Owners /\ i.old \in Keys /\ [i EXCEPT !.done = TRUE] \in Items
    BY <2>2 DEF Items
  <2> DEFINE row == [content[i.owner] EXCEPT ![op.it] = "live"]
  <2>4. row \in [Keys -> {"none", "live", "retired", "deleted"}]
    BY <2>2, <2>3
  <2>5. [row EXCEPT ![i.old] = "retired"] \in [Keys -> {"none", "live", "retired", "deleted"}]
    BY <2>3, <2>4
  <2>6. content' = [content EXCEPT ![i.owner] = [row EXCEPT ![i.old] = "retired"]]
    BY <2>1, <2>3, <2>2
  <2>7. content' \in [Owners -> [Keys -> {"none", "live", "retired", "deleted"}]]
    BY <2>3, <2>5, <2>6
  <2>8. \A x \in Nonces : Retire(x) \in Nonces /\ [x EXCEPT !.state = "committed"] \in Nonces
    BY DEF Nonces, Retire
  <2>9. reservations' \subseteq Nonces
    BY <2>1, <2>8
  <2>10. items' \subseteq Items /\ IsFiniteSet(items')
    BY <2>1, <2>3, FS_RemoveElement, FS_AddElement
  <2>11. rotation' \in [Keys -> Rotations]
    <3>1. \A n \in Keys : Counted(n) \in Rotations
      <4> SUFFICES ASSUME NEW n \in Keys PROVE [rotation[n] EXCEPT !.rewritten = @ + 1] \in Rotations
        BY DEF Counted
      <4>1. rotation[n] \in Rotations /\ rotation[n].rewritten \in Nat
        BY DEF Rotations
      <4>2. rotation[n].rewritten + 1 \in Nat
        BY <4>1
      <4> QED
        BY <4>1, <4>2 DEF Rotations
    <3> QED
      BY <1>22, <2>2, <3>1 DEF RotCommit
  <2>12. bound' \in [Owners -> 0..MaxKeys]
    BY <1>b, <2>1, <2>2
  <2>13. op' \in Operations
    BY <1>22, OperationGoes DEF RotCommit
  <2> QED
    BY <1>22, <2>7, <2>9, <2>10, <2>11, <2>12, <2>13 DEF RotCommit
<1>23. CASE UNCHANGED secretVars
  BY <1>23 DEF secretVars
<1> QED
  BY <1>1, <1>2, <1>3, <1>4, <1>5, <1>6, <1>7, <1>8, <1>9, <1>10, <1>11, <1>12, <1>13, <1>14,
     <1>15, <1>16, <1>17, <1>18, <1>19, <1>20, <1>21, <1>22, <1>23 DEF SNext, Proceed

-----------------------------------------------------------------------------
(* What the rows agree on, at the steps that change them. *)

(* Rotations that stay open, over owners and items that stay.              *)
LEMMA CountsStand ==
  ASSUME CountIsExact, UNCHANGED <<items, bound, purged>>, OpenRotations' \subseteq OpenRotations,
         \A k \in OpenRotations' : /\ rotation'[k].total = rotation[k].total
                                   /\ rotation'[k].rewritten = rotation[k].rewritten
                                   /\ rotation'[k].old = rotation[k].old
  PROVE  CountIsExact'
<1>1. \A k : Pending(k)' = Pending(k) /\ ItemsOf(k)' = ItemsOf(k)
  BY DEF Pending, ItemsOf
<1>2. \A o : Active(o)' = Active(o)
  BY DEF Active
<1> QED
  BY <1>1, <1>2 DEF CountIsExact

LEMMA RotationsStand ==
  ASSUME RotationsAgree, UNCHANGED <<items, bound, purged, content>>,
         OpenRotations' \subseteq OpenRotations,
         \A k \in OpenRotations' : rotation'[k].old = rotation[k].old /\ keys'[k] \in {keys[k], "revoked"},
         \A x \in reservations' : x \in reservations \/ \A k \in OpenRotations' : x.key = k => x.by = "rotation"
  PROVE  RotationsAgree'
<1>1. \A k : ItemsOf(k)' = ItemsOf(k)
  BY DEF ItemsOf
<1>2. \A o : Active(o)' = Active(o)
  BY DEF Active
<1> SUFFICES ASSUME NEW k \in OpenRotations' PROVE RotationsAgree!(k)'
  BY DEF RotationsAgree
<1> QED
  BY <1>1, <1>2 DEF RotationsAgree

LEMMA RowsOfInstallKey ==
  ASSUME SecretAssumption, SecretTypes, Rows, InstallKey
  PROVE  Rows'
<1> USE DEF InstallKey, Rows, contentVars
<1>1. 1 \in Keys /\ \A k \in Keys : keys[k] = "none"
  BY DEF SecretAssumption, Keys, Fresh
<1>2. \A k \in Keys : keys'[k] = IF k = 1 THEN "current" ELSE "none"
  BY <1>1 DEF SecretTypes
<1>3. OpenRotations = {} /\ OpenRotations' = {} /\ reservations = {} /\ items = {}
  BY <1>1 DEF FreshIsUnused, OpenRotations, Open, SecretTypes, Nonces, Items
<1>4. FreshIsUnused'
  BY <1>1, <1>2 DEF FreshIsUnused
<1>5. NoncesAgree' /\ Bindings'
  BY DEF NoncesAgree, Bindings
<1>6. OneOpen'
  BY <1>2, <1>3 DEF OneOpen, Current
<1>7. RotationsAgree' /\ CountIsExact'
  BY <1>3 DEF RotationsAgree, CountIsExact
<1> QED
  BY <1>4, <1>5, <1>6, <1>7

LEMMA RowsOfAdmit ==
  ASSUME SecretAssumption, SecretTypes, Rows, NEW r \in Requests, Admit(r)
  PROVE  Rows'
<1> USE DEF Rows, keyVars
<1>1. PICK k \in Current : /\ TakenUp(r, k) \/ Reservable(r, k)
                           /\ reservations' = reservations \cup {Nonce(r, k)}
  BY DEF Admit
<1>2. CASE TakenUp(r, k)
  <2>1. reservations' = reservations
    BY <1>1, <1>2 DEF TakenUp
  <2> QED
    BY <2>1, RowsStand DEF Admit, contentVars
<1>3. CASE Reservable(r, k)
  <2> DEFINE z == Nonce(r, k)
  <2>1. /\ z.owner = OwnerOf[r] /\ z.key = k /\ z.by = r /\ z.state = "prepared"
        /\ z.owner \in Owners /\ k \in Keys /\ keys[k] = "current"
    BY DEF Nonce, SecretAssumption, Current
  <2> HIDE DEF z
  <2>2. \A n \in Keys : keys[n] # "rotating_to"
    BY <1>3 DEF Reservable
  <2>3. \A x \in reservations : x.by # r /\ ~(x.owner = z.owner /\ x.key = k)
    BY <1>3, <2>1 DEF Reservable
  <2>4. reservations' = reservations \cup {z}
    BY <1>1 DEF z
  <2>5. UNCHANGED <<keys, rotation, items, content, bound, purged>>
    BY DEF Admit
  <2>6. content[z.owner][k] = "none"
    BY <2>1, <2>3 DEF NoncesAgree
  <2>7. FreshIsUnused'
    BY <2>1, <2>4, <2>5 DEF FreshIsUnused
  <2>8. NoncesAgree'
    BY <2>1, <2>3, <2>4, <2>5, <2>6 DEF NoncesAgree
  <2>9. Bindings' /\ OneOpen'
    BY <2>5 DEF Bindings, OneOpen, Current, OpenRotations
  <2>10. OpenRotations' = OpenRotations /\ k \notin OpenRotations
    BY <2>1, <2>5 DEF OpenRotations, RotationsAgree
  <2>11. RotationsAgree' /\ CountIsExact'
    BY <2>1, <2>4, <2>5, <2>10, RotationsStand, CountsStand
  <2> QED
    BY <2>7, <2>8, <2>9, <2>11
<1> QED
  BY <1>1, <1>2, <1>3

(* The admission that runs has one nonce, and it is committed now if it is *)
(* the first content of its owner.                                         *)
LEMMA RowsOfAdmitCommit ==
  ASSUME SecretAssumption, SecretTypes, Rows, OperationAgrees, AdmitCommit
  PROVE  Rows'
<1> USE DEF Rows, keyVars
<1>1. PICK x \in reservations :
           /\ x.by = op.it
           /\ IF bound[x.owner] = 0
              THEN /\ content' = [content EXCEPT ![x.owner][x.key] = "live"]
                   /\ bound' = [bound EXCEPT ![x.owner] = x.key]
                   /\ reservations' = (reservations \ {x}) \cup {[x EXCEPT !.state = "committed"]}
              ELSE UNCHANGED <<content, bound, reservations>>
  BY DEF AdmitCommit
<1>2. CASE bound[x.owner] # 0
  BY <1>1, <1>2, RowsStand DEF AdmitCommit, contentVars
<1>3. CASE bound[x.owner] = 0
  <2>1. op.it \in Requests /\ op.at = "commit" /\ op.do = "admit"
    BY OperationTyped DEF AdmitCommit, Running, SecretTypes
  <2>2. /\ x.owner \in Owners /\ x.key \in Keys /\ x.by \in Requests /\ x \in Nonces
    BY <1>1, <2>1 DEF SecretTypes, Nonces
  <2>3. x.key \in Current /\ OpenRotations = {}
    BY <1>1, <2>1 DEF OperationAgrees, MayCommit
  <2> DEFINE z == [x EXCEPT !.state = "committed"]
  <2>4. z.owner = x.owner /\ z.key = x.key /\ z.by = x.by /\ z.state = "committed"
    BY <2>2 DEF Nonces
  <2>5. reservations' = (reservations \ {x}) \cup {z}
    BY <1>1, <1>3
  <2> HIDE DEF z
  <2>6. \A o \in Owners, k \in Keys :
          content'[o][k] = IF o = x.owner /\ k = x.key THEN "live" ELSE content[o][k]
    BY <1>1, <1>3, <2>2 DEF SecretTypes
  <2>7. \A o \in Owners : bound'[o] = IF o = x.owner THEN x.key ELSE bound[o]
    BY <1>1, <1>3, <2>2 DEF SecretTypes
  <2>8. UNCHANGED <<keys, rotation, items, purged>>
    BY DEF AdmitCommit
  <2>9. x.owner \notin purged /\ x.key # 0 /\ keys[x.key] = "current"
    BY <1>3, <2>2, <2>3 DEF Bindings, Current, Keys
  <2>10. FreshIsUnused'
    BY <2>2, <2>4, <2>5, <2>6, <2>8, <2>9 DEF FreshIsUnused
  <2>11. NoncesAgree'
    <3>1. \A w \in reservations : w.owner \in Owners /\ w.key \in Keys
      BY DEF SecretTypes, Nonces
    <3>2. \A w \in reservations : (w.owner = x.owner /\ w.key = x.key) => w = x
      BY <2>2 DEF NoncesAgree
    <3>3. \A w \in reservations' : w.state = "prepared" <=> content'[w.owner][w.key] = "none"
      BY <2>2, <2>4, <2>5, <2>6, <3>1, <3>2 DEF NoncesAgree
    <3>4. \A v, w \in reservations' :
            v.by \in Requests /\ (w.by = v.by \/ (w.owner = v.owner /\ w.key = v.key)) => w = v
      BY <2>2, <2>4, <2>5, <3>1, <3>2 DEF NoncesAgree
    <3>5. \A o \in Owners, k \in Keys : content'[o][k] # "none" =>
            \E w \in reservations' : w.owner = o /\ w.key = k
      BY <2>2, <2>4, <2>5, <2>6 DEF NoncesAgree
    <3> QED
      BY <3>3, <3>4, <3>5 DEF NoncesAgree
  <2>12. Bindings'
    BY <2>2, <2>6, <2>7, <2>8, <2>9, BoundToKey DEF Bindings
  <2>13. OpenRotations' = OpenRotations /\ Current' = Current
    BY <2>8 DEF OpenRotations, Current
  <2>14. OneOpen' /\ RotationsAgree' /\ CountIsExact'
    BY <2>3, <2>8, <2>13 DEF OneOpen, RotationsAgree, CountIsExact
  <2> QED
    BY <2>10, <2>11, <2>12, <2>14
<1> QED
  BY <1>2, <1>3

LEMMA RowsOfBegin ==
  ASSUME SecretAssumption, SecretTypes, Rows, BeginRotation
  PROVE  Rows'
<1> USE DEF Rows
<1>1. PICK c \in Current, k \in Fresh :
           /\ keys' = [keys EXCEPT ![k] = "rotating_to"]
           /\ rotation' = [rotation EXCEPT ![k] =
                [state |-> "in_progress", old |-> c,
                 total |-> Cardinality(ItemsUnder(c, k)), rewritten |-> 0]]
           /\ items' = items \cup ItemsUnder(c, k)
  BY DEF BeginRotation
<1> DEFINE mine == ItemsUnder(c, k)
<1>2. c \in Keys /\ k \in Keys /\ keys[k] = "none" /\ keys[c] = "current" /\ k # c
  BY DEF Current, Fresh
<1>3. OpenRotations = {} /\ \A n \in Keys : keys[n] # "rotating_to"
  BY DEF BeginRotation
<1>4. UNCHANGED <<reservations, content, bound, purged>>
  BY DEF BeginRotation
<1>5. \A n \in Keys : keys'[n] = IF n = k THEN "rotating_to" ELSE keys[n]
  BY <1>1, <1>2 DEF SecretTypes
<1>6. /\ rotation'[k].state = "in_progress" /\ rotation'[k].old = c
      /\ rotation'[k].total = Cardinality(mine) /\ rotation'[k].rewritten = 0
      /\ \A n \in Keys \ {k} : rotation'[n] = rotation[n]
  BY <1>1, <1>2 DEF SecretTypes
<1>7. OpenRotations' = {k}
  BY <1>2, <1>3, <1>6 DEF OpenRotations, Open
<1>8. \A i \in mine : /\ i.rot = k /\ i.old = c /\ ~i.done
                      /\ i.owner \in Owners /\ Active(i.owner) /\ bound[i.owner] = c
                      /\ i = [rot |-> k, owner |-> i.owner, old |-> c, done |-> FALSE]
  BY DEF ItemsUnder
<1>9. \A o \in Owners : Active(o) /\ bound[o] = c => \E i \in mine : i.owner = o
  <2> SUFFICES ASSUME NEW o \in Owners, Active(o), bound[o] = c PROVE \E i \in mine : i.owner = o
    OBVIOUS
  <2> DEFINE i == [rot |-> k, owner |-> o, old |-> c, done |-> FALSE]
  <2> QED
    BY i \in mine, i.owner = o DEF ItemsUnder
<1> HIDE DEF mine
<1>10. \A i \in items : i.rot # k
  BY <1>2 DEF FreshIsUnused
<1>11. items' = items \cup mine
  BY <1>1 DEF mine
<1>12. ItemsOf(k)' = mine /\ Pending(k)' = mine
  BY <1>8, <1>10, <1>11 DEF ItemsOf, Pending
<1>13. \A o : Active(o)' = Active(o)
  BY <1>4 DEF Active
<1>14. FreshIsUnused'
  BY <1>2, <1>4, <1>5, <1>6, <1>8, <1>11 DEF FreshIsUnused
<1>15. NoncesAgree' /\ Bindings'
  BY <1>4 DEF NoncesAgree, Bindings
<1>16. OneOpen'
  <2>1. Current' = Current
    BY <1>2, <1>5 DEF Current
  <2> QED
    BY <2>1, <1>2, <1>3, <1>5, <1>6, <1>7 DEF OneOpen
<1>17. RotationsAgree'
  <2>1. \A x \in reservations : x.key # k
    BY <1>2 DEF FreshIsUnused
  <2>2. \A o \in Owners : content[o][k] = "none"
    BY <1>2 DEF FreshIsUnused
  <2>3. \A o \in Owners : Active(o) => bound[o] # k
    BY <2>2 DEF Active, Bindings
  <2>4. \A i \in mine : i.old = c /\ \A j \in mine : i.owner = j.owner => i = j
    BY <1>8
  <2> QED
    BY <1>2, <1>4, <1>5, <1>6, <1>7, <1>12, <1>13, <2>1, <2>2, <2>3, <2>4 DEF RotationsAgree
<1>18. CountIsExact'
  <2>1. Cardinality(mine \ mine) = 0
    BY FS_EmptySet, mine \ mine = {}
  <2> QED
    BY <1>4, <1>6, <1>7, <1>8, <1>9, <1>12, <1>13, <2>1 DEF CountIsExact
<1> QED
  BY <1>14, <1>15, <1>16, <1>17, <1>18

(* Nothing is bound to the old key when a rotation completes.              *)
LEMMA RowsOfComplete ==
  ASSUME SecretAssumption, SecretTypes, Rows, OperationAgrees, Complete
  PROVE  Rows'
<1> USE DEF Rows
<1> DEFINE k == op.it
           old == rotation[k].old
<1>1. op.do = "resume" /\ k \in Keys /\ Pending(k) = {} /\ UNCHANGED contentVars
  BY OperationTyped DEF Complete, SecretTypes
<1>2. rotation[k].state = "in_progress" /\ k \in OpenRotations
  BY <1>1 DEF OperationAgrees, OpenRotations, Open
<1>3. CASE UNCHANGED keyVars
  BY <1>1, <1>3, RowsStand
<1>4. CASE ~UNCHANGED keyVars
  <2>1. /\ keys' = [keys EXCEPT ![old] = "retired", ![k] = "current"]
        /\ rotation' = [rotation EXCEPT ![k].state = "completed"]
    BY <1>4 DEF Complete
  <2>2. old \in Keys \ {k}
    BY <1>2 DEF RotationsAgree
  <2>3. \A n \in Keys : keys'[n] = IF n = k THEN "current" ELSE IF n = old THEN "retired" ELSE keys[n]
    BY <1>1, <2>1, <2>2 DEF SecretTypes
  <2>4. /\ \A n \in Keys \ {k} : rotation'[n] = rotation[n]
        /\ rotation'[k].state = "completed" /\ rotation'[k].old = old
    BY <1>1, <2>1 DEF SecretTypes, Rotations
  <2> HIDE DEF k, old
  <2>5. UNCHANGED <<items, reservations, content, bound, purged>>
    BY <1>1 DEF contentVars
  <2>6. \A n \in OpenRotations : n = k
    BY <1>2 DEF OneOpen
  <2>7. OpenRotations' = {}
    BY <2>4, <2>6 DEF OpenRotations, Open
  <2>8. keys[k] # "none" /\ keys[old] = "current"
    BY <1>2, <1>1, <2>2 DEF OneOpen, old
  <2>9. FreshIsUnused'
    BY <2>2, <2>3, <2>4, <2>5, <2>8, <1>1 DEF FreshIsUnused
  <2>10. NoncesAgree' /\ Bindings'
    BY <2>5 DEF NoncesAgree, Bindings
  <2>11. OneOpen'
    <3>1. \A n \in Current : n = old
      BY <2>2, <2>8 DEF OneOpen, Current
    <3>2. \A n \in Current' : n = k
      BY <2>3, <3>1 DEF Current
    <3>3. \A n \in Keys : keys'[n] # "rotating_to"
      BY <2>3, <2>6 DEF OneOpen
    <3> QED
      BY <2>7, <3>2, <3>3 DEF OneOpen
  <2>12. RotationsAgree' /\ CountIsExact'
    BY <2>7 DEF RotationsAgree, CountIsExact
  <2> QED
    BY <2>9, <2>10, <2>11, <2>12
<1> QED
  BY <1>3, <1>4

LEMMA RowsOfReserve ==
  ASSUME SecretAssumption, SecretTypes, Rows, OperationAgrees, RotReserve
  PROVE  Rows'
<1> USE DEF Rows
<1> DEFINE k == op.it
<1>1. PICK i \in NextItem(k) : reservations' = reservations \cup
        {[owner |-> i.owner, key |-> k, by |-> "rotation", state |-> "prepared"]}
  BY DEF RotReserve
<1> DEFINE z == [owner |-> i.owner, key |-> k, by |-> "rotation", state |-> "prepared"]
<1>2. /\ op.do = "resume" /\ k \in Keys
      /\ UNCHANGED <<keys, rotation, items, content, bound, purged>>
  BY OperationTyped DEF RotReserve, Running, SecretTypes, keyVars
<1>3. rotation[k].state = "in_progress" /\ k \in OpenRotations
  BY <1>2 DEF OperationAgrees, OpenRotations, Open
<1>4. i \in ItemsOf(k) /\ i.owner \in Owners /\ ~i.done /\ i.old = rotation[k].old /\ i.old # k
  BY <1>3 DEF NextItem, Pending, ItemsOf, SecretTypes, Items, RotationsAgree
<1>5. z.owner = i.owner /\ z.key = k /\ z.by = "rotation" /\ z.state = "prepared"
  OBVIOUS
<1> HIDE DEF z, k
<1>6. reservations' = reservations \cup {z}
  BY <1>1 DEF z
<1>7. content[i.owner][k] = "none"
  <2>1. bound[i.owner] # k
    BY <1>3, <1>4 DEF CountIsExact
  <2> QED
    BY <1>3, <1>4, <2>1 DEF RotationsAgree
<1>8. "rotation" \notin Requests /\ \A x \in reservations : x.key = k => x.by = "rotation"
  BY <1>3 DEF SecretAssumption, RotationsAgree
<1>9. FreshIsUnused'
  BY <1>2, <1>3, <1>5, <1>6 DEF FreshIsUnused, Open
<1>10. NoncesAgree'
  <2>1. \A x \in reservations' : x.state = "prepared" <=> content[x.owner][x.key] = "none"
    BY <1>5, <1>6, <1>7 DEF NoncesAgree
  <2>2. \A x, y \in reservations' :
          x.by \in Requests /\ (y.by = x.by \/ (y.owner = x.owner /\ y.key = x.key)) => y = x
    BY <1>5, <1>6, <1>8 DEF NoncesAgree
  <2> QED
    BY <1>2, <1>6, <2>1, <2>2 DEF NoncesAgree
<1>11. Bindings' /\ OneOpen'
  BY <1>2 DEF Bindings, OneOpen, Current, OpenRotations
<1>12. OpenRotations' = OpenRotations
  BY <1>2 DEF OpenRotations
<1>13. RotationsAgree' /\ CountIsExact'
  BY <1>2, <1>5, <1>6, <1>12, RotationsStand, CountsStand
<1> QED
  BY <1>9, <1>10, <1>11, <1>13

LEMMA RowsOfAbort ==
  ASSUME SecretAssumption, SecretTypes, Rows, NEW k \in Keys, Abort(k)
  PROVE  Rows'
<1> USE DEF Rows
<1>1. /\ keys[k] \in {"rotating_to", "revoked"} /\ k \in OpenRotations
      /\ UNCHANGED <<items, reservations, content, bound, purged>>
  BY DEF Abort, contentVars, OpenRotations
<1>2. \A n \in Keys : keys'[n] = IF n = k /\ keys[n] = "rotating_to" THEN "unavailable" ELSE keys[n]
  BY DEF Abort, SecretTypes
<1>3. rotation'[k].state = "aborted" /\ \A n \in Keys \ {k} : rotation'[n] = rotation[n]
  BY DEF Abort, SecretTypes, Rotations
<1>4. \A n \in OpenRotations : n = k
  BY <1>1 DEF OneOpen
<1>5. OpenRotations' = {} /\ Current' = Current
  BY <1>1, <1>2, <1>3, <1>4 DEF OpenRotations, Open, Current
<1>6. FreshIsUnused'
  BY <1>1, <1>2, <1>3 DEF FreshIsUnused
<1>7. NoncesAgree' /\ Bindings'
  BY <1>1 DEF NoncesAgree, Bindings
<1>8. OneOpen'
  BY <1>2, <1>4, <1>5 DEF OneOpen
<1>9. RotationsAgree' /\ CountIsExact'
  BY <1>5 DEF RotationsAgree, CountIsExact
<1> QED
  BY <1>6, <1>7, <1>8, <1>9

(* A revocation blocks the rotations in progress to or from the key.       *)
LEMMA RowsOfRevoke ==
  ASSUME SecretAssumption, SecretTypes, Rows, NEW k \in Keys, Revoke(k)
  PROVE  Rows'
<1> USE DEF Rows
<1>1. keys[k] # "none" /\ UNCHANGED <<items, reservations, content, bound, purged>>
  BY DEF Revoke, contentVars
<1>2. \A n \in Keys : keys'[n] = IF n = k THEN "revoked" ELSE keys[n]
  BY DEF Revoke, SecretTypes
<1>3. \A n \in Keys :
        /\ rotation'[n].old = rotation[n].old /\ rotation'[n].total = rotation[n].total
        /\ rotation'[n].rewritten = rotation[n].rewritten
        /\ rotation'[n].state = IF rotation[n].state = "in_progress" /\ k \in {n, rotation[n].old}
                                THEN "blocked" ELSE rotation[n].state
  BY DEF Revoke, SecretTypes, Rotations
<1>4. OpenRotations' = OpenRotations
  BY <1>3 DEF OpenRotations, Open
<1>5. OpenRotations \subseteq Keys
  BY DEF OpenRotations
<1>6. FreshIsUnused'
  BY <1>1, <1>2, <1>3 DEF FreshIsUnused
<1>7. NoncesAgree' /\ Bindings'
  BY <1>1 DEF NoncesAgree, Bindings
<1>8. OneOpen'
  <2>1. \A n \in Current' : n \in Current
    BY <1>2 DEF Current
  <2>2. \A n \in OpenRotations : rotation[n].old \in Keys
    BY DEF RotationsAgree
  <2> QED
    BY <1>2, <1>3, <1>4, <1>5, <2>1, <2>2 DEF OneOpen
<1>9. RotationsAgree' /\ CountIsExact'
  BY <1>1, <1>2, <1>3, <1>4, <1>5, RotationsStand, CountsStand
<1> QED
  BY <1>6, <1>7, <1>8, <1>9

(* The item that a rotation rewrites is the only one of its owner: one     *)
(* more is rewritten, and the owner is bound to the new key.               *)
LEMMA RowsOfRotCommit ==
  ASSUME SecretAssumption, SecretTypes, Rows, OperationAgrees, RotCommit
  PROVE  Rows'
<1> USE DEF Rows
<1>0. op.do = "resume" /\ op.at = "commit" /\ op.it \in Keys
  BY OperationTyped DEF RotCommit, Running, SecretTypes
<1>1. PICK k \in Keys, i \in NextItem(op.it) :
           /\ k = op.it
           /\ content' = [content EXCEPT ![i.owner][k] = "live", ![i.owner][i.old] = "retired"]
           /\ bound' = [bound EXCEPT ![i.owner] = k]
           /\ reservations' = {IF x.owner = i.owner /\ x.key = i.old THEN Retire(x)
                               ELSE IF x.owner = i.owner /\ x.key = k
                               THEN [x EXCEPT !.state = "committed"] ELSE x : x \in reservations}
           /\ items' = (items \ {i}) \cup {[i EXCEPT !.done = TRUE]}
           /\ bound[i.owner] = i.old /\ Active(i.owner)
  BY <1>0 DEF RotCommit
<1>2. /\ op.do = "resume" /\ op.at = "commit" /\ k = op.it /\ UNCHANGED <<keys, purged>>
      /\ rotation' = [rotation EXCEPT ![k] = Counted(k)]
  BY <1>0, <1>1 DEF RotCommit
<1>3. rotation[k].state = "in_progress" /\ k \in OpenRotations
  BY <1>2 DEF OperationAgrees, OpenRotations, Open
<1>4. /\ i \in items /\ i \in Items /\ i.rot = k /\ i \in ItemsOf(k) /\ i \in Pending(k)
      /\ i.owner \in Owners /\ i.old \in Keys /\ ~i.done
  BY <1>1 DEF NextItem, Pending, ItemsOf, SecretTypes, Items
<1>5. i.old = rotation[k].old /\ i.old # k
  BY <1>3, <1>4 DEF RotationsAgree
<1>6. \E x \in reservations : x.owner = i.owner /\ x.key = k
  BY <1>1, <1>2 DEF OperationAgrees
<1> DEFINE o0 == i.owner
           c == i.old
           z == [i EXCEPT !.done = TRUE]
           R(x) == IF x.owner = o0 /\ x.key = c THEN Retire(x)
                   ELSE IF x.owner = o0 /\ x.key = k THEN [x EXCEPT !.state = "committed"] ELSE x
<1>7. z.rot = k /\ z.owner = o0 /\ z.old = c /\ z.done /\ z \in Items
  BY <1>4 DEF Items
<1>8. \A o \in Owners, n \in Keys : content'[o][n] =
        IF o = o0 /\ n = c THEN "retired" ELSE IF o = o0 /\ n = k THEN "live" ELSE content[o][n]
  <2> DEFINE row == [content[o0] EXCEPT ![k] = "live"]
             row2 == [row EXCEPT ![c] = "retired"]
  <2>1. content' = [content EXCEPT ![o0] = row2]
    BY <1>1, <1>2, <1>4
  <2>2. \A n \in Keys : row2[n] = IF n = c THEN "retired" ELSE IF n = k THEN "live" ELSE content[o0][n]
    BY <1>4 DEF SecretTypes
  <2> HIDE DEF row2
  <2>3. \A o \in Owners : content'[o] = IF o = o0 THEN row2 ELSE content[o]
    BY <2>1, <1>4 DEF SecretTypes
  <2> QED
    BY <2>2, <2>3
<1>9. \A o \in Owners : bound'[o] = IF o = o0 THEN k ELSE bound[o]
  BY <1>1, <1>4 DEF SecretTypes
<1>10. \A x \in reservations :
         /\ x.owner \in Owners /\ x.key \in Keys
         /\ R(x).owner = x.owner /\ R(x).key = x.key /\ R(x).by = x.by
         /\ x.owner = o0 /\ x.key = k => R(x).state = "committed"
         /\ ~(x.owner = o0 /\ x.key = k) => (R(x).state = "prepared" <=> x.state = "prepared")
  BY <1>5 DEF SecretTypes, Nonces, Retire
<1>11. reservations' = {R(x) : x \in reservations}
  BY <1>1
<1>12. items' = (items \ {i}) \cup {z} /\ bound[o0] = c /\ Active(o0) /\ keys[k] # "none" /\ k # 0
  BY <1>1, <1>2, <1>3 DEF RotationsAgree, Keys
<1>13. /\ rotation'[k].state = "in_progress" /\ rotation'[k].old = c
       /\ rotation'[k].total = rotation[k].total
       /\ rotation'[k].rewritten = rotation[k].rewritten + 1
       /\ \A n \in Keys \ {k} : rotation'[n] = rotation[n]
  BY <1>2, <1>3, <1>5 DEF SecretTypes, Rotations, Counted
<1>k. k \in Keys /\ k \in OpenRotations /\ c \in Keys /\ o0 \in Owners /\ c # k
  BY <1>2, <1>3, <1>4, <1>5
<1> HIDE DEF z, R, o0, c
<1>14. FreshIsUnused'
  <2>1. keys[c] # "none"
    BY <1>k, <1>12 DEF Bindings, FreshIsUnused, Active
  <2> QED
    BY <2>1, <1>k, <1>2, <1>7, <1>8, <1>10, <1>11, <1>12, <1>13 DEF FreshIsUnused
<1>15. NoncesAgree'
  <2>1. \A x \in reservations : R(x).state = "prepared" <=> content'[x.owner][x.key] = "none"
    <3>1. content[o0][c] # "none"
      BY <1>k, <1>12 DEF Bindings, Active
    <3> QED
      BY <1>k, <1>8, <1>10, <3>1 DEF NoncesAgree
  <2>2. \A w \in reservations' : w.state = "prepared" <=> content'[w.owner][w.key] = "none"
    BY <1>10, <1>11, <2>1
  <2>3. \A v, w \in reservations' :
          v.by \in Requests /\ (w.by = v.by \/ (w.owner = v.owner /\ w.key = v.key)) => w = v
    BY <1>10, <1>11 DEF NoncesAgree
  <2>4. \A o \in Owners, n \in Keys : content'[o][n] # "none" =>
          \E w \in reservations : w.owner = o /\ w.key = n
    BY <1>6, <1>8, <1>k, <1>12 DEF NoncesAgree, Bindings, Active, o0
  <2>5. \A o \in Owners, n \in Keys : content'[o][n] # "none" =>
          \E w \in reservations' : w.owner = o /\ w.key = n
    BY <1>10, <1>11, <2>4
  <2> QED
    BY <2>2, <2>3, <2>5 DEF NoncesAgree
<1>16. Bindings'
  <2>1. o0 \notin purged
    BY <1>12 DEF Active
  <2> QED
    BY <2>1, <1>k, <1>2, <1>8, <1>9, <1>12, BoundToKey DEF Bindings
<1>17. OpenRotations' = OpenRotations
  BY <1>k, <1>3, <1>13 DEF OpenRotations, Open
<1>18. OneOpen'
  <2>1. Current' = Current
    BY <1>2 DEF Current
  <2> QED
    BY <2>1, <1>2, <1>3, <1>5, <1>13, <1>17, <1>k DEF OneOpen, c
<1>19. \A n \in OpenRotations : n = k
  BY <1>k DEF OneOpen
<1>20. \A o : Active(o)' <=> bound'[o] # 0 /\ o \notin purged
  BY <1>2 DEF Active
<1>21. /\ ItemsOf(k)' = (ItemsOf(k) \ {i}) \cup {z}
       /\ ItemsOf(k)' \ Pending(k)' = (ItemsOf(k) \ Pending(k)) \cup {z}
       /\ i \in ItemsOf(k) /\ i.owner = o0
  BY <1>4, <1>7, <1>12 DEF ItemsOf, Pending, o0
<1>22. /\ \A j \in ItemsOf(k) : j.owner = o0 => j = i
       /\ z \notin ItemsOf(k)
  BY <1>4, <1>7, <1>21, <1>k DEF RotationsAgree
<1>23. RotationsAgree'
  <2>1. \A x \in reservations' : x.key = k => x.by = "rotation"
    BY <1>10, <1>11, <1>k DEF RotationsAgree
  <2>2. \A o \in Owners : content'[o][k] # "none" => bound'[o] = k
    BY <1>8, <1>9, <1>k DEF RotationsAgree
  <2>3. \A o \in Owners : Active(o)' /\ bound'[o] = k =>
          \E j \in items' : j.rot = k /\ j.owner = o /\ j.done
    BY <1>4, <1>7, <1>9, <1>12, <1>20, <1>k DEF RotationsAgree, Active
  <2>4. \A j \in ItemsOf(k)' : /\ j.old = c
                               /\ \A l \in ItemsOf(k)' : j.owner = l.owner => j = l
    BY <1>5, <1>7, <1>21, <1>22, <1>k DEF RotationsAgree, c
  <2>5. keys[k] \in {"rotating_to", "revoked"}
    BY <1>k DEF RotationsAgree
  <2> QED
    BY <1>2, <1>13, <1>17, <1>19, <1>k, <2>1, <2>2, <2>3, <2>4, <2>5 DEF RotationsAgree
<1>24. CountIsExact'
  <2>1. IsFiniteSet(ItemsOf(k)) /\ IsFiniteSet(ItemsOf(k) \ Pending(k))
    BY FS_Subset DEF SecretTypes, ItemsOf
  <2>2. Cardinality(ItemsOf(k)') = Cardinality(ItemsOf(k))
    <3> DEFINE M == ItemsOf(k)
    <3>1. IsFiniteSet(M \ {i}) /\ Cardinality(M \ {i}) = Cardinality(M) - 1
      BY <1>21, <2>1, FS_RemoveElement
    <3>2. Cardinality((M \ {i}) \cup {z}) = Cardinality(M \ {i}) + 1
      BY <1>22, <3>1, FS_AddElement
    <3>3. Cardinality(M) \in Nat
      BY <2>1, FS_CardinalityType
    <3> QED
      BY <1>21, <3>1, <3>2, <3>3
  <2>3. Cardinality(ItemsOf(k)' \ Pending(k)') = Cardinality(ItemsOf(k) \ Pending(k)) + 1
    BY <1>21, <1>22, <2>1, FS_AddElement
  <2>4. \A j \in ItemsOf(k)' : Active(j.owner)' /\ bound'[j.owner] = IF j.done THEN k ELSE j.old
    <3>1. o0 \notin purged /\ bound'[o0] = k
      BY <1>9, <1>12, <1>k DEF Active
    <3>2. Active(o0)'
      BY <1>12, <1>20, <3>1
    <3>3. ASSUME NEW j \in ItemsOf(k), j # i
          PROVE  Active(j.owner)' /\ bound'[j.owner] = IF j.done THEN k ELSE j.old
      <4>1. j.owner \in Owners /\ j.owner # o0
        BY <1>22, <3>3 DEF SecretTypes, ItemsOf, Items
      <4>2. Active(j.owner) /\ bound[j.owner] = IF j.done THEN k ELSE j.old
        BY <1>k DEF CountIsExact
      <4>3. bound'[j.owner] = bound[j.owner]
        BY <1>9, <4>1
      <4> QED
        BY <1>20, <4>2, <4>3 DEF Active
    <3> QED
      BY <1>7, <1>21, <3>1, <3>2, <3>3
  <2>5. \A o \in Owners : Active(o)' /\ bound'[o] = c => \E j \in ItemsOf(k)' : j.owner = o
    BY <1>5, <1>9, <1>20, <1>21, <1>22, <1>k DEF CountIsExact, Active, c
  <2> QED
    BY <1>13, <1>17, <1>19, <1>k, <2>2, <2>3, <2>4, <2>5 DEF CountIsExact
<1> QED
  BY <1>14, <1>15, <1>16, <1>18, <1>23, <1>24

LEMMA RowsOfPurge ==
  ASSUME SecretAssumption, SecretTypes, Rows, OperationAgrees, PurgeCommit
  PROVE  Rows'
<1> USE DEF Rows, keyVars
<1> DEFINE o0 == op.it
<1>1. op.do = "purge" /\ o0 \in Owners /\ Active(o0) /\ OpenRotations = {}
  BY OperationTyped DEF PurgeCommit, Running, SecretTypes, OperationAgrees
<1>2. /\ purged' = purged \cup {o0} /\ items' \subseteq items /\ UNCHANGED <<keys, rotation, bound>>
      /\ reservations' = {IF x.owner = o0 THEN Retire(x) ELSE x : x \in reservations}
  BY DEF PurgeCommit
<1>3. \A o \in Owners, n \in Keys : content'[o][n] =
        IF o = o0 /\ content[o][n] # "none" THEN "deleted" ELSE content[o][n]
  BY <1>1 DEF PurgeCommit, SecretTypes
<1> DEFINE R(x) == IF x.owner = o0 THEN Retire(x) ELSE x
<1>4. \A x \in reservations :
         /\ x.owner \in Owners /\ x.key \in Keys
         /\ R(x).owner = x.owner /\ R(x).key = x.key /\ R(x).by = x.by
         /\ R(x).state = "prepared" <=> x.state = "prepared"
  BY DEF SecretTypes, Nonces, Retire
<1>5. reservations' = {R(x) : x \in reservations}
  BY <1>2
<1> HIDE DEF R, o0
<1>6. FreshIsUnused'
  BY <1>2, <1>3, <1>4, <1>5 DEF FreshIsUnused
<1>7. NoncesAgree'
  BY <1>3, <1>4, <1>5 DEF NoncesAgree
<1>8. Bindings'
  BY <1>1, <1>2, <1>3, BoundToKey DEF Bindings, Active, SecretTypes
<1>9. OpenRotations' = OpenRotations /\ Current' = Current
  BY <1>2 DEF OpenRotations, Current
<1>10. OneOpen' /\ RotationsAgree' /\ CountIsExact'
  BY <1>1, <1>2, <1>9 DEF OneOpen, RotationsAgree, CountIsExact
<1> QED
  BY <1>6, <1>7, <1>8, <1>10

LEMMA RowsStep ==
  ASSUME SecretAssumption, SecretTypes, Rows, OperationAgrees, [SNext]_secretVars
  PROVE  Rows'
<1>1. CASE InstallKey \/ BeginRotation \/ Complete \/ RotReserve \/ RotCommit \/ PurgeCommit \/ AdmitCommit
  BY <1>1, RowsOfInstallKey, RowsOfBegin, RowsOfComplete, RowsOfReserve, RowsOfRotCommit,
     RowsOfPurge, RowsOfAdmitCommit
<1>2. ASSUME NEW r \in Requests, Admit(r) PROVE Rows'
  BY <1>2, RowsOfAdmit
<1>3. ASSUME NEW k \in Keys, Abort(k) \/ Revoke(k) PROVE Rows'
  BY <1>3, RowsOfAbort, RowsOfRevoke
<1>4. CASE AdmitWrite \/ UseAuthority \/ RotWrite \/ RotFinalize \/ Stop
  BY <1>4, RowsStand DEF AdmitWrite, UseAuthority, RotWrite, RotFinalize, Stop
<1>5. CASE RemoveFiles \/ Maintained \/ Maintain \/ Fail
  BY <1>5, RowsStand DEF RemoveFiles, Maintained, Maintain, Fail
<1>6. ASSUME NEW b \in Backups, RegisterIntent(b) \/ RemoveBackup(b) \/ Backup(b) PROVE Rows'
  BY <1>6, RowsStand DEF RegisterIntent, RemoveBackup, Backup
<1>7. ASSUME NEW k \in Keys, Resume(k) PROVE Rows'
  BY <1>7, RowsStand DEF Resume
<1>8. ASSUME NEW o \in Owners, Purge(o) PROVE Rows'
  BY <1>8, RowsStand DEF Purge
<1>9. CASE UNCHANGED secretVars
  BY <1>9, RowsStand DEF secretVars, keyVars, contentVars
<1> QED
  BY <1>1, <1>2, <1>3, <1>4, <1>5, <1>6, <1>7, <1>8, <1>9 DEF SNext, Proceed

-----------------------------------------------------------------------------
(* The next item is one.                                                   *)
LEMMA OneNext ==
  ASSUME SecretAssumption, SecretTypes, RotationsAgree, NEW k \in OpenRotations
  PROVE  \A i, j \in NextItem(k) : i = j
<1> SUFFICES ASSUME NEW i \in NextItem(k), NEW j \in NextItem(k) PROVE i = j
  OBVIOUS
<1>1. i \in ItemsOf(k) /\ j \in ItemsOf(k) /\ i.owner <= j.owner /\ j.owner <= i.owner
  BY DEF NextItem, Pending
<1>2. i.owner \in Nat /\ j.owner \in Nat
  BY <1>1 DEF ItemsOf, SecretTypes, Items, SecretAssumption
<1>3. i.owner = j.owner
  BY <1>1, <1>2
<1> QED
  BY <1>1, <1>3 DEF RotationsAgree

(* Active contents can be read. *)

LEMMA LiveIsBound ==
  ASSUME ActiveIsReadable, NEW o \in Owners, Active(o)
  PROVE  \A n \in Keys : content[o][n] = "live" <=> n = bound[o]
BY DEF ActiveIsReadable

LEMMA ReadableStands ==
  ASSUME ActiveIsReadable, UNCHANGED <<bound, purged, content>>,
         \A o \in Owners : Active(o) =>
            /\ <<o, bound[o]>> \in files'
            /\ keys'[bound[o]] \in {keys[bound[o]], "current", "rotating_to", "revoked"}
  PROVE  ActiveIsReadable'
BY DEF ActiveIsReadable, Active

LEMMA ReadableStep ==
  ASSUME SecretAssumption, SecretInv, [SNext]_secretVars
  PROVE  ActiveIsReadable'
<1> USE DEF SecretInv, Rows, keyVars, contentVars, storeVars, backupVars, Running
<1>0. /\ \A o \in Owners : Active(o) =>
           /\ <<o, bound[o]>> \in files /\ bound[o] \in Keys /\ content[o][bound[o]] = "live"
           /\ keys[bound[o]] \in {"current", "rotating_to", "revoked"}
  BY BoundToKey DEF ActiveIsReadable, Active
<1>1. CASE InstallKey \/ BeginRotation
  <2>1. UNCHANGED <<bound, purged, content, files>>
    BY <1>1 DEF InstallKey, BeginRotation
  <2>2. \A n \in Keys : keys'[n] \in {keys[n], "current", "rotating_to"}
    BY <1>1 DEF InstallKey, BeginRotation, SecretTypes, Fresh
  <2> QED
    BY <1>0, <2>1, <2>2, ReadableStands
<1>2. CASE UNCHANGED <<keys, bound, purged, content, files>>
  BY <1>0, <1>2, ReadableStands
<1>3. CASE AdmitWrite \/ RotWrite
  <2>1. UNCHANGED <<keys, bound, purged, content>> /\ files \subseteq files'
    BY <1>3 DEF AdmitWrite, RotWrite
  <2> QED
    BY <1>0, <2>1, ReadableStands
<1>4. CASE RotFinalize \/ RemoveFiles \/ Fail
  <2>1. UNCHANGED <<keys, bound, purged, content>>
        /\ \A f \in files : content[f[1]][f[2]] = "live" => f \in files'
    BY <1>4 DEF RotFinalize, RemoveFiles, Fail, Dropped, Referenced
  <2> QED
    BY <1>0, <2>1, ReadableStands
<1>5. CASE Complete
  <2> DEFINE k == op.it
  <2>1. /\ k \in OpenRotations /\ k \in Keys /\ Pending(k) = {}
        /\ rotation[k].old \in Keys \ {k} /\ UNCHANGED <<bound, purged, content, files>>
    BY <1>5, OperationTyped DEF Complete, OperationAgrees, OpenRotations, Open, SecretTypes, RotationsAgree
  <2>2. \A o \in Owners : Active(o) => bound[o] # rotation[k].old
    <3> SUFFICES ASSUME NEW o \in Owners, Active(o), bound[o] = rotation[k].old PROVE FALSE
      OBVIOUS
    <3> HIDE DEF k
    <3>1. PICK i \in ItemsOf(k) : i.owner = o
      BY <2>1 DEF CountIsExact
    <3>2. bound[i.owner] = IF i.done THEN k ELSE i.old
      BY <2>1 DEF CountIsExact
    <3>3. i \in Items /\ i.done
      BY <2>1 DEF Pending, ItemsOf, SecretTypes, Items
    <3> QED
      BY <2>1, <3>1, <3>2, <3>3
  <2>3. \A n \in Keys : n # rotation[k].old => keys'[n] \in {keys[n], "current"}
    BY <1>5, <2>1 DEF Complete, SecretTypes
  <2> HIDE DEF k
  <2> QED
    BY <1>0, <2>1, <2>2, <2>3, ReadableStands
<1>6. ASSUME NEW k \in Keys, Abort(k) PROVE ActiveIsReadable'
  <2>1. /\ k \in OpenRotations /\ rotation[k].rewritten = 0
        /\ UNCHANGED <<bound, purged, content, files>>
        /\ \A n \in Keys : n # k => keys'[n] = keys[n]
    BY <1>6 DEF Abort, OpenRotations, SecretTypes
  <2>2. IsFiniteSet(ItemsOf(k) \ Pending(k))
    BY FS_Subset DEF SecretTypes, ItemsOf
  <2>3. ItemsOf(k) \ Pending(k) = {}
    BY <2>1, <2>2, FS_EmptySet DEF CountIsExact
  <2>4. \A o \in Owners : Active(o) => bound[o] # k
    BY <2>1, <2>3 DEF RotationsAgree, ItemsOf, Pending
  <2> QED
    BY <1>0, <2>1, <2>4, ReadableStands
<1>7. ASSUME NEW k \in Keys, Revoke(k) PROVE ActiveIsReadable'
  <2>1. /\ UNCHANGED <<bound, purged, content, files>>
        /\ \A n \in Keys : keys'[n] \in {keys[n], "revoked"}
    BY <1>7 DEF Revoke, SecretTypes
  <2> QED
    BY <1>0, <2>1, ReadableStands
<1>8. CASE AdmitCommit
  <2>1. PICK x \in reservations :
           /\ x.by = op.it
           /\ IF bound[x.owner] = 0
              THEN /\ content' = [content EXCEPT ![x.owner][x.key] = "live"]
                   /\ bound' = [bound EXCEPT ![x.owner] = x.key]
              ELSE UNCHANGED <<content, bound>>
    BY <1>8 DEF AdmitCommit
  <2>2. /\ <<x.owner, x.key>> \in files /\ x.key \in Current /\ x.owner \in Owners /\ x.key \in Keys
        /\ UNCHANGED <<keys, purged, files>>
    BY <1>8, <2>1 DEF AdmitCommit, OperationAgrees, MayCommit, SecretTypes, Nonces
  <2>3. CASE bound[x.owner] = 0
    <3>1. \A n \in Keys : content'[x.owner][n] = "live" <=> n = x.key
      BY <2>1, <2>2, <2>3 DEF Bindings, SecretTypes
    <3>2. \A o \in Owners : o # x.owner => content'[o] = content[o] /\ bound'[o] = bound[o]
      BY <2>1, <2>2, <2>3 DEF SecretTypes
    <3>3. bound'[x.owner] = x.key
      BY <2>1, <2>2, <2>3 DEF SecretTypes
    <3> QED
      BY <2>2, <3>1, <3>2, <3>3 DEF ActiveIsReadable, Active, Current
  <2> QED
    BY <1>0, <2>1, <2>2, <2>3, ReadableStands
<1>9. CASE RotCommit
  <2>1. op.do = "resume" /\ op.at = "commit" /\ op.it \in Keys
    BY <1>9, OperationTyped DEF RotCommit, SecretTypes
  <2>2. PICK k \in Keys, i \in NextItem(op.it) :
           /\ k = op.it
           /\ content' = [content EXCEPT ![i.owner][k] = "live", ![i.owner][i.old] = "retired"]
           /\ bound' = [bound EXCEPT ![i.owner] = k]
           /\ bound[i.owner] = i.old /\ Active(i.owner)
    BY <1>9, <2>1 DEF RotCommit
  <2>3. /\ rotation[k].state = "in_progress" /\ k \in OpenRotations
        /\ <<i.owner, k>> \in files /\ UNCHANGED <<keys, purged, files>>
    BY <1>9, <2>1, <2>2 DEF RotCommit, OperationAgrees, OpenRotations, Open
  <2>4. keys[k] = "rotating_to"
    BY <2>3 DEF OneOpen
  <2>5. i.owner \in Owners /\ i.old \in Keys /\ i.old # k
    BY <2>2, <2>3 DEF NextItem, Pending, ItemsOf, SecretTypes, Items, RotationsAgree
  <2> DEFINE row == [content[i.owner] EXCEPT ![k] = "live"]
             row2 == [row EXCEPT ![i.old] = "retired"]
  <2>6. content' = [content EXCEPT ![i.owner] = row2]
    BY <2>2, <2>5
  <2>7. \A n \in Keys : row2[n] = IF n = i.old THEN "retired" ELSE IF n = k THEN "live" ELSE content[i.owner][n]
    BY <2>5 DEF SecretTypes
  <2> HIDE DEF row2
  <2>8. \A n \in Keys : content'[i.owner][n] = "live" <=> n = k
    <3>1. \A n \in Keys : content[i.owner][n] = "live" <=> n = i.old
      <4>1. Active(i.owner) /\ bound[i.owner] = i.old /\ i.owner \in Owners
        BY <2>2, <2>5
      <4> QED
        BY <4>1, LiveIsBound
    <3>2. content'[i.owner] = row2
      BY <2>5, <2>6 DEF SecretTypes
    <3> QED
      BY <2>5, <2>7, <3>1, <3>2
  <2>9. \A o \in Owners : o # i.owner => content'[o] = content[o] /\ bound'[o] = bound[o]
    BY <2>2, <2>5, <2>6 DEF SecretTypes
  <2>10. bound'[i.owner] = k
    BY <2>2, <2>5 DEF SecretTypes
  <2> QED
    BY <2>3, <2>4, <2>5, <2>8, <2>9, <2>10 DEF ActiveIsReadable, Active
<1>10. CASE PurgeCommit
  <2>1. /\ purged' = purged \cup {op.it} /\ UNCHANGED <<keys, bound, files>>
        /\ \A o \in Owners : o # op.it => content'[o] = content[o]
    BY <1>10 DEF PurgeCommit, SecretTypes
  <2> QED
    BY <2>1 DEF ActiveIsReadable, Active
<1>11. CASE Stop \/ UseAuthority \/ RotReserve \/ Maintain \/ Maintained \/ UNCHANGED secretVars
  BY <1>2, <1>11 DEF Stop, UseAuthority, RotReserve, Maintain, Maintained, secretVars
<1>12. ASSUME NEW b \in Backups, RegisterIntent(b) \/ RemoveBackup(b) \/ Backup(b) PROVE ActiveIsReadable'
  BY <1>2, <1>12 DEF RegisterIntent, RemoveBackup, Backup
<1>13. ASSUME NEW r \in Requests, Admit(r) PROVE ActiveIsReadable'
  BY <1>2, <1>13 DEF Admit
<1>14. ASSUME NEW k \in Keys, Resume(k) PROVE ActiveIsReadable'
  BY <1>2, <1>14 DEF Resume
<1>15. ASSUME NEW o \in Owners, Purge(o) PROVE ActiveIsReadable'
  BY <1>2, <1>15 DEF Purge
<1> QED
  BY <1>1, <1>3, <1>4, <1>5, <1>6, <1>7, <1>8, <1>9, <1>10, <1>11, <1>12, <1>13, <1>14, <1>15
     DEF SNext, Proceed

-----------------------------------------------------------------------------
(* What an operation has seen stays true while it runs.                    *)

LEMMA OperationStep ==
  ASSUME SecretAssumption, SecretInv, [SNext]_secretVars
  PROVE  OperationAgrees'
<1> USE DEF SecretInv, Rows, keyVars, contentVars, storeVars, backupVars, Running
<1>0. op \in Operations
  BY DEF SecretTypes
<1>i. op' = Idle => OperationAgrees'
  BY DEF OperationAgrees, Idle
<1>1. CASE InstallKey \/ BeginRotation \/ \E k \in Keys : Abort(k) \/ Revoke(k)
  BY <1>1, <1>i DEF InstallKey, BeginRotation, Abort, Revoke
<1>2. CASE AdmitCommit \/ Complete \/ Stop \/ Maintained \/ Fail \/ \E b \in Backups : Backup(b)
  BY <1>2, <1>i DEF AdmitCommit, Complete, Stop, Maintained, Fail, Backup
<1>3. ASSUME NEW r \in Requests, Admit(r) PROVE OperationAgrees'
  <2>1. PICK k \in Current : /\ TakenUp(r, k) \/ Reservable(r, k)
                             /\ reservations' = reservations \cup {Nonce(r, k)}
    BY <1>3 DEF Admit
  <2>2. \A x \in reservations' : x.by = r => x.state = "prepared"
    <3>1. Nonce(r, k).by = r /\ Nonce(r, k).state = "prepared"
      BY DEF Nonce
    <3>2. TakenUp(r, k) => \A x \in reservations : x.by = r => x = Nonce(r, k)
      BY <3>1 DEF TakenUp, NoncesAgree
    <3>3. Reservable(r, k) => \A x \in reservations : x.by # r
      BY DEF Reservable
    <3> QED
      BY <2>1, <3>1, <3>2, <3>3
  <2>3. op' = [do |-> "admit", it |-> r, at |-> "write"]
    BY <1>3 DEF Admit
  <2> QED
    BY <2>2, <2>3 DEF OperationAgrees
<1>4. CASE AdmitWrite
  <2>1. PICK x \in reservations :
           /\ x.by = op.it
           /\ IF MayCommit(x) THEN files' = files \cup {<<x.owner, x.key>>} /\ Go("commit")
                              ELSE op' = Idle /\ UNCHANGED files
    BY <1>4 DEF AdmitWrite
  <2>2. CASE MayCommit(x)
    <3>1. op.do = "admit" /\ op.it \in Requests /\ UNCHANGED <<keys, rotation, reservations>>
      BY <1>0, <1>4, OperationTyped DEF AdmitWrite
    <3>2. op'.do = "admit" /\ op'.it = op.it /\ op'.at = "commit"
      BY <1>0, <2>1, <2>2, <3>1, OperationGoes DEF Go
    <3>3. \A y \in reservations : y.by = op.it => y = x /\ y.state = "prepared"
      <4>1. \A y \in reservations : y.by = op.it => y = x
        BY <2>1, <3>1 DEF NoncesAgree
      <4>2. \A y \in reservations : y.by = op.it => y.state = "prepared"
        BY <3>1 DEF OperationAgrees
      <4> QED
        BY <4>1, <4>2
    <3>4. MayCommit(x)' /\ <<x.owner, x.key>> \in files'
      BY <2>1, <2>2, <3>1 DEF MayCommit, Current, OpenRotations
    <3>5. \A y \in reservations' : y.by = op'.it => y = x /\ y.state = "prepared"
      BY <3>1, <3>2, <3>3
    <3> QED
      BY <3>2, <3>4, <3>5 DEF OperationAgrees, MayCommit
  <2> QED
    BY <1>i, <2>1, <2>2
<1>5. ASSUME NEW k \in Keys, Resume(k) PROVE OperationAgrees'
  <2>1. op' = [do |-> "resume", it |-> k, at |-> "next"] /\ rotation'[k].state = "in_progress"
    BY <1>5 DEF Resume
  <2> QED
    BY <2>1 DEF OperationAgrees
<1>6. CASE UseAuthority \/ RotFinalize
  <2>1. CASE op' = Idle
    BY <1>i, <2>1
  <2>2. CASE op' # Idle
    <3>1. op.do = "resume" /\ UNCHANGED <<rotation>> /\ (Go("reserve") \/ Go("next") \/ Go("last"))
      BY <1>6, <2>2 DEF UseAuthority, RotFinalize
    <3>2. op'.do = "resume" /\ op'.it = op.it /\ op'.at \in {"reserve", "next", "last"}
      BY <1>0, <3>1, OperationGoes DEF Go
    <3> QED
      BY <3>1, <3>2 DEF OperationAgrees
  <2> QED
    BY <2>1, <2>2
<1>7. CASE RotReserve \/ RotWrite
  <2>1. op.do = "resume" /\ op.it \in Keys /\ UNCHANGED <<rotation, items>>
    BY <1>0, <1>7, OperationTyped DEF RotReserve, RotWrite
  <2>2. PICK k \in OpenRotations : k = op.it
    BY <2>1 DEF OperationAgrees, OpenRotations, Open
  <2>3. op'.do = "resume" /\ op'.it = k
    BY <1>0, <1>7, <2>1, <2>2, OperationGoes DEF RotReserve, RotWrite, Go
  <2>4. NextItem(k)' = NextItem(k) /\ \A i, j \in NextItem(k) : i = j
    BY <2>1, OneNext DEF NextItem, Pending, ItemsOf
  <2>5. CASE RotReserve
    <3>1. op'.at = "write"
      BY <1>0, <2>1, <2>5, OperationGoes DEF RotReserve, Go
    <3>2. PICK i \in NextItem(k) : reservations' = reservations \cup
            {[owner |-> i.owner, key |-> k, by |-> "rotation", state |-> "prepared"]}
      BY <2>2, <2>5 DEF RotReserve
    <3> DEFINE z == [owner |-> i.owner, key |-> k, by |-> "rotation", state |-> "prepared"]
    <3>3. \E x \in reservations' : x.owner = i.owner /\ x.key = k
      BY <3>2, z \in reservations', z.owner = i.owner /\ z.key = k
    <3>4. \A j \in NextItem(k) : \E x \in reservations' : x.owner = j.owner /\ x.key = k
      BY <2>4, <3>3
    <3> QED
      BY <2>1, <2>2, <2>3, <2>4, <3>1, <3>4 DEF OperationAgrees
  <2>6. CASE RotWrite
    <3>1. op'.at = "commit" /\ UNCHANGED reservations /\ op.at = "write"
      BY <1>0, <2>1, <2>6, OperationGoes DEF RotWrite, Go
    <3>2. PICK i \in NextItem(k) : files' = files \cup {<<i.owner, k>>}
      BY <2>2, <2>6 DEF RotWrite
    <3>3. \A j \in NextItem(k) : <<j.owner, k>> \in files'
      BY <2>4, <3>2
    <3>4. \A j \in NextItem(k) : \E x \in reservations' : x.owner = j.owner /\ x.key = k
      BY <2>1, <2>2, <3>1 DEF OperationAgrees
    <3> QED
      BY <2>1, <2>2, <2>3, <2>4, <3>1, <3>3, <3>4 DEF OperationAgrees
  <2> QED
    BY <1>7, <2>5, <2>6
<1>8. CASE RotCommit
  <2>1. op.do = "resume" /\ op.it \in Keys /\ rotation[op.it].state = "in_progress"
    BY <1>0, <1>8, OperationTyped DEF RotCommit
  <2>2. op'.do = "resume" /\ op'.it = op.it /\ op'.at = "finalize"
    BY <1>0, <1>8, <2>1, OperationGoes DEF RotCommit, Go
  <2>3. rotation'[op.it].state = "in_progress"
    BY <1>8, <2>1 DEF RotCommit, SecretTypes, Rotations, Counted
  <2> QED
    BY <2>2, <2>3 DEF OperationAgrees
<1>9. ASSUME NEW o \in Owners, Purge(o) PROVE OperationAgrees'
  <2>1. op' = [do |-> "purge", it |-> o, at |-> "register"] /\ OpenRotations = {} /\ Active(o)
        /\ UNCHANGED <<bound, purged, rotation>>
    BY <1>9 DEF Purge, NotRotating
  <2> QED
    BY <2>1 DEF OperationAgrees, Active, OpenRotations
<1>10. CASE PurgeCommit \/ Maintain
  BY <1>10 DEF PurgeCommit, Maintain, OperationAgrees
<1>11. ASSUME NEW b \in Backups, RegisterIntent(b) \/ RemoveBackup(b) PROVE OperationAgrees'
  <2>1. /\ op' = op /\ op.do \in {"purge", "maintain"} /\ op.at \in {"register", "backups"}
        /\ UNCHANGED <<bound, purged, rotation>>
    BY <1>11 DEF RegisterIntent, RemoveBackup
  <2> QED
    BY <2>1 DEF OperationAgrees, Active, OpenRotations
<1>12. CASE RemoveFiles
  <2>1. op.do = "maintain" /\ intents' = {}
    BY <1>12 DEF RemoveFiles
  <2>2. op'.do = "maintain" /\ op'.at = "done"
    BY <1>0, <1>12, <2>1, OperationGoes DEF RemoveFiles, Go
  <2> QED
    BY <2>1, <2>2 DEF OperationAgrees
<1>13. CASE UNCHANGED secretVars
  BY <1>13 DEF secretVars, OperationAgrees, MayCommit, Current, OpenRotations, NextItem, Pending,
     ItemsOf, Active
<1> QED
  BY <1>1, <1>2, <1>3, <1>4, <1>5, <1>6, <1>7, <1>8, <1>9, <1>10, <1>11, <1>12, <1>13
     DEF SNext, Proceed

-----------------------------------------------------------------------------
(* What a purge leaves. *)

LEMMA LeftStands ==
  ASSUME NothingLeft, UNCHANGED <<content, files, purged, backups, intents, maint>>,
         op'.at \notin {"finalize", "backups"} => op.at \notin {"finalize", "backups"}
  PROVE  NothingLeft'
BY DEF NothingLeft, Dropped

LEMMA LeftStep ==
  ASSUME SecretAssumption, SecretInv, [SNext]_secretVars
  PROVE  NothingLeft'
<1> USE DEF SecretInv, Rows, keyVars, contentVars, storeVars, backupVars, Running
<1>0. op \in Operations
  BY DEF SecretTypes
<1>i. op = Idle => op.at \notin {"finalize", "backups"}
  BY DEF Idle
<1>1. CASE InstallKey \/ BeginRotation \/ \E k \in Keys : Resume(k) \/ Abort(k) \/ Revoke(k)
  BY <1>1, <1>i, LeftStands DEF InstallKey, BeginRotation, Resume, Abort, Revoke
<1>2. CASE Maintain \/ (\E r \in Requests : Admit(r)) \/ \E o \in Owners : Purge(o)
  BY <1>2, <1>i, LeftStands DEF Maintain, Admit, Purge
<1>3. CASE Complete \/ Stop \/ UseAuthority \/ RotReserve \/ UNCHANGED secretVars
  <2>1. CASE Complete \/ Stop \/ UseAuthority
    <3>1. op.at \notin {"finalize", "backups"}
      BY <2>1 DEF Complete, Stop, UseAuthority
    <3> QED
      BY <2>1, <3>1, LeftStands DEF Complete, Stop, UseAuthority
  <2>2. CASE RotReserve
    <3>1. op.at = "reserve"
      BY <2>2 DEF RotReserve
    <3> QED
      BY <2>2, <3>1, LeftStands DEF RotReserve
  <2>3. CASE UNCHANGED secretVars
    BY <2>3, LeftStands DEF secretVars
  <2> QED
    BY <1>3, <2>1, <2>2, <2>3
<1>4. ASSUME NEW f, NEW at \in {"write"}, op.at = at, content[f[1]][f[2]] = "none",
             files' = files \cup {f}, UNCHANGED <<content, purged, backups, intents, maint>>
      PROVE  NothingLeft'
  BY <1>4 DEF NothingLeft, Dropped
<1>5. CASE AdmitWrite
  <2>1. PICK x \in reservations :
           /\ x.by = op.it
           /\ IF MayCommit(x) THEN files' = files \cup {<<x.owner, x.key>>} /\ Go("commit")
                              ELSE op' = Idle /\ UNCHANGED files
    BY <1>5 DEF AdmitWrite
  <2>2. content[x.owner][x.key] = "none"
    BY <1>5, <2>1 DEF AdmitWrite, OperationAgrees, NoncesAgree
  <2>3. op.at = "write" /\ UNCHANGED <<content, purged, backups, intents, maint>>
    BY <1>5 DEF AdmitWrite
  <2>4. CASE MayCommit(x)
    BY <1>4, <2>1, <2>2, <2>3, <2>4
  <2>5. CASE ~MayCommit(x)
    BY <2>1, <2>3, <2>5, LeftStands
  <2> QED
    BY <2>4, <2>5
<1>6. CASE RotWrite
  <2>1. op.do = "resume" /\ op.at = "write" /\ UNCHANGED <<content, purged, backups, intents, maint>>
    BY <1>6 DEF RotWrite
  <2>2. PICK i \in NextItem(op.it) : files' = files \cup {<<i.owner, op.it>>}
    BY <1>6 DEF RotWrite
  <2>3. op.it \in OpenRotations
    BY <1>0, <2>1, OperationTyped DEF OperationAgrees, OpenRotations, Open
  <2>4. i \in ItemsOf(op.it) /\ i.owner \in Owners /\ ~i.done /\ i.old = rotation[op.it].old /\ i.old # op.it
    BY <2>3 DEF NextItem, Pending, ItemsOf, SecretTypes, Items, RotationsAgree
  <2>5. content[i.owner][op.it] = "none"
    <3>1. bound[i.owner] # op.it
      BY <2>3, <2>4 DEF CountIsExact
    <3> QED
      BY <2>3, <2>4, <3>1 DEF RotationsAgree
  <2> QED
    BY <1>4, <2>1, <2>2, <2>5
<1>7. CASE AdmitCommit
  <2>1. PICK x \in reservations :
           /\ x.by = op.it
           /\ IF bound[x.owner] = 0
              THEN content' = [content EXCEPT ![x.owner][x.key] = "live"]
              ELSE UNCHANGED content
    BY <1>7 DEF AdmitCommit
  <2>2. UNCHANGED <<files, purged, backups, intents, maint>> /\ op.at = "commit"
    BY <1>7 DEF AdmitCommit
  <2>3. CASE bound[x.owner] = 0
    <3>1. x.owner \in Owners /\ x.key \in Keys /\ x.owner \notin purged
      BY <2>3 DEF SecretTypes, Nonces, Bindings
    <3>2. \A o \in Owners, n \in Keys : content'[o][n] = content[o][n] \/ content'[o][n] = "live"
      BY <2>1, <2>3, <3>1 DEF SecretTypes
    <3>3. \A f \in files : f[1] \in Owners /\ f[2] \in Keys
      BY DEF SecretTypes
    <3> QED
      BY <2>2, <3>2, <3>3 DEF NothingLeft, Dropped, SecretTypes
  <2> QED
    BY <2>1, <2>2, <2>3, LeftStands
<1>8. CASE RotCommit
  <2>1. op.do = "resume" /\ op.it \in Keys /\ op'.at = "finalize"
    BY <1>0, <1>8, OperationTyped, OperationGoes DEF RotCommit, Go
  <2>2. PICK k \in Keys, i \in NextItem(op.it) :
           /\ content' = [content EXCEPT ![i.owner][k] = "live", ![i.owner][i.old] = "retired"]
           /\ Active(i.owner)
    BY <1>8, <2>1 DEF RotCommit
  <2>3. i.owner \in Owners /\ i.old \in Keys /\ i.owner \notin purged
    BY <2>2 DEF NextItem, Pending, ItemsOf, SecretTypes, Items, Active
  <2>4. \A o \in Owners : o # i.owner => content'[o] = content[o]
    BY <2>2, <2>3 DEF SecretTypes
  <2>5. UNCHANGED <<files, purged, backups, intents, maint>>
    BY <1>8 DEF RotCommit
  <2> QED
    BY <2>1, <2>3, <2>4, <2>5 DEF NothingLeft, SecretTypes
<1>9. CASE RotFinalize \/ RemoveFiles
  <2>1. files' = files \ Dropped /\ UNCHANGED <<content, purged, backups, intents, maint>>
    BY <1>9 DEF RotFinalize, RemoveFiles
  <2>2. Dropped' = {}
    BY <2>1 DEF Dropped
  <2> QED
    BY <2>1, <2>2 DEF NothingLeft
<1>10. CASE PurgeCommit
  <2>1. op'.at = "backups" /\ Naming(op.it) \subseteq intents
        /\ purged' = purged \cup {op.it} /\ maint' = maint \cup {op.it}
        /\ UNCHANGED <<files, backups, intents>>
    BY <1>10 DEF PurgeCommit
  <2>2. \A o \in Owners : o # op.it => content'[o] = content[o]
    BY <1>10 DEF PurgeCommit, SecretTypes
  <2>3. \A b \in Backups : backups[b][op.it] = "held" => b \in intents
    BY <2>1 DEF Naming
  <2> QED
    BY <2>1, <2>2, <2>3 DEF NothingLeft, SecretTypes
<1>11. ASSUME NEW b \in Backups, RegisterIntent(b) PROVE NothingLeft'
  BY <1>11 DEF RegisterIntent, NothingLeft, Dropped
<1>12. ASSUME NEW b \in Backups, RemoveBackup(b) PROVE NothingLeft'
  <2>1. \A c \in Backups, o \in Owners : backups'[c][o] = IF c = b THEN "none" ELSE backups[c][o]
    BY <1>12 DEF RemoveBackup, Forgotten
  <2>2. /\ intents' = intents \ {b} /\ op' = op
        /\ UNCHANGED <<content, files, purged, maint>>
    BY <1>12 DEF RemoveBackup
  <2> QED
    BY <2>1, <2>2 DEF NothingLeft, Dropped, SecretTypes
<1>13. CASE Maintained
  <2>1. /\ op.at = "done" /\ intents = {}
        /\ UNCHANGED <<content, files, purged, backups, intents>>
    BY <1>13 DEF Maintained, OperationAgrees
  <2>2. Dropped = {}
    BY <2>1 DEF NothingLeft
  <2>3. \A f \in files : content[f[1]][f[2]] # "deleted"
    BY <2>2 DEF Dropped
  <2>4. \A o \in purged, c \in Backups : backups[c][o] # "held"
    BY <2>1 DEF NothingLeft
  <2> QED
    BY <2>1, <2>2, <2>3, <2>4 DEF NothingLeft, Dropped
<1>14. ASSUME NEW b \in Backups, Backup(b) PROVE NothingLeft'
  <2>1. \A o \in purged, c \in Backups : backups'[c][o] = "held" => c # b /\ backups[c][o] = "held"
    BY <1>14 DEF Backup, SecretTypes, Bindings
  <2>2. op' = op /\ UNCHANGED <<content, files, purged, intents, maint>>
    BY <1>14 DEF Backup
  <2> QED
    BY <2>1, <2>2 DEF NothingLeft, Dropped
<1>15. CASE Fail
  <2>1. files' = {f \in files : Referenced(f)} /\ UNCHANGED <<content, purged, maint>>
    BY <1>15 DEF Fail
  <2>2. Dropped' = {}
    BY <2>1 DEF Dropped, Referenced
  <2>3. \A o \in purged, c \in Backups : backups'[c][o] # "held"
    BY <1>15 DEF Fail, Forgotten, NothingLeft, SecretTypes
  <2>4. \A f \in files' : f \in files
    BY <2>1
  <2> QED
    BY <2>1, <2>2, <2>3, <2>4 DEF NothingLeft
<1> QED
  BY <1>1, <1>2, <1>3, <1>5, <1>6, <1>7, <1>8, <1>9, <1>10, <1>11, <1>12, <1>13, <1>14, <1>15
     DEF SNext, Proceed

-----------------------------------------------------------------------------
LEMMA AtMostOne ==
  ASSUME NEW S, \A x, y \in S : x = y
  PROVE  Cardinality(S) <= 1
<1>1. CASE S = {}
  BY <1>1, FS_EmptySet
<1>2. CASE S # {}
  <2>1. PICK x \in S : S = {x}
    BY <1>2
  <2> QED
    BY <2>1, FS_Singleton
<1> QED
  BY <1>1, <1>2

(* Whatever is interrupted, resumed, revoked or purged: an active secret   *)
(* can be read, an open rotation's counts are what is bound, there is one  *)
(* current key and one open rotation at most, and a purge that is over has *)
(* left no file and no backup of the secret.                               *)
THEOREM SecretsAreSound ==
  ASSUME SecretAssumption
  PROVE  SSpec => []SecretsSound
<1>1. SInit => SecretInv
  BY SecretInit
<1>2. SecretInv /\ [SNext]_secretVars => SecretInv'
  BY SecretTypesStep, RowsStep, ReadableStep, OperationStep, LeftStep DEF SecretInv
<1>3. SecretInv => SecretsSound
  <2> SUFFICES ASSUME SecretInv PROVE SecretsSound
    OBVIOUS
  <2> USE DEF SecretInv, Rows
  <2>1. TypeOK
    BY DEF TypeOK, SecretTypes, Rotations, Nonces
  <2>2. KeysAgree
    BY AtMostOne DEF KeysAgree, OneOpen
  <2>3. PurgedIsGone
    BY DEF PurgedIsGone, NothingLeft, Idle
  <2> QED
    BY <2>1, <2>2, <2>3 DEF SecretsSound
<1> QED
  BY <1>1, <1>2, <1>3, PTL DEF SSpec
=============================================================================
