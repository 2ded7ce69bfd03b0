------------------------------ MODULE SecretStore ------------------------------
(* The keys of a data root and the contents encrypted under them.  A secret *)
(* is admitted in two protected requests (reserve a nonce, commit the       *)
(* ciphertext); a rotation rewrites every active content under a new key,   *)
(* item by item, and can be stopped and resumed; a purge removes an owner's *)
(* contents, their files and the backups that hold them.  The client queues *)
(* its operations, so one runs at a time, but any of them can be cut off    *)
(* between two requests, or inside one, by the death of the worker, whose   *)
(* successor reconciles the files and the backups when it opens the root.   *)
(*                                                                          *)
(* Keys are numbered by generation, and a rotation is named by its new key. *)
(* Every content is large enough to be kept in a file.  What the private    *)
(* descriptors, signatures and approvals prove is taken as given.           *)
EXTENDS Naturals, FiniteSets

CONSTANTS
  Owners,      \* what secrets belong to: an evidence or a memory revision
  Requests,    \* admissions, by idempotency key
  OwnerOf,     \* the owner each admission is for
  Backups,     \* backups that can be taken
  MaxKeys,     \* bound: generations of keys
  MaxFaults    \* bound: deaths of the worker

SecretAssumption ==
  /\ OwnerOf \in [Requests -> Owners]
  /\ "rotation" \notin Requests
  /\ Owners \subseteq Nat /\ IsFiniteSet(Owners)
  /\ MaxKeys \in Nat \ {0} /\ MaxFaults \in Nat

VARIABLES
  keys,          \* the state of each key
  rotation,      \* each rotation: state, old key, items in all and rewritten
  items,         \* its items: owner, the key of the old content, rewritten or not
  reservations,  \* nonces: owner, key, the request or "rotation", and state
  content,       \* each owner's content under each key
  bound,         \* the key of the owner's active content, 0 before it has one
  purged,        \* owners whose binding is no longer active
  files,         \* the files of contents, <<owner, key>>
  used,          \* use authorities anchored: <<rotation, owner>>
  backups,       \* what a backup knows of each owner
  intents,       \* backups registered for removal
  maint,         \* purges whose physical maintenance is pending
  op,            \* the operation that runs
  faults

secretVars == <<keys, rotation, items, reservations, content, bound, purged, files, used,
                backups, intents, maint, op, faults>>
keyVars == <<keys, rotation>>
contentVars == <<items, reservations, content, bound, purged>>
storeVars == <<files, used>>
backupVars == <<backups, intents, maint>>

Keys == 1..MaxKeys
Open == {"in_progress", "blocked"}
Idle == [do |-> "idle", it |-> 0, at |-> "idle"]
NoRotation == [state |-> "none", old |-> 0, total |-> 0, rewritten |-> 0]
Fresh == {k \in Keys : keys[k] = "none"}
Current == {k \in Keys : keys[k] = "current"}
OpenRotations == {k \in Keys : rotation[k].state \in Open}
Active(o) == bound[o] # 0 /\ o \notin purged
Usable(k) == keys[k] \notin {"none", "unavailable", "revoked"}
ItemsOf(k) == {i \in items : i.rot = k}
Pending(k) == {i \in ItemsOf(k) : ~i.done}
Running(do, at) == op.do = do /\ op.at = at
Go(at) == op' = [op EXCEPT !.at = at]

SInit ==
  /\ keys = [k \in Keys |-> "none"] /\ rotation = [k \in Keys |-> NoRotation]
  /\ items = {} /\ reservations = {}
  /\ content = [o \in Owners |-> [k \in Keys |-> "none"]]
  /\ bound = [o \in Owners |-> 0] /\ purged = {} /\ files = {} /\ used = {}
  /\ backups = [b \in Backups |-> [o \in Owners |-> "none"]] /\ intents = {} /\ maint = {}
  /\ op = Idle /\ faults = 0

-----------------------------------------------------------------------------
(* Keys and admissions.  A root gets its first key once; later ones come    *)
(* from rotations.                                                          *)
InstallKey ==
  /\ op = Idle /\ Fresh = Keys
  /\ keys' = [keys EXCEPT ![1] = "current"]
  /\ UNCHANGED <<rotation, contentVars, storeVars, backupVars, op, faults>>

(* An admission's earlier reservation is taken up again only if it is under *)
(* the current key; a new one needs that no key is being rotated to, and    *)
(* that the owner has none under the key.                                   *)
Nonce(r, k) == [owner |-> OwnerOf[r], key |-> k, by |-> r, state |-> "prepared"]
TakenUp(r, k) == Nonce(r, k) \in reservations
Reservable(r, k) ==
  /\ \A x \in Keys : keys[x] # "rotating_to"
  /\ ~\E x \in reservations : x.by = r \/ (x.owner = OwnerOf[r] /\ x.key = k)

Admit(r) ==
  /\ op = Idle
  /\ \E k \in Current : /\ TakenUp(r, k) \/ Reservable(r, k)
                        /\ reservations' = reservations \cup {Nonce(r, k)}
  /\ op' = [do |-> "admit", it |-> r, at |-> "write"]
  /\ UNCHANGED <<keyVars, items, content, bound, purged, storeVars, backupVars, faults>>

(* The commit is refused unless the reservation's key is still current and  *)
(* no rotation is open.  It writes the file first ...                       *)
MayCommit(x) == x.key \in Current /\ OpenRotations = {}

AdmitWrite ==
  /\ Running("admit", "write")
  /\ \E x \in reservations :
       /\ x.by = op.it
       /\ IF MayCommit(x) THEN files' = files \cup {<<x.owner, x.key>>} /\ Go("commit")
                          ELSE op' = Idle /\ UNCHANGED files
  /\ UNCHANGED <<keyVars, contentVars, used, backupVars, faults>>

(* ... and then binds the content, in one transaction; an owner that ever   *)
(* had a binding cannot get another, and the file stays behind.             *)
AdmitCommit ==
  /\ Running("admit", "commit")
  /\ \E x \in reservations :
       /\ x.by = op.it
       /\ IF bound[x.owner] = 0
          THEN /\ content' = [content EXCEPT ![x.owner][x.key] = "live"]
               /\ bound' = [bound EXCEPT ![x.owner] = x.key]
               /\ reservations' = (reservations \ {x}) \cup {[x EXCEPT !.state = "committed"]}
          ELSE UNCHANGED <<content, bound, reservations>>
  /\ op' = Idle
  /\ UNCHANGED <<keyVars, items, purged, storeVars, backupVars, faults>>

-----------------------------------------------------------------------------
(* Rotation.  The new key's items are the active contents under the current *)
(* one.                                                                     *)
ItemsUnder(c, k) ==
  {[rot |-> k, owner |-> o, old |-> c, done |-> FALSE] : o \in {o \in Owners : Active(o) /\ bound[o] = c}}

BeginRotation ==
  /\ op = Idle /\ Fresh # {} /\ OpenRotations = {}
  /\ \A k \in Keys : keys[k] # "rotating_to"
  /\ \E c \in Current, k \in Fresh :
       LET mine == ItemsUnder(c, k)
       IN /\ \A n \in Fresh : k <= n
          /\ keys' = [keys EXCEPT ![k] = "rotating_to"]
          /\ rotation' = [rotation EXCEPT ![k] =
               [state |-> "in_progress", old |-> c, total |-> Cardinality(mine), rewritten |-> 0]]
          /\ items' = items \cup mine
  /\ UNCHANGED <<reservations, content, bound, purged, storeVars, backupVars, op, faults>>

Resume(k) ==
  /\ op = Idle /\ rotation[k].state = "in_progress"
  /\ Usable(k) /\ Usable(rotation[k].old)
  /\ op' = [do |-> "resume", it |-> k, at |-> "next"]
  /\ UNCHANGED <<keyVars, contentVars, storeVars, backupVars, faults>>

(* Without a pending item the rotation completes; a resume that has         *)
(* rewritten as many items as it was asked to stops.                        *)
NextItem(k) == {i \in Pending(k) : \A j \in Pending(k) : i.owner <= j.owner}

Complete ==
  LET k == op.it
      old == rotation[k].old
  IN /\ op.do = "resume" /\ op.at \in {"next", "last"} /\ Pending(k) = {}
     /\ op' = Idle
     /\ IF /\ rotation[k].rewritten = rotation[k].total
           /\ keys[old] = "current" /\ keys[k] = "rotating_to"
        THEN /\ keys' = [keys EXCEPT ![old] = "retired", ![k] = "current"]
             /\ rotation' = [rotation EXCEPT ![k].state = "completed"]
        ELSE UNCHANGED keyVars
     /\ UNCHANGED <<contentVars, storeVars, backupVars, faults>>

Stop ==
  /\ Running("resume", "last") /\ Pending(op.it) # {} /\ op' = Idle
  /\ UNCHANGED <<keyVars, contentVars, storeVars, backupVars, faults>>

(* The authority to read an item names the rotation, but the store looks it *)
(* up by the old content alone and finds the first rotation that listed it. *)
(* Its identity is the item's while its hash covers its date, so once one   *)
(* is anchored, the recovery head refuses another for the item.             *)
Listed(i) == {j \in items : j.owner = i.owner /\ j.old = i.old}
Authorizes(i) == /\ \A j \in Listed(i) : i.rot <= j.rot
                 /\ <<i.rot, i.owner>> \notin used
                 /\ <<i.owner, i.old>> \in files

UseAuthority ==
  /\ Running("resume", "next")
  /\ \E i \in NextItem(op.it) :
       IF Authorizes(i) THEN used' = used \cup {<<i.rot, i.owner>>} /\ Go("reserve")
                        ELSE op' = Idle /\ UNCHANGED used
  /\ UNCHANGED <<keyVars, contentVars, files, backupVars, faults>>

RotReserve ==
  /\ Running("resume", "reserve")
  /\ \E i \in NextItem(op.it) :
       reservations' = reservations \cup
         {[owner |-> i.owner, key |-> op.it, by |-> "rotation", state |-> "prepared"]}
  /\ Go("write")
  /\ UNCHANGED <<keyVars, items, content, bound, purged, storeVars, backupVars, faults>>

RotWrite ==
  /\ Running("resume", "write")
  /\ \E i \in NextItem(op.it) : files' = files \cup {<<i.owner, op.it>>}
  /\ Go("commit")
  /\ UNCHANGED <<keyVars, contentVars, used, backupVars, faults>>

(* One transaction binds the owner to the new content, retires the old one, *)
(* and marks and counts the item.                                           *)
Retire(x) == IF x.state = "committed" THEN [x EXCEPT !.state = "retired"] ELSE x
CountedUncounted(k) == rotation[k]
Counted(k) == [rotation[k] EXCEPT !.rewritten = @ + 1]

RotCommit ==
  LET k == op.it
  IN /\ Running("resume", "commit") /\ rotation[k].state = "in_progress"
     /\ \E i \in NextItem(k) :
          /\ bound[i.owner] = i.old /\ Active(i.owner)
          /\ content' = [content EXCEPT ![i.owner][k] = "live", ![i.owner][i.old] = "retired"]
          /\ bound' = [bound EXCEPT ![i.owner] = k]
          /\ reservations' = {IF x.owner = i.owner /\ x.key = i.old THEN Retire(x)
                              ELSE IF x.owner = i.owner /\ x.key = k
                              THEN [x EXCEPT !.state = "committed"] ELSE x : x \in reservations}
          /\ items' = (items \ {i}) \cup {[i EXCEPT !.done = TRUE]}
     /\ rotation' = [rotation EXCEPT ![k] = Counted(k)]
     /\ Go("finalize")
     /\ UNCHANGED <<keys, purged, storeVars, backupVars, faults>>

(* The files of retired and deleted contents, whose artifact rows remain.   *)
Dropped == {f \in files : content[f[1]][f[2]] \in {"retired", "deleted"}}

RotFinalize ==
  /\ Running("resume", "finalize")
  /\ files' = files \ Dropped /\ (Go("next") \/ Go("last"))
  /\ UNCHANGED <<keyVars, contentVars, used, backupVars, faults>>

(* An abort is for a rotation that has rewritten nothing; it is rolled back *)
(* when the old key has been revoked.                                       *)
Abort(k) ==
  /\ op = Idle /\ rotation[k].state \in Open /\ rotation[k].rewritten = 0
  /\ keys[k] \in {"rotating_to", "revoked"} /\ Usable(rotation[k].old)
  /\ keys' = [keys EXCEPT ![k] = IF @ = "rotating_to" THEN "unavailable" ELSE @]
  /\ rotation' = [rotation EXCEPT ![k].state = "aborted"]
  /\ UNCHANGED <<contentVars, storeVars, backupVars, op, faults>>

Revoke(k) ==
  /\ op = Idle /\ keys[k] \notin {"none", "unavailable", "revoked"}
  /\ keys' = [keys EXCEPT ![k] = "revoked"]
  /\ rotation' = [n \in Keys |->
       IF rotation[n].state = "in_progress" /\ k \in {n, rotation[n].old}
       THEN [rotation[n] EXCEPT !.state = "blocked"] ELSE rotation[n]]
  /\ UNCHANGED <<contentVars, storeVars, backupVars, op, faults>>

-----------------------------------------------------------------------------
(* Purge.  The backups that name the owner are registered one by one; they  *)
(* are removed, with the files, after the transaction, by a maintenance     *)
(* that is repeated until it has finished.                                  *)
NotRotatingUnchecked(o) == TRUE
NotRotating(o) == OpenRotations = {}
Naming(o) == {b \in Backups : backups[b][o] # "none"}

Purge(o) ==
  /\ op = Idle /\ Active(o) /\ NotRotating(o)
  /\ op' = [do |-> "purge", it |-> o, at |-> "register"]
  /\ UNCHANGED <<keyVars, contentVars, storeVars, backupVars, faults>>

RegisterIntent(b) ==
  /\ Running("purge", "register") /\ b \in Naming(op.it) \ intents
  /\ intents' = intents \cup {b}
  /\ UNCHANGED <<keyVars, contentVars, storeVars, backups, maint, op, faults>>

PurgeCommit ==
  LET o == op.it
  IN /\ Running("purge", "register") /\ Naming(o) \subseteq intents
     /\ purged' = purged \cup {o} /\ maint' = maint \cup {o}
     /\ reservations' = {IF x.owner = o THEN Retire(x) ELSE x : x \in reservations}
     /\ items' = {i \in items : i.owner # o}
     /\ content' = [content EXCEPT ![o] =
          [k \in Keys |-> IF @[k] = "none" THEN "none" ELSE "deleted"]]
     /\ op' = [do |-> "maintain", it |-> 0, at |-> "backups"]
     /\ UNCHANGED <<keyVars, bound, storeVars, backups, intents, faults>>

(* The purge goes on with the maintenance; one that was cut off is taken up *)
(* when the root is opened or the purge is asked for again.                 *)
Maintain ==
  /\ op = Idle /\ maint # {}
  /\ op' = [do |-> "maintain", it |-> 0, at |-> "backups"]
  /\ UNCHANGED <<keyVars, contentVars, storeVars, backupVars, faults>>

Forgotten(bs) == [b \in Backups |-> IF b \in bs THEN [o \in Owners |-> "none"] ELSE backups[b]]

RemoveBackup(b) ==
  /\ Running("maintain", "backups") /\ b \in intents
  /\ backups' = Forgotten({b}) /\ intents' = intents \ {b}
  /\ UNCHANGED <<keyVars, contentVars, storeVars, maint, op, faults>>

RemoveFiles ==
  /\ Running("maintain", "backups") /\ intents = {}
  /\ files' = files \ Dropped /\ Go("done")
  /\ UNCHANGED <<keyVars, contentVars, used, backupVars, faults>>

Maintained ==
  /\ Running("maintain", "done") /\ maint' = {} /\ op' = Idle
  /\ UNCHANGED <<keyVars, contentVars, storeVars, backups, intents, faults>>

(* A backup is refused while a maintenance is pending.  It names every      *)
(* owner with a reservation, and holds the contents there are.              *)
Backup(b) ==
  /\ op = Idle /\ maint = {} /\ backups[b] = [o \in Owners |-> "none"]
  /\ \E x \in reservations : TRUE
  /\ backups' = [backups EXCEPT ![b] = [o \in Owners |->
       IF \E k \in Keys : content[o][k] \in {"live", "retired"} THEN "held"
       ELSE IF \E x \in reservations : x.owner = o THEN "named" ELSE "none"]]
  /\ UNCHANGED <<keyVars, contentVars, storeVars, intents, maint, op, faults>>

(* The worker dies, and the next one opens the root: it removes the backups *)
(* that are registered, and every file but those of live contents.          *)
Referenced(f) == content[f[1]][f[2]] = "live"
Fail ==
  /\ faults < MaxFaults /\ faults' = faults + 1
  /\ op' = Idle
  /\ backups' = Forgotten(intents) /\ intents' = {}
  /\ files' = {f \in files : Referenced(f)}
  /\ UNCHANGED <<keyVars, contentVars, used, maint>>

-----------------------------------------------------------------------------
(* The operation that runs takes its next step.                             *)
Proceed ==
  \/ AdmitWrite \/ AdmitCommit
  \/ Complete \/ UseAuthority \/ RotReserve \/ RotWrite \/ RotCommit
  \/ RotFinalize \/ Stop
  \/ PurgeCommit \/ RemoveFiles \/ Maintained
  \/ \E b \in Backups : RegisterIntent(b) \/ RemoveBackup(b)

SNext ==
  \/ InstallKey \/ BeginRotation
  \/ \E r \in Requests : Admit(r)
  \/ \E k \in Keys : Resume(k) \/ Abort(k) \/ Revoke(k)
  \/ \E o \in Owners : Purge(o)
  \/ Maintain \/ \E b \in Backups : Backup(b)
  \/ Proceed \/ Fail

SSpec == SInit /\ [][SNext]_secretVars

-----------------------------------------------------------------------------
KeyStates == {"none", "current", "rotating_to", "retired", "revoked", "unavailable"}
TypeOK ==
  /\ keys \in [Keys -> KeyStates]
  /\ \A k \in Keys : /\ rotation[k].state \in Open \cup {"none", "completed", "aborted"}
                     /\ rotation[k].old \in 0..MaxKeys
  /\ \A x \in reservations : x.owner \in Owners /\ x.key \in Keys
  /\ \A o \in Owners : bound[o] \in 0..MaxKeys
  /\ files \subseteq Owners \X Keys /\ intents \subseteq Backups /\ faults \in 0..MaxFaults

(* Whatever is interrupted, an active secret can be read: its one live      *)
(* content has its file, and its key is held, unless it was revoked.        *)
ActiveIsReadable ==
  \A o \in Owners : Active(o) =>
    /\ \A k \in Keys : content[o][k] = "live" <=> k = bound[o]
    /\ <<o, bound[o]>> \in files
    /\ keys[bound[o]] \in {"current", "rotating_to", "revoked"}

(* An open rotation's counts and items are what the owners are bound to, so *)
(* that it completes exactly when everything under the old key is rewritten. *)
CountIsExact ==
  \A k \in OpenRotations :
    /\ rotation[k].total = Cardinality(ItemsOf(k))
    /\ rotation[k].rewritten = Cardinality(ItemsOf(k) \ Pending(k))
    /\ \A i \in ItemsOf(k) : Active(i.owner) /\ bound[i.owner] = IF i.done THEN k ELSE i.old
    /\ \A o \in Owners : Active(o) /\ bound[o] = rotation[k].old =>
         \E i \in ItemsOf(k) : i.owner = o

(* A key is being rotated to only by an open rotation, and there is one.    *)
KeysAgree ==
  /\ Cardinality(Current) <= 1 /\ Cardinality(OpenRotations) <= 1
  /\ \A k \in Keys : keys[k] = "rotating_to" => k \in OpenRotations
  /\ \A k \in OpenRotations : rotation[k].state = "in_progress" =>
       keys[k] = "rotating_to" /\ keys[rotation[k].old] = "current"

(* Between operations no file is left of a content that was retired or      *)
(* deleted, and once its maintenance is done a purge has left nothing: no   *)
(* file, and no backup that holds the secret.                               *)
PurgedIsGone ==
  /\ op = Idle => Dropped = {}
  /\ \A o \in purged \ maint :
       /\ \A f \in files : f[1] = o => content[o][f[2]] # "deleted"
       /\ \A b \in Backups : backups[b][o] # "held"

SecretsSound == TypeOK /\ ActiveIsReadable /\ CountIsExact /\ KeysAgree /\ PurgedIsGone

-----------------------------------------------------------------------------
(* A rotation that is resumed again and again ends, or is blocked by a      *)
(* revocation, unless one of its items cannot be read under it any more: a  *)
(* resume was cut off after it had used the item's authority, or an earlier *)
(* rotation that was aborted had listed the item.                           *)
Stuck(k) == op = Idle /\ \E i \in Pending(k) : ~Authorizes(i)
RotationEnds ==
  \A k \in Keys : rotation[k].state = "in_progress" ~>
                    (rotation[k].state # "in_progress" \/ Stuck(k))

(* What the documents say and the code does not do.                         *)
(* "Thus there is never zero or more than one current key": of a root that  *)
(* has got its key.                                                         *)
AlwaysCurrent == Fresh = Keys \/ Cardinality(Current) = 1

(* "Rotation is an append-only resumable state machine": the next item of   *)
(* one that is in progress can be read.                                     *)
Resumable ==
  \A k \in Keys : (op = Idle /\ rotation[k].state = "in_progress") =>
    \A i \in Pending(k) : <<k, i.owner>> \notin used

(* A second rotation after an aborted one reads its own items.              *)
UseMatches ==
  \A k \in Keys : rotation[k].state = "in_progress" =>
    \A i \in Pending(k) : \A j \in Listed(i) : i.rot <= j.rot

(* "Abort is allowed only before the first rewritten item": it is allowed   *)
(* there.                                                                   *)
AbortIsOpen ==
  \A k \in OpenRotations : rotation[k].rewritten = 0 => Usable(rotation[k].old)
=============================================================================
