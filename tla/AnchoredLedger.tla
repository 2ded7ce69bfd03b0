--------------------------- MODULE AnchoredLedger ---------------------------
(***************************************************************************)
(* What recovery protection promises to the callers of the storage client  *)
(* (packages/storage-sqlite), with no crash, retry or message in sight.    *)
(*                                                                         *)
(* A protected operation, named by its idempotency key, is applied to the  *)
(* database at most once; it is then anchored, exactly once, in the        *)
(* external recovery head; only after that may its receipt be delivered.   *)
(* The head follows the database and lags it by at most one effect.        *)
(***************************************************************************)
EXTENDS Naturals

CONSTANT Keys           \* idempotency keys of protected operations

VARIABLES version,      \* state commitment of the database, as a counter
          anchored,     \* state commitment the external head vouches for
          applied,      \* keys whose effect is durable in the database
          witnessed,    \* keys whose effect the external head has counted
          acked         \* keys whose caller has received the receipt

aVars == <<version, anchored, applied, witnessed, acked>>

AInit ==
  /\ version = 0 /\ anchored = 0
  /\ applied = {} /\ witnessed = {} /\ acked = {}

(* An effect lands only on a state the head already vouches for.  It may   *)
(* leave the governed state as it was (an idle drain, an empty claim).     *)
Apply(k) ==
  /\ k \in Keys \ applied
  /\ anchored = version
  /\ version' \in {version, version + 1}
  /\ applied' = applied \cup {k}
  /\ UNCHANGED <<anchored, witnessed, acked>>

(* The head moves forward, never past the database, one effect at a time.  *)
Anchor(k) ==
  /\ k \in applied \ witnessed
  /\ anchored' \in {anchored, anchored + 1}
  /\ anchored' <= version
  /\ witnessed' = witnessed \cup {k}
  /\ UNCHANGED <<version, applied, acked>>

Deliver(k) ==
  /\ k \in witnessed
  /\ acked' = acked \cup {k}
  /\ UNCHANGED <<version, anchored, applied, witnessed>>

ANext == \E k \in Keys : Apply(k) \/ Anchor(k) \/ Deliver(k)

ASpec == AInit /\ [][ANext]_aVars
=============================================================================
