--------------------------- MODULE MCRecoveryHead ---------------------------
(* Model values and sets for checking RecoveryHead with TLC. *)
EXTENDS RecoveryHead, TLC

CONSTANTS k1, k2

TwoKeys == {k1, k2}
OneVolatile == {k2}

MovingOrIdle == {0, 1}  \* an effect may leave it as it was

=============================================================================
