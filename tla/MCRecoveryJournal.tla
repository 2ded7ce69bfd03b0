-------------------------- MODULE MCRecoveryJournal --------------------------
(* Model values and sets for checking RecoveryJournal with TLC. *)
EXTENDS RecoveryJournal, TLC

CONSTANTS k1, k2

TwoKeys   == {k1, k2}
TwoIds    == 1 .. 2
NoReader  == {}

=============================================================================
