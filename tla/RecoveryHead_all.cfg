SPECIFICATION FairSpec
CONSTANTS
  k1 = k1
  k2 = k2
  Keys <- TwoKeys
  Volatile <- OneVolatile
  Deltas <- MovingOrIdle
  MaxPending = 2
  MaxIds = 3
  MaxFaults = 3
  MaxCrashes = 2
  MaxBackups = 2
INVARIANTS AtMostOnce AnchorsAgree AckedIsAnchored DebtsAreSmall
PROPERTIES RecoveryIsAppendOnly AnchoredLedgerSpec RecoverySettles
