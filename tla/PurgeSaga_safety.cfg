SPECIFICATION PSpec
CONSTANTS
  m1 = m1  m2 = m2  e1 = e1  e2 = e2  k1 = k1  none = none
  c1 = c1  c2 = c2
  Memories <- TwoMemories
  Evidence <- TwoPieces
  Cites <- SharedCites
  BlobOf <- SameBlob
  Contents <- OneContent
  NoBlob = none
  Callers <- TwoCallers
  MaxAttempts = 2
  MaxBackups = 1
  MaxCrashes = 1
  FailAt <- LateFailure
  Operators <- OneOperator
CHECK_DEADLOCK FALSE
INVARIANTS SagaSound GuardIsRunningJob LiveIsServed CompletedIsGone
