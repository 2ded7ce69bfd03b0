SPECIFICATION PSpec
CONSTANTS
  m1 = m1  m2 = m2  e1 = e1  e2 = e2  k1 = k1  none = none
  c1 = c1  c2 = c2
  Memories <- TwoMemories
  Evidence <- TwoPieces
  Cites <- SharedCites
  BlobOf <- OneBlob
  Contents <- OneContent
  NoBlob = none
  Callers <- OneCaller
  MaxAttempts = 3
  MaxBackups = 0
  MaxCrashes = 1
  FailAt <- NoFailure
  Operators <- NoOperator
CHECK_DEADLOCK FALSE
INVARIANT PublishedIsMaintained
