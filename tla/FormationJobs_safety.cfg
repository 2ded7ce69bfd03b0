SPECIFICATION FSpec
CONSTANTS
  t1 = t1  t2 = t2  p1 = p1  p2 = p2
  Turns <- OneTurn
  Proposals <- TwoProposals
  Rescoped <- Far
  MaxGeneration = 2
  MaxAttempts = 2
  BatchLimit = 2
  MaxCrashes = 1
  Faults = TRUE
CHECK_DEADLOCK FALSE
INVARIANTS JobsSound
PROPERTIES SettledForGood
