SPECIFICATION FSpec
CONSTANTS
  t1 = t1  t2 = t2  p1 = p1  p2 = p2
  Turns <- OneTurn
  Proposals <- OneProposal
  Rescoped <- Nothing
  MaxGeneration = 1
  MaxAttempts = 3
  BatchLimit = 2
  MaxCrashes = 1
  Faults = FALSE
CHECK_DEADLOCK FALSE
INVARIANTS InterruptedJobsRecover
