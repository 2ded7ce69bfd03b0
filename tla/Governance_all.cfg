SPECIFICATION MCSpec
CONSTANTS
  Memories = {1}
  Calls = {1, 2, 3}
  Tools <- LaneTools
  Contents = {"x", "y"}
  Decisions <- LaneDecisions
  Times <- LaneTimes
  Lanes = {"fts", "layered"}
  MaxProjectionAttempts = 2
  ClaimLimit = 2
  MaxWorkerFaults = 1
  MaxFtsAttempts = 2
  MaxFtsFailures = 1
CHECK_DEADLOCK FALSE
INVARIANTS LinearHistory ViewsSound
PROPERTIES AnsweredOnce ChildrenSound DeliveriesSound
