SPECIFICATION FairSpec
CHECK_DEADLOCK FALSE
PROPERTIES PurgesComplete SpoolDrains StaleIsRecovered RotationEnds OperationsEnd
