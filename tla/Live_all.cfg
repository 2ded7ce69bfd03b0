SPECIFICATION FairSpec
CHECK_DEADLOCK FALSE
PROPERTIES PairsSettle ScopeSettles CallsSettle LanesAreServed ShutdownEnds
