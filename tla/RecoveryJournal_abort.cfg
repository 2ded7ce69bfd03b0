SPECIFICATION JSpec
CONSTANTS
  k1 = k1
  k2 = k2
  Keys <- TwoKeys
  Ids <- TwoIds
  MaxPending = 2
  Readers <- NoReader
  Aborts = TRUE
  MaxJournal = 3
  MaxGen = 4
  MaxCrashes = 0
INVARIANTS
  AlwaysReadable
