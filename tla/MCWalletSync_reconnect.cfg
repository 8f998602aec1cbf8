SPECIFICATION Spec
CONSTANTS
  Addresses = {"a1"}
  Journal = TRUE
  FlushEvery = 2
  MaxWatched = 100
  MaxVer = 1
  MaxFaults = 0
  MaxDrops = 1
INVARIANTS QuietIsFresh
CHECK_DEADLOCK FALSE
