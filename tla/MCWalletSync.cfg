SPECIFICATION AnySpec
CONSTANTS
  Addresses = {"a1", "a2"}
  Journal = TRUE
  FlushEvery = 2
  MaxWatched = 100
  MaxVer = 1
  MaxFaults = 1
  MaxDrops = 0
INVARIANTS QuietIsFresh SubscriptionsFit NoStrandedEvent
PROPERTIES ImplementsEventRefresh
CHECK_DEADLOCK FALSE
