SPECIFICATION AnySpec
CONSTANTS
  MaxTasks = 2
  MaxGen = 2
  MaxFaults = 2
  Keys = {"k1"}
  MaxSubmitting = 1
  MaxRequests = 3
  Capacity = 2
  ControlCapacity = 2
  PoolFaults = 1
  Nothing = Nothing
  Refused = Refused
  Unknown = Unknown
INVARIANTS StopsClean RatesAndPagesAreExact
PROPERTIES PoolIsWatched ProofsAreKept
CHECK_DEADLOCK FALSE
