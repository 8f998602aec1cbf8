SPECIFICATION AnySpec
CONSTANTS
  MaxAsked = 6
  MaxWallets = 2
  MaxSaves = 2
  Accounts = {"a1", "a2"}
  Pages = 2
  MaxReads = 2
  MaxHeight = 2
  MaxMoves = 1
  MaxUser = 2
  MaxFaults = 1
  Wallets = {"w1", "w2"}
  Contents = {1, 2, 3}
  Oversized = {3}
  CacheReads = 3
  CacheMoves = 2
  Interval = 2
  MaxTime = 6
  MaxChanges = 5
  Nothing = Nothing
INVARIANTS SessionIsFile ShownIsTrue RestIsShown
PROPERTIES LatestRequestOpens
CHECK_DEADLOCK FALSE
