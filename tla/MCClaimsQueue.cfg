SPECIFICATION AnySpec
CONSTANTS
  Hosts = {"h1", "h2"}
  MaxClicks = 2
  MaxReviews = 1
  MaxLocks = 1
  MaxFaults = 1
INVARIANTS SettingsHold BestIsPicked
PROPERTIES TurnsInOrder
CHECK_DEADLOCK FALSE
