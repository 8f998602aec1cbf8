SPECIFICATION Spec
CONSTANTS
  Domains = {"d1", "d2", "d3"}
  Limit = 2
  MaxCatalogs = 3
  MaxHalts = 0
  EarlyReturns = TRUE
INVARIANTS AtMostLimit
CHECK_DEADLOCK FALSE
