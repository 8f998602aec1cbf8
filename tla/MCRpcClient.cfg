SPECIFICATION AnySpec
CONSTANTS
  Requests <- MixedRequests
  MethodOf <- MixedMethodOf
  Slots = 1
  MaxQueued = 3
  Limit <- OnePerWindow
  Window = 1
  MaxCooldown = 1
  MaxSockets = 2
INVARIANTS NoneIdleNoneSilent HonestOutcome QuotaKept
PROPERTIES WriteFenced GrantsAreFifo
CHECK_DEADLOCK FALSE
