SPECIFICATION LiveSpec
CONSTANTS
  Requests <- PairRequests
  MethodOf <- PairMethodOf
  Slots = 1
  MaxQueued = 3
  Limit <- OnePerWindow
  Window = 1
  MaxCooldown = 1
  MaxSockets = 2
PROPERTIES EveryCallSettles WalletConverges HelpersAnswer
CHECK_DEADLOCK FALSE
