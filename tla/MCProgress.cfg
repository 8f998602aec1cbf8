SPECIFICATION ProgressSpec
CONSTANTS
  MaxHeight = 2
  Fork = 0
  Window = 4
  MaxMoves = 2
  UnflaggedAt = {}
  MaxDrops = 1
INVARIANTS ShownOnOneChain
PROPERTIES HaltCompletes DomainsResolve WalletSettles
CHECK_DEADLOCK FALSE
