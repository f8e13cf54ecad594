SPECIFICATION FairSpec
CONSTANTS
  PoolSize = 1
  MaxPieces = 2
  MaxDetaches = 1
  Acks = {TRUE, FALSE}
  Failures = {"close", "reset", "corrupt"}
  HandlesReused = TRUE
PROPERTIES BrokenFreed ClosingReturns
CHECK_DEADLOCK FALSE
