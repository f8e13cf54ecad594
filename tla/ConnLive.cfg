SPECIFICATION FairSpec
CONSTANTS
  PoolSize = 2
  MaxPieces = 1
  MaxDetaches = 0
  Acks = {FALSE}
  Failures = {"corrupt"}
  HandlesReused = FALSE
PROPERTIES HeadServed AcceptorServed
CHECK_DEADLOCK FALSE
