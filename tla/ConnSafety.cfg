SPECIFICATION Spec
CONSTANTS
  PoolSize = 2
  MaxPieces = 1
  MaxDetaches = 0
  Acks = {TRUE, FALSE}
  Failures = {"close", "corrupt"}
  HandlesReused = TRUE
INVARIANTS AvailableMeansEnded WaitIsAnswered NoCrash NoStaleToken OneSource OnlyLateOnesLeft
PROPERTY ImplementsInbox
CHECK_DEADLOCK FALSE
