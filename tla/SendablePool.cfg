SPECIFICATION FairSpec
CONSTANTS
  Targets = {t1, t2}
  WaitModes = {TRUE, FALSE}
  MaxSendables = 5
INVARIANTS CountsPointers OnePlace WriterOwnsContent PoolBounded
PROPERTIES EverythingReturns
CHECK_DEADLOCK FALSE
