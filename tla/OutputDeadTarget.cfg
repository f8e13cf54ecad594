CONSTANTS
  Targets = {t1}
  NoTarget = NoTarget
  t1 = t1
  WaitModes = {TRUE}
  MaxMessages = 3
  MaxCommands = 1
  Failures = {"connect"}
  MayBeLate = FALSE
  Finishing = FALSE
SPECIFICATION FairSpec
CHECK_DEADLOCK FALSE
PROPERTIES WriteReturns
