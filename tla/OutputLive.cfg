CONSTANTS
  Targets = {t1}
  NoTarget = NoTarget
  t1 = t1
  WaitModes = {TRUE}
  MaxMessages = 3
  MaxCommands = 2
  Failures = {"locate", "send"}
  MayBeLate = TRUE
  Finishing = FALSE
SPECIFICATION FairSpec
CHECK_DEADLOCK FALSE
PROPERTIES WriteReturns EndReturns CommandOnlyDelayed
