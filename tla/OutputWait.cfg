CONSTANTS
  Targets = {t1, t2}
  NoTarget = NoTarget
  t1 = t1
  t2 = t2
  WaitModes = {TRUE}
  MaxMessages = 3
  MaxCommands = 2
  Failures = {"locate", "connect"}
  MayBeLate = TRUE
  Finishing = TRUE
SPECIFICATION Spec
CHECK_DEADLOCK FALSE
PROPERTIES ImplementsOutbox
