CONSTANTS
  Targets = {t1, t2}
  NoTarget = NoTarget
  t1 = t1
  t2 = t2
  WaitModes = {TRUE, FALSE}
  MaxMessages = 3
  MaxCommands = 2
  Failures = {"locate", "connect", "send"}
  MayBeLate = TRUE
  Finishing = FALSE
SPECIFICATION Spec
CHECK_DEADLOCK FALSE
INVARIANTS NoNullSend SpaceMeansSent UsedWhileListed WaitsAreMet
PROPERTIES NothingOverwritten SentInOrder
