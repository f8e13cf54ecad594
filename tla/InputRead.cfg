CONSTANTS
  ServiceTypes = {"NO_BUFFERS", "DOUBLE_BUFFERS", "TRIPLE_BUFFERS"}
  ReadModes = {TRUE, FALSE}
  MixedReads = FALSE
  ReaderKinds = {"separate", "callback", "ending"}
  MaxMessages = 4
  BrokenReads = TRUE
SPECIFICATION Spec
CHECK_DEADLOCK FALSE
INVARIANTS EventDrivenReceives
PROPERTIES ImplementsMailbox
