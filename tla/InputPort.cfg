CONSTANTS
  ServiceTypes = {"NO_BUFFERS", "DOUBLE_BUFFERS", "TRIPLE_BUFFERS"}
  ReadModes = {TRUE, FALSE}
  MixedReads = TRUE
  ReaderKinds = {"separate", "callback", "ending"}
  MaxMessages = 3
  BrokenReads = FALSE
SPECIFICATION FairSpec
CHECK_DEADLOCK FALSE
INVARIANTS NoBufferLostOrShared ReaderOwnsContent WaitsAreMet BlockedOnlyByReader DeliveredComplete
PROPERTIES FillUndisturbed EndReturns InputIsRead
