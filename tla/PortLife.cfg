SPECIFICATION FairSpec
CONSTANTS
  Calls = {"deactivate"}
  Failures = {"register"}
  MaxCalls = 4
  MaxWrites = 3
INVARIANTS TokenMeansSent ResultTrue
PROPERTIES RegisterReturns UnregisterReturns
CHECK_DEADLOCK FALSE
