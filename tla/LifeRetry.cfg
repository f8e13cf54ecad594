SPECIFICATION Spec
CONSTANTS
  Calls = {"retry"}
  Failures = {"register"}
  MaxCalls = 3
  MaxWrites = 1
INVARIANT BeginAssertion
CHECK_DEADLOCK FALSE
