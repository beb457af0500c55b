SPECIFICATION Spec
CONSTANTS
  Runs = {1}
  MaxLength = 3
  Weathers <- Failing
INVARIANT FailureKeepsTheDisk
CHECK_DEADLOCK FALSE
