CONSTANTS
  MaxExitCode = 3
  MaxCode = 5
  Sessions <- Exhausting
SPECIFICATION Spec
INVARIANT
  ReadsOnlyValues
CHECK_DEADLOCK FALSE
