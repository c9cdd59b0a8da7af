CONSTANTS
  MaxExitCode = 3
  MaxCode = 5
  Sessions <- MCSessions
SPECIFICATION Spec
INVARIANTS
  NeverIllogical
  NoneForgotten
  
PROPERTIES
  WellTold
  NoneTwice
  NoStartAfterAbort
  SessionEndsAtLast
CHECK_DEADLOCK FALSE
