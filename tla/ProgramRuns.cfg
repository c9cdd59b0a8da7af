CONSTANTS
  MaxFd = 8
  MaxChecks = 2
  Texts = {"text"}
  Codes = {0, 1, 252}
  Faults = {"mkstemp", "fclose"}
SPECIFICATION Spec
INVARIANTS
  DescriptorsKept
  StreamsReachProgram
  ResultIsTold
PROPERTIES
  CheckEnds
CHECK_DEADLOCK FALSE
