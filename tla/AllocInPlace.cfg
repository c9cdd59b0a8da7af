CONSTANTS
  SizeMax = 7
  Pointer = {p1, p2, p3}
  p1 = p1
  p2 = p2
  p3 = p3
  Requests = {0, 1, 2, 4}
  Limits = {3, 5}
  Environments <- MCEnvironments
  MaxRecords = 2
  MayMove = FALSE
  ZeroFrees = FALSE
  ForeignFrees = FALSE
SPECIFICATION Spec
SYMMETRY PointerSymmetry
INVARIANTS
  PeakCap
PROPERTIES
  ImplementsContract
CHECK_DEADLOCK FALSE
