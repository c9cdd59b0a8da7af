CONSTANTS
  SizeMax = 7
  Pointer = {p1, p2}
  p1 = p1
  p2 = p2
  Requests = {0, 1, 2, 4}
  Limits = {3, 5}
  Environments <- MCEnvironments
  MaxRecords = 2
  MayMove = TRUE
  ZeroFrees = FALSE
  ForeignFrees = FALSE
SPECIFICATION Spec
SYMMETRY PointerSymmetry
INVARIANTS
  PeakCap
CHECK_DEADLOCK FALSE
