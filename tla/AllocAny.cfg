CONSTANTS
  SizeMax = 7
  Pointer = {p1, p2}
  p1 = p1
  p2 = p2
  Requests = {0, 1, 2, 4}
  Limits = {3, 5}
  Environments <- MCEnvironments
  MaxRecords = 2
  MayMove = TRUE
  ZeroFrees = TRUE
  ForeignFrees = TRUE
SPECIFICATION Spec
SYMMETRY PointerSymmetry
INVARIANTS
  LedgerBalanced
  SpentBalanced
PROPERTIES
  TotalOnlyShrinks
  RecordFollowsBlock
CHECK_DEADLOCK FALSE
