CONSTANTS
  Width = 4
  Nothing = Nothing
  Thrown = Thrown
  Expressions <- MCExpressions
SPECIFICATION Spec
INVARIANTS
  YieldsAsDenoted
CHECK_DEADLOCK FALSE
