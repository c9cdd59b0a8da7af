CONSTANTS
  ConsoleWidth = 18
  MaxFinite = 4
  Magnitudes = 7
  Layouts <- MCLayouts
  Bytes <- MCBytes
  Texts <- MCTexts
  Captured <- MCCaptured
  Leaves <- MCLeaves
  Expressions <- MCExpressions
  Subjects <- MCSubjects
  Numbers <- MCNumbers
  Margins = {0, 1, 2, 3}
  Ulps = {0, 1, 2, 5}
  MaxRows = 10
SPECIFICATION Spec
INVARIANTS
  Wrapped
  TextKept
  CapturesNamed
  MatchesAsMeant
CHECK_DEADLOCK FALSE
