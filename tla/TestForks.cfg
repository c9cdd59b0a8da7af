CONSTANTS
  MaxProcs = 3
  MaxCount <- MCMaxCount
  StatusMod = 3
  ExitCodes = {0, 1}
  Text = {t1}
  t1 = t1
SPECIFICATION Spec
INVARIANTS
  StatusTells
  PrintedOnce
PROPERTIES
  OutputKept
  VerdictIsRight
  RunTestEnds
CHECK_DEADLOCK FALSE
