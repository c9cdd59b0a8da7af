CONSTANTS
  MaxText = 4
  MaxTexts = 2
  MaxInt = 9
  Reporters = {"console", "xml"}
  Files <- MCFiles
  TestCases <- MCTestCases
  Lines <- MCLines
SPECIFICATION SpecLine
INVARIANTS
  SelectsAsWritten
  NothingCarriedOver
  ParsedAsWritten
  ListsWhatRuns
CHECK_DEADLOCK FALSE
