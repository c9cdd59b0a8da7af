CONSTANTS
  Width = 8
  SizeModulus = 16
  MaxSteps = 4
  SectionNames = {11, 12}
  Configs <- MCConfigs
SPECIFICATION Spec
INVARIANTS
  WellNested
  ToldInPlace
  MessagesInScope
  CountsAgree
CHECK_DEADLOCK FALSE
