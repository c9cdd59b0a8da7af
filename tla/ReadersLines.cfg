CONSTANTS
  Char = {x, y, nl}
  NL = nl
  x = x
  y = y
  nl = nl
  EOF = EOF
  Null = Null
  LineCap = 2
  AllCap = 2
  MaxInput = 5
SPECIFICATION Spec
INVARIANTS
  RoomForNext
  NothingLeaks
  AllOrNothing
PROPERTIES
  ImplementsLineSource
  CallEnds
CHECK_DEADLOCK FALSE
