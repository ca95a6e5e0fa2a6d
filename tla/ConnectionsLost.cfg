CONSTANTS
  MAX_MSG = 1
  Rounds = 3
  Messages = 2
  Null = Null
  Raw = Raw
SPECIFICATION Spec
INVARIANT ArrivalsKept
CHECK_DEADLOCK FALSE
