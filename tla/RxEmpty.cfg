CONSTANTS
  Operators <- MCOperators
  MaxT = 4
  MaxLog = 1
  MaxNext = 1
  LastSend = 1
  MaxNow = 3
SPECIFICATION Spec
INVARIANT
  NothingTakenFromEmpty
CHECK_DEADLOCK FALSE
