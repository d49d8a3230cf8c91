\* On demand: take(0) sends a value, which its documentation rules out.
CONSTANTS
  Operators <- MCOperators
  MaxT = 4
  MaxLog = 2
  MaxNext = 2
  LastSend = 1
  MaxNow = 2
SPECIFICATION Spec
INVARIANT
  TakesOnlyTheFirst
CHECK_DEADLOCK FALSE
