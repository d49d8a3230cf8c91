CONSTANTS
  Operators <- MCOperators
  MaxT = 4
  MaxLog = 5
  MaxNext = 2
  LastSend = 1
  MaxNow = 3
SPECIFICATION Spec
INVARIANTS
  OutputIsReference
  NobodyLeftWaiting
  NeverEarly
  DeliveredAsSent
  EndReached
CHECK_DEADLOCK FALSE
