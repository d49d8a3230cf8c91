CONSTANTS
  Tasks = {a, b}
  Own = {a}
  Worker = w
  MaxRequests = 3
  MaxNow = 2
  Forever = 9
SPECIFICATION Spec
INVARIANTS
    InOrder
    OneAtATime
    NothingLost
PROPERTIES
    BeginsAliveAndDue
    Advanced
    Served
CHECK_DEADLOCK FALSE
