\* On demand: the types, what recursion is for, and the virtual clock.
CONSTANTS
  Tasks = {a, b}
  Own = {a}
  Worker = w
  MaxRequests = 3
  MaxNow = 2
  Forever = 9
SPECIFICATION Spec
INVARIANT SchedulerTypeOK
PROPERTY ClockForward
CHECK_DEADLOCK FALSE
