\* On demand, with -continue: all three are violated. Items of a worker nest, begin
\* after their worker's end and, on an event loop, after their own.
CONSTANTS
  Tasks = {a, b}
  Own = {a}
  Worker = w
  MaxRequests = 3
  MaxNow = 2
  Forever = 9
SPECIFICATION Spec
INVARIANT NeverNested
PROPERTIES
  WorkerEndsAll
  OwnEndsAll
CHECK_DEADLOCK FALSE
