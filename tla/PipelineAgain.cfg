SPECIFICATION Spec
CONSTANTS
  Installed = {}
  ByHand = {7, 9, 10, 17, 22}
  MaxRuns = 3
  MaxFaults = 0
INVARIANTS Idempotent
CHECK_DEADLOCK FALSE
