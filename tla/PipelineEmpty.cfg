\* On demand: violated.  A plan without a module runs the empty name.
SPECIFICATION Spec
CONSTANTS
  Installed = {2}
  ByHand = {}
  MaxRuns = 1
  MaxFaults = 0
INVARIANT NothingToDoIsFine
CHECK_DEADLOCK FALSE
