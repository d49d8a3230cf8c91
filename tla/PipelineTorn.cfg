\* On demand: violated.  A run after a killed one copies the torn file over
\* the only whole backup.
SPECIFICATION Spec
CONSTANTS
  Installed = {}
  ByHand = {2}
  MaxRuns = 2
  MaxFaults = 2
INVARIANT WholeTextKept
CHECK_DEADLOCK FALSE
