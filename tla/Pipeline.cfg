SPECIFICATION Spec
CONSTANTS
  Installed = {2, 7, 17, 22, 23}
  ByHand = {0, 2, 3, 7, 9, 10, 11, 12, 13, 14, 16, 17, 18, 20, 21, 22, 24, 25}
  MaxRuns = 2
  MaxFaults = 2
INVARIANTS
    InOrder
    OldOrNew
    RollbackExact
    SuccessMeansDone
    RelockedAsFound
    LocksNoObstacle
CHECK_DEADLOCK FALSE
