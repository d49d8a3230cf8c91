\* On demand: what else holds of the window thread; the safety properties are theorems.
SPECIFICATION FairTimerSpec
CONSTANT Horizon = 3
INVARIANTS
    TimerTypeOK
    ReleasesTheFront
    NoDrift
PROPERTIES
    JoinedIsFinal
    UnsubscribeReturns
CHECK_DEADLOCK FALSE
