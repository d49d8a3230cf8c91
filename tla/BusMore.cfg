\* On demand: what else holds of the bus; all but EveryPushReturns are theorems.
SPECIFICATION FairSpec
CONSTANTS
    e1 = e1
    e2 = e2
    Events = {e1, e2}
    ArpEvents = {e2}
    Limit = 1
    DepthMod = 8
    MaxThreads = 2
    Horizon = 2
    NoSource = NoSource
INVARIANT BusTypeOK
PROPERTIES
    EmitFindsLive
    DisposedDrains
    EveryPushReturns
CHECK_DEADLOCK FALSE
