\* Two threads take queue_depth below zero, a third event is refused.
SPECIFICATION Spec
CONSTANTS
    e1 = e1
    e2 = e2
    e3 = e3
    Events = {e1, e2, e3}
    ArpEvents = {}
    Limit = 3
    DepthMod = 8
    MaxThreads = 2
    Horizon = 1
    NoSource = NoSource
INVARIANT RefusedOnlyWhenFull
CHECK_DEADLOCK FALSE
