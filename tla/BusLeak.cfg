\* An event that no window hears keeps its place in queue_depth.
SPECIFICATION Spec
CONSTANTS
    e1 = e1
    Events = {e1}
    ArpEvents = {}
    Limit = 1
    DepthMod = 8
    MaxThreads = 1
    Horizon = 0
    NoSource = NoSource
INVARIANT NoDepthLeak
CHECK_DEADLOCK FALSE
