\* A client thread is still inside the bus when main() returns.
SPECIFICATION ServiceSpec
CONSTANTS
    e1 = e1
    Events = {e1}
    ArpEvents = {}
    AddressSources = {}
    Limit = 1
    DepthMod = 8
    MaxThreads = 1
    Horizon = 0
    NoSource = NoSource
INVARIANT BusOutlivesPushers
CHECK_DEADLOCK FALSE
