\* Two clients, a signal at any time, the first period.
SPECIFICATION FairServiceSpec
CONSTANTS
    e1 = e1
    e2 = e2
    Events = {e1, e2}
    ArpEvents = {}
    AddressSources = {}
    Limit = 1
    DepthMod = 8
    MaxThreads = 2
    Horizon = 0
    NoSource = NoSource
PROPERTIES
    FilterNoticed
    ServiceExits
    StoppedIsQuiet
CHECK_DEADLOCK FALSE
