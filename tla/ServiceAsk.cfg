\* The null-route is counted, and seen by the poll, before its source is there.
SPECIFICATION FairServiceSpec
CONSTANTS
    e1 = e1
    Events = {e1}
    ArpEvents = {}
    AddressSources = {}
    Limit = 1
    DepthMod = 8
    MaxThreads = 1
    Horizon = 0
    NoSource = NoSource
PROPERTY FilteredIsAsked
CHECK_DEADLOCK FALSE
