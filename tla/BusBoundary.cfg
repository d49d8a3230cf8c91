\* Two threads push while windows are opened and released around them.
SPECIFICATION FairSpec
CONSTANTS
    e1 = e1
    e2 = e2
    Events = {e1, e2}
    ArpEvents = {e2}
    Limit = 1
    DepthMod = 8
    MaxThreads = 2
    Horizon = 2
    NoSource = NoSource
INVARIANTS
    CountersAgree
    DepthExact
    UnheardWasOvertaken
PROPERTY ImplementsEventLedger
CHECK_DEADLOCK FALSE
