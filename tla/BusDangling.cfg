\* A thread walks on to a window that was popped under it.
SPECIFICATION Spec
CONSTANTS
    e1 = e1
    Events = {e1}
    ArpEvents = {}
    Limit = 1
    DepthMod = 8
    MaxThreads = 1
    Horizon = 1
    NoSource = NoSource
INVARIANT NoDanglingWindow
CHECK_DEADLOCK FALSE
