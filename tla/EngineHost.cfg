SPECIFICATION FairSpec
CONSTANTS
    Addresses = {ip1}
    Descriptors = {1, 2}
    MaxFileEvents = 2
    MaxPackets = 1
    MaxStarts = 2
    MaxLives = 2
INVARIANTS
    BusOutlivesMonitor
    OneDescriptor
    KernelReleased
PROPERTY StopReturns
CHECK_DEADLOCK FALSE
