\* On demand: the types, and that file events are read.
SPECIFICATION FairSpec
CONSTANTS
    Addresses = {ip1}
    Descriptors = {1, 2}
    MaxFileEvents = 2
    MaxPackets = 1
    MaxStarts = 2
    MaxLives = 2
INVARIANT HostTypeOK
PROPERTY EventsAreRead
CHECK_DEADLOCK FALSE
