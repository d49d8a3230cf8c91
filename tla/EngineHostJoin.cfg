\* On demand: a thread that reads another part's descriptor is not woken.
SPECIFICATION FairSpec
CONSTANTS
    Addresses = {ip1}
    Descriptors = {1, 2}
    MaxFileEvents = 1
    MaxPackets = 0
    MaxStarts = 1
    MaxLives = 1
PROPERTY CloseWakesTheRead
CHECK_DEADLOCK FALSE
