SPECIFICATION Spec
CONSTANTS
    Addresses = {ip1}
    Descriptors = {1, 2}
    MaxFileEvents = 1
    MaxPackets = 0
    MaxStarts = 1
    MaxLives = 1
INVARIANT StopIsClean
CHECK_DEADLOCK FALSE
