\* Two threads mark two addresses and clear the memory once.
SPECIFICATION FairSpec
CONSTANTS
    c1 = c1
    c2 = c2
    i1 = i1
    i2 = i2
    b1 = b1
    b2 = b2
    b3 = b3
    Callers = {c1, c2}
    Ips = {i1, i2}
    Addresses = {i1, i2}
    NoIp = NoIp
    Bits = {b1, b2, b3}
    hash1 <- ShareBit1
    hash2 <- ShareBit2
    MaxEntries = 1
    MaxMarks = 3
    MaxClears = 1
INVARIANTS
    NoFalseNegative
    ThreeStrikes
PROPERTY ThirdStrikeRequests
CHECK_DEADLOCK FALSE
