\* On demand: violated.  Two threads subscribe while the first connection ends.
SPECIFICATION Spec
CONSTANTS
    Observers = {o1, o2}
    Once = {}
    Apps = {a1, a2}
    Kinds = {"subject"}
    ReplayCount = 1
    MaxValue = 0
INVARIANT ConnectedWhoeverSubscribes
CHECK_DEADLOCK FALSE
