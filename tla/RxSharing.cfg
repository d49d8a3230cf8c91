SPECIFICATION Spec
CONSTANTS
    Observers = {o1, o2}
    Once = {o1}
    Apps = {a1, a2}
    Kinds = {"subject", "behavior", "replay"}
    ReplayCount = 1
    MaxValue = 2
INVARIANTS
    NoGap
    EveryoneHearsTheEnd
    CountExact
    ConnectedWhileWanted
CHECK_DEADLOCK FALSE
