SPECIFICATION Spec
CONSTANTS
    Threads = {t1, t2, t3}
    Subs = {s1, s2}
    Removing = {s1}
    Free = Free
    MaxCalls = 1
INVARIANT NoneLeftBehind
PROPERTY EveryCallReturns
CHECK_DEADLOCK FALSE
