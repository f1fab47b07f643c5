CONSTANTS
    Threads = {t1, t2}
    NONE = NONE
    MaxRoots = 1
    MaxCores = 5
    MaxDepth = 3
    MaxRaises = 1
    Fewer = 4
SPECIFICATION MCSpec
INVARIANTS
    CalledOnce
    NoLostContinuation
PROPERTIES
    EventuallyCalled
