CONSTANTS
    Requests = {r1, r2, r3}
    Timed = {r1}
    Transports = {t1, t2}
    NONE = NONE
    PoolSize = 2
    QueueSize = 1
    MaxFaults = 1
SPECIFICATION MCSpec
INVARIANTS
    NoRequestLost
    ResponseOfRequest
PROPERTIES
    HandedOverSettles
CHECK_DEADLOCK FALSE
