CONSTANTS
    Requests = {r1, r2}
    Timed = {r1}
    Transports = {t1}
    NONE = NONE
    PoolSize = 1
    QueueSize = 1
    MaxFaults = 0
SPECIFICATION MCSpec
INVARIANTS
    RightResponse
CHECK_DEADLOCK FALSE
