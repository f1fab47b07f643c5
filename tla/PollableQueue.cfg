CONSTANTS
    Producers = {p1, p2}
    Entries = {e1, e2, e3}
    NULL = NULL
    MaxPush = 3
SPECIFICATION FairSpec
INVARIANTS
    NoLostWakeup
    MemoryKept
PROPERTIES
    EventuallyReceived
    ImplementsFifo
