CONSTANTS
    MaxRequests = 2
    MaxCount = 2
SPECIFICATION Spec
INVARIANTS
    NoFreedEvent
PROPERTIES
    WorkerStops
    RequestEnds
CHECK_DEADLOCK FALSE
