CONSTANTS
    Script <- MCScript
    MaxSize = 28
    Sides = {"server", "client"}
    Uses = {"now", "later", "stream", "throw", "arm", "armLater"}
    Pipelining = TRUE
    MaxMessages = 2
    KeepAlive = 1
    HeaderTimeout = 0
    BodyTimeout = 1
    MaxAge = 2
SPECIFICATION Spec
INVARIANTS
    InSync
    FirstRequestTold
PROPERTIES
    EventuallyClosed
CHECK_DEADLOCK FALSE
