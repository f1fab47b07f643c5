CONSTANTS
    W = 2
    Owner = owner
    Caller = caller
    Others = {owner, caller}
    Nobody = Nobody
    Idle = Idle
    Conns = {c1, c2}
    Fds = {c1, c2, "peersQueue"}
    Tls = TRUE
    Timed = TRUE
    Silent = {c1}
    HandlerMayStop = TRUE
SPECIFICATION Spec
INVARIANTS
    HandlersSafe
    NoConnectionLeaked
PROPERTIES
    ServerStops
    EveryClientServed
CHECK_DEADLOCK FALSE
