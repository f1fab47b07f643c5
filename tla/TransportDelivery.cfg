CONSTANTS
    Conns = {c1}
    Fds = {f1}
    Apps = {a1, a2}
    NONE = NONE
    AppKinds = {"raw", "file"}
    WriteSize = 2
    Cap = 1
    MaxInput = 2
    MaxChunks = 1
    MaxTicks = 1
    MaxErrors = 1
SPECIFICATION FairSpec
INVARIANTS
    WritesInOrder
    ResolvedMeansSent
    SentWhenWritable
PROPERTIES
    EventuallySettled
CHECK_DEADLOCK FALSE
