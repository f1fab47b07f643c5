CONSTANTS
    Conns = {c1, c2}
    Fds = {f1}
    Apps = {a1}
    NONE = NONE
    AppKinds = {"raw"}
    WriteSize = 2
    Cap = 1
    MaxInput = 1
    MaxChunks = 1
    MaxTicks = 1
    MaxErrors = 0
SPECIFICATION Spec
SYMMETRY Symmetry
INVARIANTS
    FdTablesAgree
CHECK_DEADLOCK FALSE
