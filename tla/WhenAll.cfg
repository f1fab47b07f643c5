CONSTANTS
    N = 4
SPECIFICATION FairSpec
INVARIANTS
    OutcomeRight
    SettledOnce
PROPERTIES
    EventuallySettled
