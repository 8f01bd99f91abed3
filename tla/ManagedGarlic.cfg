SPECIFICATION Spec
CONSTANTS
    Threads = {t1, t2}
    Handler = handler
    Names = {n1}
    CloseMayFail = TRUE
    MaxMade = 2
INVARIANTS
    TypeOK
    CoveredByCleanup
    ExitClosed
    OneDialer
    ManagedKnown
    FoundIsOpen
PROPERTIES
    EveryCallReturns
CHECK_DEADLOCK FALSE
