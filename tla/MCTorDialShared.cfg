SPECIFICATION RegistrySpec
CONSTANTS
    Threads = {t1, t2}
    Onions = {o1}
    StartMayFail = FALSE
    CloseMayFail = FALSE
    MaxRefs = 5
    Names = {n1}
    Overlap = TRUE
INVARIANTS
    RefsMatchHolders
CHECK_DEADLOCK FALSE
