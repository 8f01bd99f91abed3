SPECIFICATION RegistrySpec
CONSTANTS
    Threads = {t1, t2}
    Onions = {o1, o2, o3}
    StartMayFail = TRUE
    CloseMayFail = TRUE
    MaxRefs = 5
    Names = {n1, n2}
    Overlap = FALSE
INVARIANTS
    RegistryTypeOK
    RefsMatchHolders
    UsedIsOpen
    NoTorLeft
    NothingForgotten
PROPERTIES
    ImplementsService
CHECK_DEADLOCK FALSE
