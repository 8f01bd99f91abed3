SPECIFICATION Spec
CONSTANTS
    Threads = {t1, t2}
    Ports = {p1, p2}
    Overlapping = {p1, p2}
    CloseMayFail = TRUE
    MaxSessions = 6
INVARIANTS
    TypeOK
    NothingLost
    ReferencesCurrent
    NilNeverUsed
PROPERTIES
    StaysClosed
CHECK_DEADLOCK FALSE
