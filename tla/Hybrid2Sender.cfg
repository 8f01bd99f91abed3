SPECIFICATION Spec
CONSTANTS
    t1 = t1
    t2 = t2
    Threads = {t1, t2}
    RepliableInterval = 2
    RepliableTimeInterval = 1
    HashExpiryDuration = 1
    AckTimeout = 1
    MaxUnackedDatagrams = 3
    AckRequestInterval = 2
    AgeLimit = 2
    SendMayFail = TRUE
    MaxCalls = 3
INVARIANTS
    TypeOK
    FirstIsAuthenticated
    SequenceNumbers
    AckAccounting
PROPERTIES
    AcksGoForward
    EventuallySettled

