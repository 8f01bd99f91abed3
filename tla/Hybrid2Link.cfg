SPECIFICATION Spec
CONSTANTS
    t1 = t1
    t2 = t2
    Threads = {t1, t2}
    RepliableInterval = 5
    RepliableTimeInterval = 2
    HashExpiryDuration = 2
    AckTimeout = 1
    MaxUnackedDatagrams = 3
    AckRequestInterval = 1
    AgeLimit = 3
    SendMayFail = TRUE
    MaxCalls = 3
    MaxDelay = 1
INVARIANTS
    TypeOK
    AckedWasReceived
    ResolvesOnceAcked
