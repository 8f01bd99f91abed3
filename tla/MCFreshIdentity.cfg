SPECIFICATION Spec
CONSTANTS
    t1 = t1
    Threads = {t1}
    RepliableInterval = 10
    RepliableTimeInterval = 1
    HashExpiryDuration = 2
    AckTimeout = 1
    MaxUnackedDatagrams = 3
    AckRequestInterval = 1
    AgeLimit = 3
    SendMayFail = TRUE
    MaxCalls = 5
PROPERTIES
    FreshIdentity
