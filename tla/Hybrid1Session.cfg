SPECIFICATION Spec
CONSTANTS
    r1 = r1
    r2 = r2
    c1 = c1
    c2 = c2
    Readers = {r1, r2}
    Timed = {r1}
    Direct = {r2}
    Closers = {c1, c2}
    Ways = {"direct", "managed"}
    Stubborn = {"sub", "primary", "sam"}
    RecvChanSize = 1
    RecvErrChanSize = 1
    MaxDatagrams = 3
INVARIANTS
    TypeOK
    Ownership
PROPERTIES
    ImplementsQueues
    ShutdownCompletes
CHECK_DEADLOCK FALSE
