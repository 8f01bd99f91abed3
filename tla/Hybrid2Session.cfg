SPECIFICATION Spec
CONSTANTS
    r1 = r1
    c1 = c1
    c2 = c2
    Readers = {r1}
    Timed = {r1}
    Closers = {c1, c2}
    Stubborn = {"dg2"}
    RecvChanBufferSize = 1
    MaxDatagrams = 3
INVARIANTS
    TypeOK
    OneTeardown
    DoneMeansTornDown
PROPERTIES
    ImplementsQueues
    ShutdownCompletes
CHECK_DEADLOCK FALSE
