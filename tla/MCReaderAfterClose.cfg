SPECIFICATION Spec
CONSTANTS
    r1 = r1
    c1 = c1
    Readers = {r1}
    Timed = {}
    Closers = {c1}
    Stubborn = {}
    RecvChanBufferSize = 1
    MaxDatagrams = 1
PROPERTIES
    BlockedReaderReturns
CHECK_DEADLOCK FALSE
