SPECIFICATION Spec
CONSTANTS
    r1 = r1
    c1 = c1
    Readers = {r1}
    Timed = {}
    Direct = {}
    Closers = {c1}
    Ways = {"fromPrimary"}
    Stubborn = {}
    RecvChanSize = 1
    RecvErrChanSize = 1
    MaxDatagrams = 0
INVARIANTS
    Ownership
CHECK_DEADLOCK FALSE
