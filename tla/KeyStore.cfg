SPECIFICATION Spec
CONSTANTS
    Callers = {c1}
    MaxKeys = 3
INVARIANTS
    TypeOK
    OneIdentity
    OneCertificate
    PairsMatch
