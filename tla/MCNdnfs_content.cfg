\* One FUSE thread (-s); content of several segments, signed and signed again.
SPECIFICATION Spec
CONSTANTS
    p1 = p1
    p2 = p2
    t1 = t1
    Path = {p1, p2}
    Threads = {t1}
    Byte = {0, 1}
    SegSize = 1
    MaxLen = 1
    MaxClock = 1
    MaxWriters = 1
    Faults = {}
    MaxBlemish = 2
    MaxVersions = 2
    MaxSegments = 3
CONSTRAINT Bounded
SYMMETRY PathSymmetry
CHECK_DEADLOCK FALSE
INVARIANTS
    SignedCurrent
PROPERTIES
    ImplementsStore
    OldSignaturesKept
