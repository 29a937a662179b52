\* Two releases of one file at once.
SPECIFICATION Spec
CONSTANTS
    p1 = p1
    t1 = t1
    t2 = t2
    Path = {p1}
    Threads = {t1, t2}
    Byte = {0, 1}
    SegSize = 1
    MaxLen = 1
    MaxClock = 0
    MaxWriters = 2
    Faults = {}
    MaxBlemish = 0
    MaxVersions = 2
    MaxSegments = 3
CHECK_DEADLOCK FALSE
INVARIANTS
    SignedCurrent
