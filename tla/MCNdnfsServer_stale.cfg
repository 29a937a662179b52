\* A segment of an older version.
SPECIFICATION ServerSpec
CONSTANTS
    p1 = p1
    t1 = t1
    Path = {p1}
    Threads = {t1}
    Byte = {0, 1}
    SegSize = 1
    MaxLen = 1
    MaxClock = 1
    MaxWriters = 1
    Faults = {"busy"}
    Garbage = Garbage
    MaxTotal = 2
    MaxBlemish = 0
    MaxVersions = 2
    MaxSegments = 4
CONSTRAINT Bounded
CHECK_DEADLOCK FALSE
INVARIANTS
    VersionContentServed
