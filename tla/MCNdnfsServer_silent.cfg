\* The last segment of a file whose length is a multiple of SegSize.
SPECIFICATION ServerSpec
CONSTANTS
    p1 = p1
    t1 = t1
    Path = {p1}
    Threads = {t1}
    Byte = {0}
    SegSize = 1
    MaxLen = 1
    MaxClock = 0
    MaxWriters = 1
    Faults = {"busy"}
    Garbage = Garbage
    MaxTotal = 2
    MaxBlemish = 0
    MaxVersions = 2
    MaxSegments = 2
CONSTRAINT Bounded
CHECK_DEADLOCK FALSE
INVARIANTS
    SignedSegmentAnswered
