\* Two FUSE threads, scheduled fairly.
SPECIFICATION FairSpec
CONSTANTS
    p1 = p1
    t1 = t1
    t2 = t2
    Path = {p1}
    Threads = {t1, t2}
    Byte = {0}
    SegSize = 1
    MaxLen = 2
    MaxClock = 1
    MaxWriters = 2
    Faults = {}
    MaxBlemish = 2
    MaxVersions = 2
    MaxSegments = 3
CHECK_DEADLOCK FALSE
INVARIANTS
    VersionRecorded
    SegmentVersionRecorded
    SegmentsContiguous
PROPERTIES
    HandlersReturn
