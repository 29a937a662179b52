\* One FUSE thread (-s); lost statements, crashes and failed system calls.
SPECIFICATION Spec
CONSTANTS
    p1 = p1
    p2 = p2
    t1 = t1
    Path = {p1, p2}
    Threads = {t1}
    Byte = {0}
    SegSize = 1
    MaxLen = 0
    MaxClock = 1
    MaxWriters = 1
    Faults = {"busy", "crash", "io"}
    MaxBlemish = 2
    MaxVersions = 3
    MaxSegments = 2
CONSTRAINT Bounded
SYMMETRY PathSymmetry
CHECK_DEADLOCK FALSE
INVARIANTS
    TypeOK
    FileHasRow
    RowHasFile
    VersionRecorded
    SegmentVersionRecorded
    CurrentIsLatest
