\* Rename onto a name the tables know.
SPECIFICATION Spec
CONSTANTS
    p1 = p1
    p2 = p2
    t1 = t1
    Path = {p1, p2}
    Threads = {t1}
    Byte = {0}
    SegSize = 1
    MaxLen = 0
    MaxClock = 0
    MaxWriters = 1
    Faults = {}
    MaxBlemish = 0
    MaxVersions = 2
    MaxSegments = 3
CHECK_DEADLOCK FALSE
PROPERTIES
    RenameMovesEveryEntry
