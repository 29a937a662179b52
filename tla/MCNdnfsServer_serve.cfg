\* The server beside one FUSE thread that writes, releases, fails and dies, with calls
\* through the mount that fail while it is dead.
SPECIFICATION FairServerSpec
CONSTANTS
    p1 = p1
    t1 = t1
    Path = {p1}
    Threads = {t1}
    Byte = {0}
    SegSize = 1
    MaxLen = 1
    MaxClock = 0
    MaxWriters = 1
    Faults = {"busy", "crash", "io"}
    Garbage = Garbage
    MaxTotal = 1
    MaxBlemish = 0
    MaxVersions = 0
    MaxSegments = 0
CHECK_DEADLOCK FALSE
INVARIANTS
    ServerTypeOK
    LockReleased
    ContentGenuine
    AnnouncedSegmentsSigned
PROPERTIES
    CallbackEnds
