\* The four programs, files of up to four segments, two changes of the file.
SPECIFICATION FairSpec
CONSTANTS
    MaxFull = 3
    MaxEditions = 3
    PipeSize = 2
CHECK_DEADLOCK FALSE
INVARIANTS
    TypeOK
    SavedInOrder
    WholeFileReceived
    WindowKept
PROPERTIES
    FetchEnds
    ImplementsTransfer
