\* Directories, links and listings; handlers one at a time.
SPECIFICATION Spec
CONSTANTS
    d = d
    e = e
    f = f
    f1 = f1
    f2 = f2
    Files = {f1, f2}
    NoExtension = ""
    Extension <- Dotted
    ExtMimePairs <- Pairs
    Path <- Names
    MaxClock = 1
    MaxParted = 1
CONSTRAINT Bounded
SYMMETRY TreeSymmetry
CHECK_DEADLOCK FALSE
INVARIANTS
    TypeOK
    FilesHaveRows
    RowsHaveFiles
    HistoryWithRow
    ListingVersioned
PROPERTIES
    MimeAsListed
