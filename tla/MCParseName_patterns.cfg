\* Every name of up to four components, segments of 4 bytes, ints of 4 bits: 15 is -1 as
\* an int, 17 is 1; segment 2 is the first whose offset is negative, 4 the first whose
\* offset is 0 again, 9 is negative as an int.
SPECIFICATION MCSpec
CONSTANTS
    a = a
    b = b
    Generic = {a, b}
    Number = {0, 1, 2, 4, 9, 15, 17}
    IntSize = 16
    SegSize = 4
    LongSize = 256
    MaxSize = 36
    MaxComponents = 4
CHECK_DEADLOCK FALSE
INVARIANTS
    TypeOK
    PatternsUnderstood
    SequenceMatters
    ServedInPlace
    AnnouncedServed
