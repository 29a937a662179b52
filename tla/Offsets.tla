------------------------------ MODULE Offsets ------------------------------
(***************************************************************************)
(* From the number of a segment to bytes of the file, with the integers    *)
(* the code has.  ndnfs_release (fs/file.cc) and sendFileContent           *)
(* (server/servermodule.cc) read at seg << seg_size_shift, an int;         *)
(* readFileSize keeps st_size in an int, and the answers announce what they*)
(* make of it.  parseName (module ParseName) has put the number of the     *)
(* interest's name into an int before.                                     *)
(*                                                                         *)
(* Ints wrap around: that is what gcc and clang make of << on int, and of  *)
(* the assignment of a longer integer.                                     *)
(***************************************************************************)
EXTENDS ParseName, FiniteSets

CONSTANTS
    SegSize,    \* seg_size: 8192, and 2^13 in seg_size_shift
    LongSize,   \* number of values of a uint64_t
    MaxSize     \* bound on the size of a file

ASSUME SegSizeAssumption == SegSize \in Nat \ {0} /\ IntSize % (2 * SegSize) = 0
ASSUME LongSizeAssumption == LongSize \in Nat /\ LongSize >= IntSize
ASSUME MaxSizeAssumption == MaxSize \in Nat

FileSize == 0..MaxSize

\* 2 GB: the first size, and offset, that an int cannot hold.
Limit == IntSize \div 2

-----------------------------------------------------------------------------

\* The bytes at an offset, as many as a segment holds; pread(2) refuses a negative offset.
Bytes(size, offset) == offset .. (IF offset + SegSize <= size THEN offset + SegSize
                                                               ELSE size) - 1
CanRead(offset) == offset >= 0

Offset(n) == AsInt(n * SegSize)

\* The segments release signs of a file of this size: it goes on while it reads full
\* ones, and returns an error when it cannot read.
Signed(size) ==
    {n \in 0..(size \div SegSize) :
        \A k \in 0..n : /\ CanRead(Offset(k))
                        /\ k < n => Cardinality(Bytes(size, Offset(k))) = SegSize}

\* Mutant: the size is kept as long as it is.
TotalSegLong(size) == (size \div SegSize) + 1

\* readFileSize.  (>> rounds down, as \div does.)
TotalSeg(size) == (AsInt(size) \div SegSize) + 1

\* fromNumberWithMarker(total_seg - 1, 0x00): the int becomes a uint64_t.
FinalBlock(total) == (total - 1) % LongSize

\* The segments FinalBlockId announces for a file of this size: in sendFileMeta's answer,
\* which also has total_seg, and in sendFileContent's, which looks at its sign first.
AnnouncedByMeta(size) == 0..FinalBlock(TotalSeg(size))

AnnouncedByContent(size) == IF TotalSeg(size) > 0 THEN 0..FinalBlock(TotalSeg(size)) ELSE {}

\* Mutant: the SELECT leaves out the segment.
AnySegment(n, size) == TRUE

\* The SELECT finds the signature: the version asked for was released with this size.
HasSegment(n, size) == n \in Signed(size)

\* The bytes sendFileContent answers with; the file has another size now.
Served(n, size, now) ==
    IF HasSegment(n, size) /\ CanRead(Offset(n)) THEN Bytes(now, Offset(n)) ELSE {}

-----------------------------------------------------------------------------
(* Properties *)

\* The bytes a segment stands for.
Place(n, size) == Bytes(size, n * SegSize)

\* The numbers of the segment components in the interest's name.
Asked == {name[i].value : i \in {j \in 1..Len(name) : name[j].kind = "segment"}}

\* A number parseName hands on: of 32 bits, and not the -1 that stands for none.
Kept(n) == n < IntSize /\ AsInt(n) # NoNumber

\* An interest for a segment is answered with the bytes of the segment its name says or
\* not at all, although the number becomes an int, its offset may wrap around into the
\* file, and the file may have had another size when it was signed (sendFileContent's
\* pread at line 274).  Numbers of more than 32 bits are the exception.
ServedInPlace ==
    ret = Segment =>
        \A n \in Asked, size, now \in FileSize :
            Kept(n) => Served(seg, size, now) \in {{}, Place(n, now)}

\* Each segment sendFileContent announces, whatever the size, is signed, and an interest
\* for it is answered with its bytes; below 2 GB they are all there are of the file.
\* sendFileMeta announces the same, but for the sizes that are negative as an int: there
\* it announces what was never signed (readFileSize, ndnfs_release).
AnnouncedServed ==
    ret = Segment =>
        \A n \in Asked, size \in FileSize :
            /\ n \in AnnouncedByContent(size) =>
                   n \in Signed(size) /\ Served(seg, size, size) = Place(n, size)
            /\ n \notin AnnouncedByContent(size) /\ size < Limit => Place(n, size) = {}
            /\ n \in AnnouncedByMeta(size) => n \in AnnouncedByContent(size) \/ AsInt(size) < 0

=============================================================================
