--------------------------- MODULE MimeInference ---------------------------
(***************************************************************************)
(* mime_infer and the table it looks in (fs/mime-inference.cc).  The table *)
(* is filled pair by pair at start-up and holds several pairs for many     *)
(* extensions; the look-up takes everything behind the last dot of the     *)
(* whole path, directories included.                                       *)
(***************************************************************************)
EXTENDS Naturals, Sequences

CONSTANTS
    ExtMimePairs,  \* the pairs initialize_ext_mime_map inserts, in its order
    Extension,     \* per component of a path, what starts with its last dot
    NoExtension    \* ... when it has no dot

ASSUME PairsAssumption == ExtMimePairs \in Seq(Seq(STRING) \X STRING)

\* Every extension in the list has a dot, at its start, and no slash.
ASSUME DottedAssumption ==
    \A i \in 1..Len(ExtMimePairs) :
        Len(ExtMimePairs[i][1]) = 1 /\ ExtMimePairs[i][1] # <<NoExtension>>

-----------------------------------------------------------------------------
(* The table *)

\* Mutant: a later pair takes the place of an earlier one, as with operator[].
InsertOver(map, pair) ==
    [x \in DOMAIN map \cup {pair[1]} |-> IF x = pair[1] THEN pair[2] ELSE map[x]]

\* std::map::insert: an extension that is there keeps its type.
Insert(map, pair) ==
    IF pair[1] \in DOMAIN map THEN map
    ELSE [x \in DOMAIN map \cup {pair[1]} |-> IF x = pair[1] THEN pair[2] ELSE map[x]]

\* The table after the first n insertions.
Inserted[n \in 0..Len(ExtMimePairs)] ==
    IF n = 0 THEN <<>> ELSE Insert(Inserted[n - 1], ExtMimePairs[n])

ExtMimeMap == Inserted[Len(ExtMimePairs)]

-----------------------------------------------------------------------------
(* The look-up *)

\* find_last_of(".") knows no components: what it cuts off may hold a slash.
MimeInfer(path) ==
    LET dotted == {i \in 1..Len(path) : Extension[path[i]] # NoExtension}
        last   == CHOOSE i \in dotted : \A j \in dotted : j <= i
        ext    == <<Extension[path[last]]>> \o SubSeq(path, last + 1, Len(path))
    IN  IF dotted = {} \/ ext \notin DOMAIN ExtMimeMap THEN "" ELSE ExtMimeMap[ext]
=============================================================================
