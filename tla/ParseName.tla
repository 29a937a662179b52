----------------------------- MODULE ParseName -----------------------------
(***************************************************************************)
(* parseName of ndnfs-server (server/servermodule.cc): one pass over the   *)
(* components of an interest's name below the serving prefix, which decides*)
(* what the interest asks for.  A component is classified by its first     *)
(* octet: version (FD), segment (00), the file or directory marker (C1), or*)
(* anything else, which belongs to a path.                                 *)
(***************************************************************************)
EXTENDS Integers, Sequences

CONSTANTS
    Generic,   \* components that are none of the three kinds marked
    Number,    \* what a version or segment component may hold (uint64_t)
    IntSize    \* number of values of an int: 2^32 in the code

ASSUME NumberAssumption  == Number \subseteq Nat
ASSUME IntSizeAssumption == IntSize \in Nat \ {0} /\ IntSize % 2 = 0

VARIABLES
    name,      \* the interest's name
    iter,      \* position of the next component
    version, seg, hasMeta, path,   \* locals of parseName; path without slashes
    ret        \* Scanning, or what parseName returns

vars == <<name, iter, version, seg, hasMeta, path, ret>>

-----------------------------------------------------------------------------

NoNumber == -1
Scanning == 0
Refused  == -1
Info     == 1      \* what the file or directory is
Version  == 2      \* a version of the file
Segment  == 3      \* a segment of a version

Component == [kind : {"generic"}, value : Generic]
             \cup [kind : {"version", "segment"}, value : Number]
             \cup [kind : {"meta"}, value : {0}]

\* Mutant: a number keeps the width it has in the component.
AsUint64(n) == n

\* uint64_t assigned to an int.
AsInt(n) ==
    LET m == n % IntSize IN
    IF m < IntSize \div 2 THEN m ELSE m - IntSize

IntRange == -(IntSize \div 2) .. (IntSize \div 2) - 1

TypeOK ==
    /\ name \in Seq(Component)
    /\ iter \in 1..(Len(name) + 1)
    /\ version \in IntRange
    /\ seg \in IntRange
    /\ hasMeta \in BOOLEAN
    /\ path \in Seq(Generic)
    /\ ret \in {Scanning, Refused, Info, Version, Segment}

InitWith(n) ==
    /\ name = n
    /\ iter = 1
    /\ version = NoNumber /\ seg = NoNumber
    /\ hasMeta = FALSE
    /\ path = <<>>
    /\ ret = Scanning

Init == \E n \in Seq(Component) : InitWith(n)

-----------------------------------------------------------------------------

\* The component under the iterator is of this kind.
Sees(kind) == ret = Scanning /\ iter <= Len(name) /\ name[iter].kind = kind

Proceed == iter' = iter + 1 /\ UNCHANGED <<name, ret>>

Refuse == ret' = Refused /\ UNCHANGED <<name, iter, version, seg, hasMeta, path>>

OnVersion ==
    /\ Sees("version")
    /\ IF version = NoNumber
       THEN /\ version' = AsInt(name[iter].value)
            /\ Proceed
            /\ UNCHANGED <<seg, hasMeta, path>>
       ELSE Refuse

\* Mutant: a segment may come before the version.
OnSegmentAnywhere ==
    /\ Sees("segment")
    /\ IF seg = NoNumber
       THEN /\ seg' = AsInt(name[iter].value)
            /\ Proceed
            /\ UNCHANGED <<version, hasMeta, path>>
       ELSE Refuse

OnSegment ==
    /\ Sees("segment")
    /\ IF version # NoNumber /\ seg = NoNumber
       THEN /\ seg' = AsInt(name[iter].value)
            /\ Proceed
            /\ UNCHANGED <<version, hasMeta, path>>
       ELSE Refuse

OnMeta ==
    /\ Sees("meta")
    /\ IF version = NoNumber /\ seg = NoNumber
       THEN /\ hasMeta' = TRUE
            /\ Proceed
            /\ UNCHANGED <<version, seg, path>>
       ELSE Refuse

OnGeneric ==
    /\ Sees("generic")
    /\ IF version = NoNumber /\ seg = NoNumber
       THEN /\ path' = Append(path, name[iter].value)
            /\ Proceed
            /\ UNCHANGED <<version, seg, hasMeta>>
       ELSE Refuse

\* Mutant: the marker is not looked at.
RequestWithoutMeta ==
    IF version # NoNumber /\ seg # NoNumber THEN Segment
    ELSE IF version # NoNumber THEN Version
    ELSE Info

Request ==
    IF version # NoNumber /\ seg # NoNumber THEN Segment
    ELSE IF version # NoNumber /\ ~hasMeta THEN Version
    ELSE Info

Finish ==
    /\ ret = Scanning /\ iter > Len(name)
    /\ ret' = Request
    /\ UNCHANGED <<name, iter, version, seg, hasMeta, path>>

Next == OnVersion \/ OnSegment \/ OnMeta \/ OnGeneric \/ Finish

Spec == Init /\ [][Next]_vars

-----------------------------------------------------------------------------
(* Properties *)

\* The name holds no number that is -1 as an int, which parseName takes for none.
Plain == \A i \in 1..Len(name) :
             name[i].kind \in {"version", "segment"} => AsInt(name[i].value) # NoNumber

\* The order of components in a name: path and marker, version, segment.
Rank(c) == CASE c.kind \in {"generic", "meta"} -> 0
             [] c.kind = "version" -> 1
             [] c.kind = "segment" -> 2

\* Component j of n is out of place: behind one that has to come after it, a second
\* version or segment, or a segment with no version before it.
Misplaced(n, j) ==
    \/ \E i \in 1..(j - 1) : \/ Rank(n[i]) > Rank(n[j])
                             \/ Rank(n[i]) = Rank(n[j]) /\ Rank(n[j]) # 0
    \/ n[j].kind = "segment" /\ \A i \in 1..(j - 1) : n[i].kind # "version"

OutOfSequence(n) == \E j \in 1..Len(n) : Misplaced(n, j)

\* The documented patterns (servermodule.h), by the kinds that follow a path; a path
\* alone is the first pattern with both of its optional parts left out.
Patterns(request) ==
    CASE request = Info    -> {<<>>, <<"meta">>, <<"meta", "version">>}
      [] request = Version -> {<<"version">>}
      [] request = Segment -> {<<"version", "segment">>}

\* n is a path of k components followed by these kinds.
Shape(n, k, kinds) ==
    /\ Len(n) = k + Len(kinds)
    /\ \A i \in 1..k : n[i].kind = "generic"
    /\ \A i \in 1..Len(kinds) : n[k + i].kind = kinds[i]

Documented(n, request) ==
    \E k \in 0..Len(n), kinds \in Patterns(request) : Shape(n, k, kinds)

\* A name of a documented pattern is taken for what the pattern says, with the path,
\* version and segment it holds (parseName's three returns).
PatternsUnderstood ==
    ret # Scanning /\ Plain =>
        \A request \in {Info, Version, Segment} :
            Documented(name, request) =>
                /\ ret = request
                /\ \A i \in 1..Len(path) : path[i] = name[i].value
                /\ \A i \in 1..Len(name) :
                      /\ name[i].kind = "generic" => i <= Len(path)
                      /\ name[i].kind = "version" => version = AsInt(name[i].value)
                      /\ name[i].kind = "segment" => seg = AsInt(name[i].value)

\* A name with a component out of sequence is refused (the early returns of the loop),
\* however many components it has and in whatever order they set the locals the loop
\* tests: "wrong sequence in received name should not fetch back stuff".
SequenceMatters ==
    ret # Scanning /\ Plain /\ OutOfSequence(name) => ret = Refused


=============================================================================
