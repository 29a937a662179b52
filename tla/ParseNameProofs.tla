-------------------------- MODULE ParseNameProofs --------------------------
(***************************************************************************)
(* parseName, for names of any length over any components, and what the    *)
(* server does with the segment number it finds there, for files of any    *)
(* size and any width of int (module Offsets).                             *)
(***************************************************************************)
EXTENDS Offsets, FiniteSetTheorems, TLAPS

-----------------------------------------------------------------------------
(* Types *)

LEMMA AsIntRange ==
    ASSUME NEW n \in Nat
    PROVE  AsInt(n) \in IntRange
<1>1. PICK half \in Nat \ {0} : IntSize = 2 * half /\ IntSize \div 2 = half
  BY IntSizeAssumption
<1>2. n % IntSize \in 0..(IntSize - 1)
  BY IntSizeAssumption
<1> QED
  BY <1>1, <1>2 DEF AsInt, IntRange

LEMMA NoNumberRange == NoNumber \in IntRange
  BY IntSizeAssumption DEF NoNumber, IntRange

LEMMA ComponentValues ==
    ASSUME TypeOK, NEW kind \in {"version", "segment"}, Sees(kind)
    PROVE  AsInt(name[iter].value) \in IntRange
<1>1. name[iter] \in Component
  BY DEF TypeOK, Sees
<1>2. name[iter].value \in Nat
  BY <1>1, NumberAssumption DEF Component, Sees
<1> QED
  BY <1>2, AsIntRange

LEMMA TypePreserved ==
    ASSUME TypeOK, [Next]_vars
    PROVE  TypeOK'
<1>1. CASE OnVersion
  BY <1>1, ComponentValues DEF OnVersion, Proceed, Refuse, TypeOK, Sees, Refused
<1>2. CASE OnSegment
  BY <1>2, ComponentValues DEF OnSegment, Proceed, Refuse, TypeOK, Sees, Refused
<1>3. CASE OnMeta
  <2>1. hasMeta' \in BOOLEAN
    BY <1>3 DEF OnMeta, Refuse, TypeOK
  <2>2. name' \in Seq(Component) /\ version' \in IntRange /\ seg' \in IntRange
    BY <1>3 DEF OnMeta, Proceed, Refuse, TypeOK
  <2>3. path' \in Seq(Generic) /\ ret' \in {Scanning, Refused, Info, Version, Segment}
    BY <1>3 DEF OnMeta, Proceed, Refuse, TypeOK
  <2>4. iter' \in 1..(Len(name') + 1)
    BY <1>3 DEF OnMeta, Sees, Proceed, Refuse, TypeOK
  <2> QED
    BY <2>1, <2>2, <2>3, <2>4 DEF TypeOK
<1>4. CASE OnGeneric
  <2>1. name[iter].value \in Generic
    BY <1>4 DEF OnGeneric, Sees, TypeOK, Component
  <2>2. path' \in Seq(Generic)
    <3>1. path \in Seq(Generic)
      BY DEF TypeOK
    <3>2. path' = Append(path, name[iter].value) \/ path' = path
      BY <1>4 DEF OnGeneric, Refuse
    <3> QED
      BY ONLY <2>1, <3>1, <3>2
  <2>3. name' \in Seq(Component) /\ version' \in IntRange /\ seg' \in IntRange
    BY <1>4 DEF OnGeneric, Proceed, Refuse, TypeOK
  <2>4. hasMeta' \in BOOLEAN /\ ret' \in {Scanning, Refused, Info, Version, Segment}
    BY <1>4 DEF OnGeneric, Proceed, Refuse, TypeOK
  <2>5. iter' \in 1..(Len(name') + 1)
    BY <1>4 DEF OnGeneric, Sees, Proceed, Refuse, TypeOK
  <2> QED
    BY <2>2, <2>3, <2>4, <2>5 DEF TypeOK
<1>5. CASE Finish
  BY <1>5 DEF Finish, Request, TypeOK, Info, Version, Segment
<1>6. CASE UNCHANGED vars
  BY <1>6 DEF vars, TypeOK
<1> QED
  BY <1>1, <1>2, <1>3, <1>4, <1>5, <1>6 DEF Next

LEMMA TypeInitial == ASSUME Init PROVE TypeOK
<1>1. PICK n \in Seq(Component) : InitWith(n)
  BY DEF Init
<1>2. hasMeta \in BOOLEAN
  BY <1>1 DEF InitWith
<1>3. name \in Seq(Component) /\ iter \in 1..(Len(name) + 1)
  BY <1>1 DEF InitWith
<1> QED
  BY <1>1, <1>2, <1>3, NoNumberRange DEF InitWith, TypeOK

\* The locals of parseName keep their types for names of any length: what is stored
\* in version and seg is an int, and the iterator never passes the end.
THEOREM TypeCorrect == Spec => []TypeOK
<1>1. Init => TypeOK
  BY TypeInitial
<1>2. TypeOK /\ [Next]_vars => TypeOK'
  BY TypePreserved
<1> QED
  BY <1>1, <1>2, PTL DEF Spec

-----------------------------------------------------------------------------
(* The sequence of components *)

\* A component of this kind has been passed.
Seen(kind) == \E i \in 1..(iter - 1) : name[i].kind = kind

\* The locals say what was passed, and nothing passed was out of sequence.
Passed ==
    /\ version # NoNumber <=> Seen("version")
    /\ seg # NoNumber <=> Seen("segment")
    /\ seg # NoNumber => version # NoNumber
    /\ \A j \in 1..(iter - 1) : ~Misplaced(name, j)

\* Without Plain a version that is -1 as an int would be forgotten and a second one
\* accepted: the invariant is about names that hold none.
SequenceInv ==
    Plain => /\ ret = Scanning => Passed
             /\ ret = Refused => OutOfSequence(name)
             /\ ret \notin {Scanning, Refused} => ~OutOfSequence(name)

LEMMA SequenceInitial == ASSUME Init PROVE SequenceInv
  BY DEF Init, InitWith, SequenceInv, Passed, Seen, Scanning, Refused

\* A component is out of place where the handlers refuse it.
LEMMA PlaceOfComponent ==
    ASSUME TypeOK, Passed, iter <= Len(name)
    PROVE  /\ name[iter].kind = "version" =>
                  (Misplaced(name, iter) <=> version # NoNumber)
           /\ name[iter].kind = "segment" =>
                  (Misplaced(name, iter) <=> version = NoNumber \/ seg # NoNumber)
           /\ name[iter].kind \in {"meta", "generic"} =>
                  (Misplaced(name, iter) <=> version # NoNumber \/ seg # NoNumber)
<1>1. iter \in Nat /\ \A i \in 1..iter : i \in 1..Len(name)
  BY DEF TypeOK
<1>2. \A i \in 1..iter : name[i].kind \in {"version", "segment", "meta", "generic"}
  BY <1>1 DEF TypeOK, Component
<1>3. \A i \in 1..iter :
         /\ name[i].kind = "version" => Rank(name[i]) = 1
         /\ name[i].kind = "segment" => Rank(name[i]) = 2
         /\ name[i].kind \in {"meta", "generic"} => Rank(name[i]) = 0
  BY DEF Rank
<1> QED
  BY <1>1, <1>2, <1>3 DEF Passed, Seen, Misplaced

\* A step over a component in its place keeps Passed.
LEMMA PassedOn ==
    ASSUME TypeOK, Plain, Passed, iter <= Len(name), Proceed,
           ~Misplaced(name, iter),
           version' # NoNumber <=> version # NoNumber \/ name[iter].kind = "version",
           seg' # NoNumber <=> seg # NoNumber \/ name[iter].kind = "segment",
           name[iter].kind = "segment" => version # NoNumber
    PROVE  Passed'
<1>1. iter \in Nat \ {0} /\ iter' = iter + 1 /\ name' = name
  BY DEF TypeOK, Proceed
<1>2. \A i : i \in 1..(iter' - 1) <=> i \in 1..(iter - 1) \/ i = iter
  BY <1>1
<1>3. \A kind : Seen(kind)' <=> Seen(kind) \/ name[iter].kind = kind
  BY <1>1, <1>2 DEF Seen
<1>4. \A j \in 1..(iter' - 1) : ~Misplaced(name, j)'
  BY <1>1, <1>2 DEF Passed, Misplaced
<1> QED
  BY <1>3, <1>4 DEF Passed

LEMMA Refusal ==
    ASSUME TypeOK, iter <= Len(name), Misplaced(name, iter), Refuse
    PROVE  SequenceInv'
<1>1. iter \in 1..Len(name)
  BY DEF TypeOK
<1>2. OutOfSequence(name)'
  BY <1>1 DEF OutOfSequence, Misplaced, Refuse
<1> QED
  BY <1>2 DEF SequenceInv, Refuse, Refused, Scanning

LEMMA Advance ==
    ASSUME Passed', Proceed, ret = Scanning
    PROVE  SequenceInv'
  BY DEF SequenceInv, Proceed, Scanning, Refused

LEMMA SequencePreserved ==
    ASSUME TypeOK, SequenceInv, [Next]_vars
    PROVE  SequenceInv'
<1> SUFFICES ASSUME Plain' PROVE SequenceInv'
  BY DEF SequenceInv
<1>0. Plain
  BY DEF Plain, Next, OnVersion, OnSegment, OnMeta, OnGeneric, Finish, Proceed, Refuse, vars
<1>1. ASSUME NEW kind, Sees(kind)
      PROVE  /\ Passed /\ ret = Scanning /\ iter <= Len(name)
             /\ name[iter].kind = kind
  BY <1>0, <1>1 DEF Sees, SequenceInv
<1>2. CASE OnVersion
  <2>1. Sees("version") /\ Passed /\ ret = Scanning /\ iter <= Len(name)
        /\ name[iter].kind = "version"
    BY <1>1, <1>2 DEF OnVersion
  <2>2. AsInt(name[iter].value) # NoNumber
    BY <1>0, <2>1 DEF Plain, TypeOK
  <2>3. CASE version = NoNumber
    <3>1. Proceed /\ version' = AsInt(name[iter].value) /\ seg' = seg
      BY <1>2, <2>3 DEF OnVersion
    <3>2. ~Misplaced(name, iter)
      BY <2>1, <2>3, PlaceOfComponent
    <3>3. Passed'
      BY <1>0, <2>1, <2>2, <3>1, <3>2, PassedOn
    <3> QED
      BY <2>1, <3>1, <3>3, Advance
  <2>4. CASE version # NoNumber
    BY <1>2, <2>1, <2>4, PlaceOfComponent, Refusal DEF OnVersion
  <2> QED
    BY <2>3, <2>4
<1>3. CASE OnSegment
  <2>1. Sees("segment") /\ Passed /\ ret = Scanning /\ iter <= Len(name)
        /\ name[iter].kind = "segment"
    BY <1>1, <1>3 DEF OnSegment
  <2>2. AsInt(name[iter].value) # NoNumber
    BY <1>0, <2>1 DEF Plain, TypeOK
  <2>3. CASE version # NoNumber /\ seg = NoNumber
    <3>1. Proceed /\ seg' = AsInt(name[iter].value) /\ version' = version
      BY <1>3, <2>3 DEF OnSegment
    <3>2. ~Misplaced(name, iter)
      BY <2>1, <2>3, PlaceOfComponent
    <3>3. Passed'
      BY <1>0, <2>1, <2>2, <2>3, <3>1, <3>2, PassedOn
    <3> QED
      BY <2>1, <3>1, <3>3, Advance
  <2>4. CASE ~(version # NoNumber /\ seg = NoNumber)
    BY <1>3, <2>1, <2>4, PlaceOfComponent, Refusal DEF OnSegment
  <2> QED
    BY <2>3, <2>4
<1>4. CASE OnMeta \/ OnGeneric
  <2>1. PICK kind \in {"meta", "generic"} : Sees(kind)
    BY <1>4 DEF OnMeta, OnGeneric
  <2>2. Passed /\ ret = Scanning /\ iter <= Len(name)
        /\ name[iter].kind \in {"meta", "generic"}
    BY <1>1, <2>1
  <2>3. CASE version = NoNumber /\ seg = NoNumber
    <3>1. Proceed /\ version' = version /\ seg' = seg
      BY <1>4, <2>3 DEF OnMeta, OnGeneric
    <3>2. ~Misplaced(name, iter)
      BY <2>2, <2>3, PlaceOfComponent
    <3>3. Passed'
      BY <1>0, <2>2, <3>1, <3>2, PassedOn
    <3> QED
      BY <2>2, <3>1, <3>3, Advance
  <2>4. CASE ~(version = NoNumber /\ seg = NoNumber)
    <3>1. Misplaced(name, iter)
      BY <2>2, <2>4, PlaceOfComponent
    <3>2. Refuse
      BY <1>4, <2>4 DEF OnMeta, OnGeneric
    <3> QED
      BY <2>2, <3>1, <3>2, Refusal
  <2> QED
    BY <2>3, <2>4
<1>5. CASE Finish
  <2>1. Passed /\ iter = Len(name) + 1
    BY <1>0, <1>5 DEF Finish, SequenceInv, TypeOK
  <2>2. ~OutOfSequence(name)
    BY <2>1 DEF Passed, OutOfSequence
  <2>3. name' = name /\ ret' \notin {Scanning, Refused}
    BY <1>5 DEF Finish, Request, Info, Version, Segment, Scanning, Refused
  <2> QED
    BY <2>2, <2>3 DEF SequenceInv, OutOfSequence, Misplaced
<1>6. CASE UNCHANGED vars
  BY <1>6 DEF vars, SequenceInv, Plain, Passed, Seen, OutOfSequence, Misplaced
<1> QED
  BY <1>2, <1>3, <1>4, <1>5, <1>6 DEF Next

\* parseName refuses every name with a component out of sequence, for names of any length
\* that hold no number it would take for none.
THEOREM WrongSequenceRefused == Spec => []SequenceMatters
<1>1. Init => TypeOK /\ SequenceInv
  BY TypeInitial, SequenceInitial
<1>2. TypeOK /\ SequenceInv /\ [Next]_vars => TypeOK' /\ SequenceInv'
  BY TypePreserved, SequencePreserved
<1>3. SequenceInv => SequenceMatters
  BY DEF SequenceInv, SequenceMatters
<1> QED
  BY <1>1, <1>2, <1>3, PTL DEF Spec

-----------------------------------------------------------------------------
(* What the locals hold of a name whose path comes first *)

\* The path of the name: its first k components, and no other is generic.
Leads(k) ==
    /\ \A i \in 1..k : name[i].kind = "generic"
    /\ \A i \in 1..Len(name) : i > k => name[i].kind # "generic"

PathRead ==
    \A k \in 0..Len(name) : Leads(k) =>
        /\ Len(path) = IF iter - 1 <= k THEN iter - 1 ELSE k
        /\ \A i \in 1..Len(path) : path[i] = name[i].value

ValuesRead ==
    \A i \in 1..(iter - 1) :
        /\ name[i].kind = "version" => version = AsInt(name[i].value)
        /\ name[i].kind = "segment" => seg = AsInt(name[i].value)

MetaRead == hasMeta = TRUE <=> Seen("meta")

Finished == iter = Len(name) + 1 /\ ret = Request /\ Passed

\* SequenceInv says which names are refused; this, what the others leave behind.
ReadInv ==
    /\ PathRead /\ MetaRead
    /\ Plain => ValuesRead /\ (ret \notin {Scanning, Refused} => Finished)

LEMMA ReadInitial == ASSUME Init PROVE ReadInv
<1>1. PICK n \in Seq(Component) : InitWith(n)
  BY DEF Init
<1>2. Len(name) \in Nat /\ iter = 1 /\ path = <<>>
  BY <1>1 DEF InitWith
<1>3. PathRead
  BY <1>2 DEF PathRead
<1>4. MetaRead
  BY <1>1, <1>2 DEF MetaRead, Seen, InitWith
<1>5. ValuesRead
  BY <1>2 DEF ValuesRead
<1> QED
  BY <1>1, <1>3, <1>4, <1>5 DEF ReadInv, InitWith, Scanning

LEMMA PathPreserved ==
    ASSUME TypeOK, PathRead, Next
    PROVE  PathRead'
<1>1. name' = name
  BY DEF Next, OnVersion, OnSegment, OnMeta, OnGeneric, Finish, Proceed, Refuse
<1>2. /\ Len(name) \in Nat /\ iter \in 1..(Len(name) + 1)
      /\ Len(path) \in Nat /\ path \in Seq(Generic)
  BY DEF TypeOK
<1>3. CASE iter' = iter /\ path' = path
  BY <1>1, <1>3 DEF PathRead, Leads
<1>4. CASE OnGeneric /\ Proceed
  <2> DEFINE value == name[iter].value
  <2>1. /\ iter' = iter + 1 /\ path' = Append(path, value)
        /\ iter <= Len(name) /\ name[iter].kind = "generic"
    BY <1>2, <1>4 DEF OnGeneric, Sees, Proceed, Refuse
  <2> HIDE DEF value
  <2>2. ASSUME NEW k \in 0..Len(name), Leads(k)
        PROVE  /\ Len(path') = IF iter' - 1 <= k THEN iter' - 1 ELSE k
               /\ \A i \in 1..Len(path') : path'[i] = name[i].value
    <3>1. iter <= k
      BY <1>2, <2>1, <2>2 DEF Leads
    <3>2. Len(path) = iter - 1 /\ \A i \in 1..Len(path) : path[i] = name[i].value
      BY <1>2, <2>2, <3>1 DEF PathRead
    <3>3. Len(path') = iter /\ \A i \in 1..iter : path'[i] = IF i = iter THEN value ELSE path[i]
      BY <1>2, <2>1, <3>2
    <3>4. \A i \in 1..iter : path'[i] = name[i].value
      BY <1>2, <3>2, <3>3 DEF value
    <3> QED
      BY <1>2, <2>1, <3>1, <3>3, <3>4
  <2> QED
    BY <1>1, <2>2 DEF PathRead, Leads
<1>5. CASE (OnVersion \/ OnSegment \/ OnMeta) /\ Proceed
  <2>1. /\ iter' = iter + 1 /\ path' = path
        /\ iter <= Len(name) /\ name[iter].kind # "generic"
    BY <1>2, <1>5 DEF OnVersion, OnSegment, OnMeta, Sees, Proceed, Refuse
  <2>2. ASSUME NEW k \in 0..Len(name), Leads(k)
        PROVE  /\ Len(path') = IF iter' - 1 <= k THEN iter' - 1 ELSE k
               /\ \A i \in 1..Len(path') : path'[i] = name[i].value
    <3>1. iter > k
      BY <1>2, <2>1, <2>2 DEF Leads
    <3> QED
      BY <1>2, <2>1, <2>2, <3>1 DEF PathRead
  <2> QED
    BY <1>1, <2>2 DEF PathRead, Leads
<1> QED
  BY <1>3, <1>4, <1>5 DEF Next, OnVersion, OnSegment, OnMeta, OnGeneric, Finish, Refuse

\* One more component has been passed.
LEMMA SeenOn ==
    ASSUME TypeOK, Proceed
    PROVE  /\ \A i : i \in 1..(iter' - 1) <=> i \in 1..(iter - 1) \/ i = iter
           /\ \A kind : Seen(kind)' <=> Seen(kind) \/ name[iter].kind = kind
<1>1. iter \in Nat \ {0} /\ iter' = iter + 1 /\ name' = name
  BY DEF TypeOK, Proceed
<1>2. \A i : i \in 1..(iter' - 1) <=> i \in 1..(iter - 1) \/ i = iter
  BY <1>1
<1> QED
  BY <1>1, <1>2 DEF Seen

LEMMA MetaPreserved ==
    ASSUME TypeOK, MetaRead, Next
    PROVE  MetaRead'
<1>1. CASE iter' = iter /\ name' = name /\ hasMeta' = hasMeta
  BY <1>1 DEF MetaRead, Seen
<1>2. CASE OnMeta /\ Proceed
  <2>1. hasMeta' = TRUE /\ name[iter].kind = "meta"
    BY <1>2 DEF OnMeta, Sees, Refuse, Proceed, TypeOK
  <2> QED
    BY <1>2, <2>1, SeenOn DEF MetaRead
<1>3. CASE (OnVersion \/ OnSegment \/ OnGeneric) /\ Proceed
  <2>1. hasMeta' = hasMeta /\ name[iter].kind # "meta"
    BY <1>3 DEF OnVersion, OnSegment, OnGeneric, Sees, Refuse
  <2> QED
    BY <1>3, <2>1, SeenOn DEF MetaRead
<1> QED
  BY <1>1, <1>2, <1>3 DEF Next, OnVersion, OnSegment, OnMeta, OnGeneric, Finish, Refuse

LEMMA ValuesPreserved ==
    ASSUME TypeOK, Plain, SequenceInv, ValuesRead, Next
    PROVE  ValuesRead'
<1>1. CASE UNCHANGED <<iter, name, version, seg>>
  BY <1>1 DEF ValuesRead
<1>2. CASE OnVersion /\ Proceed
  <2>1. /\ name[iter].kind = "version" /\ version' = AsInt(name[iter].value) /\ seg' = seg
        /\ ~Seen("version") /\ name' = name
    BY <1>2 DEF OnVersion, Sees, SequenceInv, Passed, Refuse, Proceed, TypeOK
  <2> QED
    BY <1>2, <2>1, SeenOn DEF ValuesRead, Seen
<1>3. CASE OnSegment /\ Proceed
  <2>1. /\ name[iter].kind = "segment" /\ seg' = AsInt(name[iter].value)
        /\ version' = version /\ ~Seen("segment") /\ name' = name
    BY <1>3 DEF OnSegment, Sees, SequenceInv, Passed, Refuse, Proceed, TypeOK
  <2> QED
    BY <1>3, <2>1, SeenOn DEF ValuesRead, Seen
<1>4. CASE (OnMeta \/ OnGeneric) /\ Proceed
  <2>1. /\ name[iter].kind \in {"meta", "generic"} /\ version' = version /\ seg' = seg
        /\ name' = name
    BY <1>4 DEF OnMeta, OnGeneric, Sees, Refuse, Proceed
  <2> QED
    BY <1>4, <2>1, SeenOn DEF ValuesRead
<1> QED
  BY <1>1, <1>2, <1>3, <1>4 DEF Next, OnVersion, OnSegment, OnMeta, OnGeneric, Finish, Refuse

LEMMA ReadPreserved ==
    ASSUME TypeOK, SequenceInv, ReadInv, [Next]_vars
    PROVE  ReadInv'
<1>1. CASE Next
  <2>1. PathRead' /\ MetaRead'
    BY <1>1, PathPreserved, MetaPreserved DEF ReadInv
  <2>2. ASSUME Plain' PROVE ValuesRead' /\ (ret' \notin {Scanning, Refused} => Finished')
    <3>1. Plain
      BY <1>1, <2>2 DEF Plain, Next, OnVersion, OnSegment, OnMeta, OnGeneric, Finish,
         Proceed, Refuse
    <3>2. ValuesRead'
      BY <1>1, <3>1, ValuesPreserved DEF ReadInv
    <3>3. CASE Finish
      <4>1. Passed /\ iter = Len(name) + 1 /\ ret' = Request
        BY <3>1, <3>3 DEF Finish, SequenceInv, TypeOK
      <4> QED
        BY <3>2, <3>3, <4>1 DEF Finish, Finished, Request, Passed, Seen, Misplaced
    <3>4. CASE OnVersion \/ OnSegment \/ OnMeta \/ OnGeneric
      <4>1. ret' \in {Scanning, Refused}
        BY <3>4 DEF OnVersion, OnSegment, OnMeta, OnGeneric, Sees, Proceed, Refuse
      <4> QED
        BY <3>2, <4>1
    <3> QED
      BY <1>1, <3>3, <3>4 DEF Next
  <2> QED
    BY <2>1, <2>2 DEF ReadInv
<1>2. CASE UNCHANGED vars
  BY <1>2 DEF vars, ReadInv, PathRead, Leads, MetaRead, Seen, Plain, ValuesRead, Finished,
     Request, Passed, Misplaced
<1> QED
  BY <1>1, <1>2

-----------------------------------------------------------------------------
(* The documented names *)

\* At most two components follow the path, and the request is told by their kinds.
LEMMA PatternParts ==
    ASSUME NEW request \in {Info, Version, Segment}, NEW kinds \in Patterns(request)
    PROVE  \/ Len(kinds) = 0 /\ request = Info
           \/ Len(kinds) = 1 /\ kinds[1] = "meta" /\ request = Info
           \/ Len(kinds) = 1 /\ kinds[1] = "version" /\ request = Version
           \/ Len(kinds) = 2 /\ kinds[1] = "meta" /\ kinds[2] = "version" /\ request = Info
           \/ Len(kinds) = 2 /\ kinds[1] = "version" /\ kinds[2] = "segment"
              /\ request = Segment
<1>1. /\ Len(<<>>) = 0
      /\ Len(<<"meta">>) = 1 /\ <<"meta">>[1] = "meta"
      /\ Len(<<"version">>) = 1 /\ <<"version">>[1] = "version"
      /\ Len(<<"meta", "version">>) = 2 /\ <<"meta", "version">>[1] = "meta"
      /\ <<"meta", "version">>[2] = "version"
      /\ Len(<<"version", "segment">>) = 2 /\ <<"version", "segment">>[1] = "version"
      /\ <<"version", "segment">>[2] = "segment"
  OBVIOUS
<1>2. CASE request = Info
  BY <1>1, <1>2 DEF Patterns, Info, Version, Segment
<1>3. CASE request = Version
  BY <1>1, <1>3 DEF Patterns, Info, Version, Segment
<1>4. CASE request = Segment
  BY <1>1, <1>4 DEF Patterns, Info, Version, Segment
<1> QED
  BY <1>2, <1>3, <1>4

\* A documented name is in sequence, and tells the request once all of it was seen.
LEMMA DocumentedName ==
    ASSUME TypeOK, NEW request \in {Info, Version, Segment}, Documented(name, request)
    PROVE  /\ \E k \in 0..Len(name) : Leads(k)
           /\ ~OutOfSequence(name)
           /\ iter = Len(name) + 1 =>
                request = IF Seen("version") /\ Seen("segment") THEN Segment
                          ELSE IF Seen("version") /\ ~Seen("meta") THEN Version
                          ELSE Info
<1>1. PICK k \in 0..Len(name), kinds \in Patterns(request) : Shape(name, k, kinds)
  BY DEF Documented
<1>2. Len(name) \in Nat
  BY DEF TypeOK
<1>3. \/ Len(kinds) = 0 /\ request = Info
      \/ Len(kinds) = 1 /\ kinds[1] = "meta" /\ request = Info
      \/ Len(kinds) = 1 /\ kinds[1] = "version" /\ request = Version
      \/ Len(kinds) = 2 /\ kinds[1] = "meta" /\ kinds[2] = "version" /\ request = Info
      \/ Len(kinds) = 2 /\ kinds[1] = "version" /\ kinds[2] = "segment"
         /\ request = Segment
  BY PatternParts
<1>4. /\ Len(name) = k + Len(kinds)
      /\ \A i \in 1..Len(name) : i <= k => name[i].kind = "generic"
      /\ \A i \in 1..Len(kinds) : name[k + i].kind = kinds[i]
  BY <1>1, <1>2 DEF Shape
\* The components behind the path, one after the other.
<1>5. /\ Len(kinds) >= 1 => name[k + 1].kind = kinds[1]
      /\ Len(kinds) = 2 => name[k + 2].kind = kinds[2]
      /\ \A i \in 1..Len(name) : \/ i <= k
                                 \/ i = k + 1 /\ Len(kinds) >= 1
                                 \/ i = k + 2 /\ Len(kinds) = 2
  BY <1>2, <1>3, <1>4
<1>6. \A i \in 1..Len(name) :
         /\ name[i].kind = "version" => Rank(name[i]) = 1
         /\ name[i].kind = "segment" => Rank(name[i]) = 2
         /\ name[i].kind \in {"meta", "generic"} => Rank(name[i]) = 0
  BY DEF Rank
<1>7. Leads(k)
  BY <1>3, <1>4, <1>5 DEF Leads
<1>8. ASSUME NEW j \in 1..Len(name) PROVE ~Misplaced(name, j)
  <2>1. CASE j <= k
    <3>1. name[j].kind = "generic" /\ Rank(name[j]) = 0
      BY <1>4, <1>6, <2>1
    <3>2. \A i \in 1..(j - 1) : Rank(name[i]) = 0
      BY <1>2, <1>4, <1>6, <2>1
    <3> QED
      BY <3>1, <3>2 DEF Misplaced
  <2>2. CASE j = k + 1
    <3>1. \A i \in 1..(j - 1) : Rank(name[i]) = 0
      BY <1>2, <1>4, <1>6, <2>2
    <3>2. Rank(name[j]) \in {0, 1} /\ name[j].kind # "segment"
      BY <1>2, <1>3, <1>5, <1>6, <2>2
    <3> QED
      BY <3>1, <3>2 DEF Misplaced
  <2>3. CASE j = k + 2
    <3>1. /\ Len(kinds) = 2
          /\ k + 1 \in 1..(j - 1)
      BY <1>2, <1>4, <1>3, <2>3
    <3>2. \/ Rank(name[j]) = 1 /\ Rank(name[k + 1]) = 0 /\ name[j].kind = "version"
          \/ Rank(name[j]) = 2 /\ Rank(name[k + 1]) = 1 /\ name[k + 1].kind = "version"
      BY <1>2, <1>3, <1>5, <1>6, <2>3, <3>1
    <3>3. ASSUME NEW i \in 1..(j - 1) PROVE Rank(name[i]) = 0 \/ i = k + 1
      <4>1. i \in 1..Len(name) /\ (i \in 1..k \/ i = k + 1)
        BY <1>2, <2>3
      <4>2. i \in 1..k => name[i].kind = "generic"
        BY <1>4
      <4> QED
        BY <1>6, <4>1, <4>2
    <3> QED
      BY <3>1, <3>2, <3>3 DEF Misplaced
  <2> QED
    BY <1>5, <2>1, <2>2, <2>3
<1>9. ASSUME iter = Len(name) + 1
      PROVE  \A kind : Seen(kind) <=> \E i \in 1..Len(name) : name[i].kind = kind
  BY <1>2, <1>9 DEF Seen
<1>10. ASSUME iter = Len(name) + 1
       PROVE  request = IF Seen("version") /\ Seen("segment") THEN Segment
                        ELSE IF Seen("version") /\ ~Seen("meta") THEN Version
                        ELSE Info
  <2>1. \A kind : kind # "generic" =>
           (Seen(kind) <=> \/ Len(kinds) >= 1 /\ kinds[1] = kind
                           \/ Len(kinds) = 2 /\ kinds[2] = kind)
    <3>1. Len(kinds) >= 1 => k + 1 \in 1..Len(name)
      BY <1>2, <1>3, <1>4
    <3>2. Len(kinds) = 2 => k + 2 \in 1..Len(name)
      BY <1>2, <1>4
    <3> QED
      BY <1>4, <1>5, <1>9, <1>10, <3>1, <3>2
  <2> QED
    BY <1>3, <2>1
<1> QED
  BY <1>7, <1>8, <1>10 DEF OutOfSequence

LEMMA ReadUnderstood ==
    ASSUME TypeOK, SequenceInv, ReadInv
    PROVE  PatternsUnderstood
<1> SUFFICES ASSUME ret # Scanning, Plain,
                    NEW request \in {Info, Version, Segment}, Documented(name, request)
             PROVE  /\ ret = request
                    /\ \A i \in 1..Len(path) : path[i] = name[i].value
                    /\ \A i \in 1..Len(name) :
                          /\ name[i].kind = "generic" => i <= Len(path)
                          /\ name[i].kind = "version" => version = AsInt(name[i].value)
                          /\ name[i].kind = "segment" => seg = AsInt(name[i].value)
  BY DEF PatternsUnderstood
<1>1. ret # Refused
  <2>1. ~OutOfSequence(name)
    BY DocumentedName
  <2> QED
    BY <2>1 DEF SequenceInv
<1>2. iter = Len(name) + 1 /\ ret = Request /\ Passed /\ ValuesRead /\ PathRead /\ MetaRead
  BY <1>1 DEF ReadInv, Finished
<1>3. Len(name) \in Nat /\ Len(path) \in Nat
  BY DEF TypeOK
<1>4. PICK k \in 0..Len(name) : Leads(k)
  BY <1>2, DocumentedName
<1>5. Len(path) = k /\ \A i \in 1..Len(path) : path[i] = name[i].value
  BY <1>2, <1>3, <1>4 DEF PathRead
<1>6. \A i \in 1..Len(name) : name[i].kind = "generic" => i <= Len(path)
  BY <1>3, <1>4, <1>5 DEF Leads
<1>7. \A i \in 1..Len(name) :
         /\ name[i].kind = "version" => version = AsInt(name[i].value)
         /\ name[i].kind = "segment" => seg = AsInt(name[i].value)
  BY <1>2, <1>3 DEF ValuesRead
<1>8. ret = request
  <2>1. request = IF Seen("version") /\ Seen("segment") THEN Segment
                  ELSE IF Seen("version") /\ ~Seen("meta") THEN Version
                  ELSE Info
    BY <1>2, DocumentedName
  <2>2. (version # NoNumber <=> Seen("version")) /\ (seg # NoNumber <=> Seen("segment"))
    BY <1>2 DEF Passed
  <2>3. hasMeta <=> Seen("meta")
    BY <1>2 DEF MetaRead, TypeOK
  <2>4. CASE hasMeta
    BY <1>2, <2>1, <2>2, <2>3, <2>4 DEF Request
  <2>5. CASE ~hasMeta
    BY <1>2, <2>1, <2>2, <2>3, <2>5 DEF Request
  <2> QED
    BY <2>4, <2>5
<1> QED
  BY <1>5, <1>6, <1>7, <1>8

(***************************************************************************)
(* A name of a documented pattern is taken for what the pattern says, with *)
(* its path, version and segment (parseName's three returns), for paths of *)
(* any length, any components and any width of int.                        *)
(***************************************************************************)
THEOREM PatternsAreUnderstood == Spec => []PatternsUnderstood
<1>1. Init => TypeOK /\ SequenceInv /\ ReadInv
  BY TypeInitial, SequenceInitial, ReadInitial
<1>2. TypeOK /\ SequenceInv /\ ReadInv /\ [Next]_vars => (TypeOK /\ SequenceInv /\ ReadInv)'
  BY TypePreserved, SequencePreserved, ReadPreserved
<1>3. TypeOK /\ SequenceInv /\ ReadInv => PatternsUnderstood
  BY ReadUnderstood
<1> QED
  BY <1>1, <1>2, <1>3, PTL DEF Spec

-----------------------------------------------------------------------------
(* Arithmetic *)

LEMMA Division ==
    ASSUME NEW a \in Int, NEW d \in Int, d > 0
    PROVE  a \div d \in Int /\ a % d \in 0..(d - 1) /\ a = (a \div d) * d + (a % d)
<1>1. a \div d \in Int
  OBVIOUS
<1>2. a % d \in 0..(d - 1)
  OBVIOUS
<1>3. a = (a \div d) * d + (a % d)
  OBVIOUS
<1> QED
  BY <1>1, <1>2, <1>3

LEMMA Products ==
    ASSUME NEW m \in Int, NEW n \in Int, NEW d \in Int, d > 0
    PROVE  /\ m * d \in Int /\ n * d \in Int
           /\ (m + 1) * d = m * d + d
           /\ m < n => m * d + d <= n * d
<1>1. m * d \in Int /\ n * d \in Int
  OBVIOUS
<1>2. (m + 1) * d = m * d + d
  OBVIOUS
<1>3. ASSUME m < n PROVE m * d + d <= n * d
  BY <1>3
<1> QED
  BY <1>1, <1>2, <1>3

-----------------------------------------------------------------------------
(* Ints *)

LEMMA HalfInt == Limit \in Nat \ {0} /\ IntSize = 2 * Limit
  BY IntSizeAssumption DEF Limit

\* What an int holds is kept; the first number it cannot hold becomes negative.
LEMMA AsIntKeeps == ASSUME NEW n \in Nat, n < Limit PROVE AsInt(n) = n
<1>1. n \in 0..(IntSize - 1) /\ IntSize \in Nat \ {0}
  BY HalfInt
<1>2. n % IntSize = n
  BY <1>1
<1> QED
  BY <1>2 DEF AsInt, Limit

LEMMA AsIntLimit == AsInt(Limit) \in Int /\ AsInt(Limit) < 0
<1>1. Limit \in 0..(IntSize - 1) /\ IntSize \in Nat \ {0}
  BY HalfInt
<1>2. Limit % IntSize = Limit
  BY <1>1
<1>3. IntSize \div 2 = Limit
  BY DEF Limit
<1>4. AsInt(Limit) = Limit - IntSize
  BY <1>2, <1>3, HalfInt DEF AsInt
<1> QED
  BY <1>4, HalfInt

\* An int is never more than the number assigned to it, nor the limit.
LEMMA AsIntSmaller ==
    ASSUME NEW n \in Nat
    PROVE  AsInt(n) \in Int /\ AsInt(n) <= n /\ AsInt(n) < Limit
<1>1. IntSize \in Int /\ IntSize > 0
  BY IntSizeAssumption
<1>2. n % IntSize \in 0..(IntSize - 1)
  BY <1>1, Division
<1>3. n % IntSize <= n
  BY <1>1
<1> QED
  BY <1>2, <1>3, HalfInt DEF AsInt, Limit

-----------------------------------------------------------------------------
(* Segments *)

\* The limit is where a segment begins.
LEMMA LimitAligned ==
    \E K \in Nat \ {0} : Limit = K * SegSize
<1>1. SegSize \in Int /\ SegSize > 0 /\ 2 * SegSize \in Int /\ 2 * SegSize > 0
  BY SegSizeAssumption
<1>2. PICK K \in Int : IntSize = K * (2 * SegSize)
  <2>1. IntSize \in Int
    BY IntSizeAssumption
  <2>2. IntSize = (IntSize \div (2 * SegSize)) * (2 * SegSize) + (IntSize % (2 * SegSize))
        /\ IntSize \div (2 * SegSize) \in Int
    BY <1>1, <2>1, Division
  <2> DEFINE q == IntSize \div (2 * SegSize)
  <2>3. q * (2 * SegSize) \in Int
    BY <1>1, <2>2
  <2>4. IntSize = q * (2 * SegSize)
    BY <2>2, <2>3, SegSizeAssumption
  <2> QED
    BY <2>2, <2>4
<1>3. Limit = K * SegSize
  <2>1. IntSize = 2 * (K * SegSize) /\ K * SegSize \in Int
    BY <1>1, <1>2
  <2> QED
    BY <2>1, HalfInt
<1>4. K > 0
  <2>1. ASSUME K <= 0 PROVE FALSE
    <3>1. K * SegSize <= 0
      BY <1>1, <2>1
    <3> QED
      BY <1>3, <3>1, HalfInt
  <2> QED
    BY <2>1
<1> QED
  BY <1>3, <1>4

\* Release stops before an offset wraps around: what it signed it read in its place.
LEMMA SignedBelowLimit ==
    ASSUME NEW size \in FileSize, NEW n \in Signed(size)
    PROVE  n \in Nat /\ n * SegSize \in Nat /\ n * SegSize < Limit /\ Offset(n) = n * SegSize
<1>1. SegSize \in Nat \ {0} /\ size \in Nat
  BY SegSizeAssumption, MaxSizeAssumption DEF FileSize
<1>2. n \in Nat /\ \A k \in 0..n : CanRead(Offset(k))
  BY <1>1 DEF Signed
<1>3. n * SegSize \in Nat
  BY <1>1, <1>2
<1>4. PICK K \in Nat \ {0} : Limit = K * SegSize
  BY LimitAligned
<1>5. ~(K <= n)
  <2> SUFFICES ASSUME K <= n PROVE FALSE
    OBVIOUS
  <2>1. CanRead(Offset(K))
    BY <1>2
  <2>2. Offset(K) = AsInt(Limit)
    BY <1>4 DEF Offset
  <2> QED
    BY <2>1, <2>2, AsIntLimit DEF CanRead
<1>6. n < K
  BY <1>2, <1>4, <1>5
<1>7. n * SegSize < Limit
  <2>1. n * SegSize + SegSize <= K * SegSize
    BY <1>1, <1>2, <1>6, Products
  <2> QED
    BY <1>1, <1>3, <1>4, <2>1
<1> QED
  BY <1>2, <1>3, <1>7, AsIntKeeps DEF Offset

\* What seg holds of a name's segment components: the number of each that it was given
\* is kept, since another one is refused once seg is not -1.
AskedInv ==
    /\ \A i \in 1..(iter - 1) :
          name[i].kind = "segment" /\ Kept(name[i].value) => seg = AsInt(name[i].value)
    /\ ret = Segment => iter > Len(name)

LEMMA AskedInitial == ASSUME Init PROVE AskedInv
  BY DEF Init, InitWith, AskedInv, Scanning, Segment

LEMMA AskedPreserved ==
    ASSUME TypeOK, AskedInv, [Next]_vars
    PROVE  AskedInv'
<1>1. iter \in Nat \ {0} /\ Len(name) \in Nat
  BY DEF TypeOK
<1>2. CASE Refuse
  BY <1>2 DEF Refuse, AskedInv, Refused, Segment
<1>3. ASSUME NEW kind, Sees(kind), Proceed, seg' = seg, kind # "segment"
      PROVE  AskedInv'
  <2>1. iter' = iter + 1 /\ name' = name /\ ret' # Segment /\ name[iter].kind # "segment"
    BY <1>3 DEF Sees, Proceed, Scanning, Segment
  <2> QED
    BY <1>1, <1>3, <2>1 DEF AskedInv, Kept
<1>4. CASE OnSegment /\ ~Refuse
  <2>1. /\ iter' = iter + 1 /\ name' = name /\ ret' # Segment
        /\ seg = NoNumber /\ seg' = AsInt(name[iter].value)
    BY <1>4 DEF OnSegment, Sees, Proceed, Scanning, Segment
  <2>2. \A i \in 1..(iter - 1) : name[i].kind = "segment" => ~Kept(name[i].value)
    BY <2>1 DEF AskedInv, Kept
  <2> QED
    BY <1>1, <2>1, <2>2 DEF AskedInv, Kept
<1>5. CASE (OnVersion \/ OnMeta \/ OnGeneric) /\ ~Refuse
  <2>1. PICK kind \in {"version", "meta", "generic"} : Sees(kind)
    BY <1>5 DEF OnVersion, OnMeta, OnGeneric
  <2>2. Proceed /\ seg' = seg
    BY <1>5 DEF OnVersion, OnMeta, OnGeneric
  <2> QED
    BY <1>3, <2>1, <2>2
<1>6. CASE Finish
  BY <1>6 DEF Finish, AskedInv, Kept
<1>7. CASE UNCHANGED vars
  BY <1>7 DEF vars, AskedInv, Kept
<1> QED
  BY <1>2, <1>4, <1>5, <1>6, <1>7 DEF Next

LEMMA AskedNumber == ASSUME TypeOK, NEW n \in Asked PROVE n \in Nat
<1>1. PICK i \in 1..Len(name) : name[i].kind = "segment" /\ n = name[i].value
  BY DEF Asked
<1>2. name[i] \in Component
  BY DEF TypeOK
<1>3. name[i].value \in Number
  BY <1>1, <1>2 DEF Component
<1> QED
  BY <1>1, <1>3, NumberAssumption

\* A number asked for that parseName can keep is the one it hands on.
LEMMA AskedSegment ==
    ASSUME TypeOK, AskedInv, ret = Segment, NEW n \in Asked, Kept(n)
    PROVE  n \in Nat /\ seg = AsInt(n)
<1>1. PICK i \in 1..Len(name) : name[i].kind = "segment" /\ n = name[i].value
  BY DEF Asked
<1>2. i \in 1..(iter - 1)
  BY DEF AskedInv, TypeOK
<1>3. n \in Nat
  BY AskedNumber
<1> QED
  BY <1>1, <1>2, <1>3 DEF AskedInv

\* A signed segment is below the limit, and there the number asked for is not changed.
LEMMA SignedAsked ==
    ASSUME NEW n \in Nat, n < IntSize, NEW size \in FileSize, AsInt(n) \in Signed(size)
    PROVE  AsInt(n) = n
<1>1. AsInt(n) \in Nat
  BY SignedBelowLimit
<1>2. n \in 0..(IntSize - 1) /\ IntSize \in Nat \ {0}
  BY HalfInt
<1>3. n % IntSize = n
  BY <1>2
<1> QED
  BY <1>1, <1>2, <1>3 DEF AsInt

\* An interest for a segment is answered with the bytes of the segment its name says or
\* not at all, for every number of 32 bits that parseName does not take for none and
\* however large the file was and is.
THEOREM AlwaysServedInPlace == Spec => []ServedInPlace
<1>1. TypeOK /\ AskedInv => ServedInPlace
  <2> SUFFICES ASSUME TypeOK, AskedInv, ret = Segment, NEW n \in Asked, Kept(n),
                      NEW size \in FileSize, NEW now \in FileSize
               PROVE  Served(seg, size, now) \in {{}, Place(n, now)}
    BY DEF ServedInPlace
  <2>1. n \in Nat /\ n < IntSize /\ seg = AsInt(n)
    BY AskedSegment DEF Kept
  <2>2. CASE seg \in Signed(size)
    <3>1. seg = n
      BY <2>1, <2>2, SignedAsked
    <3> QED
      BY <2>2, <3>1, SignedBelowLimit DEF Served, Place
  <2>3. CASE seg \notin Signed(size)
    BY <2>3 DEF Served, HasSegment
  <2> QED
    BY <2>2, <2>3
<1>2. Init => TypeOK /\ AskedInv
  BY TypeInitial, AskedInitial
<1>3. TypeOK /\ AskedInv /\ [Next]_vars => TypeOK' /\ AskedInv'
  BY TypePreserved, AskedPreserved
<1> QED
  BY <1>1, <1>2, <1>3, PTL DEF Spec

-----------------------------------------------------------------------------
(* The segments announced *)

\* A segment that ends below the limit and inside the file is signed.
LEMMA SignedWithin ==
    ASSUME NEW size \in FileSize, NEW n \in Nat, n * SegSize < Limit, n * SegSize <= size
    PROVE  n \in Signed(size)
<1>1. SegSize \in Nat \ {0} /\ size \in Nat /\ Limit \in Nat
  BY SegSizeAssumption, MaxSizeAssumption, HalfInt DEF FileSize
<1>2. n * SegSize \in Nat
  BY <1>1
<1>3. \A k \in 0..n : k * SegSize \in Nat /\ k * SegSize <= n * SegSize
  <2> SUFFICES ASSUME NEW k \in 0..n PROVE k * SegSize \in Nat /\ k * SegSize <= n * SegSize
    OBVIOUS
  <2>1. k * SegSize \in Nat
    BY <1>1
  <2>2. CASE k = n
    BY <1>2, <2>2
  <2>3. CASE k < n
    <3>1. k * SegSize + SegSize <= n * SegSize
      BY <1>1, <2>3, Products
    <3> QED
      BY <1>1, <1>2, <2>1, <3>1
  <2> QED
    BY <2>1, <2>2, <2>3
<1>4. \A k \in 0..n : Offset(k) = k * SegSize
  BY <1>1, <1>2, <1>3, AsIntKeeps DEF Offset
<1>5. ASSUME NEW k \in 0..n, k < n
      PROVE  Cardinality(Bytes(size, Offset(k))) = SegSize
  <2> DEFINE o == k * SegSize
  <2>1. o \in Nat /\ o + SegSize <= size
    <3>1. k * SegSize + SegSize <= n * SegSize
      BY <1>1, <1>5, Products
    <3> QED
      BY <1>1, <1>2, <1>3, <3>1
  <2>2. Offset(k) = o
    BY <1>4
  <2> HIDE DEF o
  <2>3. o \in Int /\ o + SegSize - 1 \in Int /\ ~(o > o + SegSize - 1)
    BY <1>1, <2>1
  <2>4. Bytes(size, Offset(k)) = o .. (o + SegSize - 1)
    BY <1>1, <2>1, <2>2 DEF Bytes
  <2>5. Cardinality(o .. (o + SegSize - 1)) = (o + SegSize - 1) - o + 1
    BY <2>3, FS_Interval
  <2>6. (o + SegSize - 1) - o + 1 = SegSize
    BY <1>1, <2>3
  <2> QED
    BY <2>4, <2>5, <2>6
<1>6. n \in 0..(size \div SegSize)
  <2> DEFINE q == size \div SegSize
  <2>1. q \in Int /\ size % SegSize \in 0..(SegSize - 1)
        /\ size = q * SegSize + (size % SegSize)
    BY <1>1, Division
  <2> HIDE DEF q
  <2>2. q * SegSize \in Int
    BY <1>1, <2>1
  <2>3. ASSUME q < n PROVE FALSE
    <3>1. q * SegSize + SegSize <= n * SegSize
      BY <1>1, <2>1, <2>3, Products
    <3> QED
      BY <1>1, <1>2, <2>1, <2>2, <3>1
  <2>4. n <= q
    BY <2>1, <2>3
  <2> QED
    BY <2>1, <2>4 DEF q
<1>7. \A k \in 0..n : CanRead(Offset(k))
  BY <1>3, <1>4 DEF CanRead
<1> QED
  BY <1>5, <1>6, <1>7 DEF Signed

\* A number is below a total exactly when its place begins inside what the total counts.
LEMMA TotalCounts ==
    ASSUME NEW s \in Int, NEW n \in Nat
    PROVE  /\ n < (s \div SegSize) + 1 => n * SegSize <= s
           /\ n >= (s \div SegSize) + 1 => n * SegSize > s
<1> DEFINE q == s \div SegSize
<1>1. SegSize \in Int /\ SegSize > 0
  BY SegSizeAssumption
<1>2. q \in Int /\ s % SegSize \in 0..(SegSize - 1) /\ s = q * SegSize + (s % SegSize)
  BY <1>1, Division
<1> HIDE DEF q
<1>3. n * SegSize \in Int /\ q * SegSize \in Int
  BY <1>1, <1>2
<1>4. ASSUME n < q + 1 PROVE n * SegSize <= s
  <2>1. CASE n = q
    BY <1>1, <1>2, <1>3, <2>1
  <2>2. CASE n < q
    <3>1. n * SegSize + SegSize <= q * SegSize
      BY <1>1, <1>2, <2>2, Products
    <3> QED
      BY <1>1, <1>2, <1>3, <3>1
  <2> QED
    BY <1>2, <1>4, <2>1, <2>2
<1>5. ASSUME n >= q + 1 PROVE n * SegSize > s
  <2>1. q * SegSize + SegSize <= n * SegSize
    BY <1>1, <1>2, <1>5, Products
  <2> QED
    BY <1>1, <1>2, <1>3, <2>1
<1> QED
  BY <1>4, <1>5 DEF q

\* A total that an int holds is announced as it is.
LEMMA FinalBlockKeeps ==
    ASSUME NEW total \in Int, total > 0, total <= Limit
    PROVE  FinalBlock(total) = total - 1
<1>1. total - 1 \in 0..(LongSize - 1) /\ LongSize \in Nat \ {0}
  BY HalfInt, LongSizeAssumption
<1> QED
  BY <1>1 DEF FinalBlock

\* The total is never more than the limit, and positive for a size that is not negative.
LEMMA TotalRange ==
    ASSUME NEW size \in FileSize
    PROVE  /\ TotalSeg(size) \in Int /\ TotalSeg(size) <= Limit
           /\ AsInt(size) >= 0 => TotalSeg(size) > 0
<1>1. size \in Nat /\ SegSize \in Int /\ SegSize > 0 /\ Limit \in Nat \ {0}
  BY SegSizeAssumption, MaxSizeAssumption, HalfInt DEF FileSize
<1>2. AsInt(size) \in Int /\ AsInt(size) < Limit
  BY <1>1, AsIntSmaller
<1> DEFINE s == AsInt(size)
           q == s \div SegSize
<1>3. q \in Int /\ s % SegSize \in 0..(SegSize - 1) /\ s = q * SegSize + (s % SegSize)
  BY <1>1, <1>2, Division
<1>4. TotalSeg(size) = q + 1
  BY DEF TotalSeg
<1> HIDE DEF q
<1> HIDE DEF s
<1>5. s \in Int /\ s < Limit
  BY <1>2 DEF s
<1>6. q < Limit
  <2>1. ASSUME q >= Limit PROVE FALSE
    <3>1. q \in Nat /\ q > 0
      BY <1>1, <1>3, <2>1
    <3>2. q * SegSize >= q
      BY <1>1, <3>1
    <3> QED
      BY <1>1, <1>3, <1>5, <2>1, <3>1, <3>2
  <2> QED
    BY <1>1, <1>3, <2>1
<1>7. s >= 0 => q >= 0
  <2>1. ASSUME s >= 0, q < 0 PROVE FALSE
    <3>1. q * SegSize + SegSize <= 0 * SegSize
      BY <1>1, <1>3, <2>1, Products
    <3>2. q * SegSize \in Int
      BY <1>1, <1>3
    <3> QED
      BY <1>1, <1>3, <1>5, <2>1, <3>1, <3>2
  <2> QED
    BY <1>3, <1>5, <2>1
<1> QED
  BY <1>1, <1>3, <1>4, <1>6, <1>7 DEF s

\* sendFileContent announces the segments below a total that is positive.
LEMMA ContentAnnounced ==
    ASSUME NEW size \in FileSize, NEW n \in Nat
    PROVE  /\ n \in AnnouncedByContent(size) => n < TotalSeg(size)
           /\ n \notin AnnouncedByContent(size) => n >= TotalSeg(size)
<1> DEFINE total == TotalSeg(size)
<1>1. total \in Int /\ total <= Limit
  BY TotalRange
<1>2. CASE total > 0
  <2>1. AnnouncedByContent(size) = 0..(total - 1)
    BY <1>1, <1>2, FinalBlockKeeps DEF AnnouncedByContent
  <2> HIDE DEF total
  <2>2. n \in 0..(total - 1) <=> n < total
    BY <1>1
  <2> QED
    BY <1>1, <2>1, <2>2 DEF total
<1>3. CASE ~(total > 0)
  <2>1. AnnouncedByContent(size) = {}
    BY <1>3 DEF AnnouncedByContent
  <2> HIDE DEF total
  <2>2. n >= total
    BY <1>1, <1>3
  <2> QED
    BY <2>1, <2>2 DEF total
<1> QED
  BY <1>2, <1>3

(***************************************************************************)
(* The segments sendFileContent announces are signed and served in their   *)
(* place, for files of any size, and below 2 GB they are the whole file;   *)
(* sendFileMeta announces no other, but where the size is negative as an   *)
(* int.                                                                    *)
(***************************************************************************)
THEOREM AlwaysAnnouncedServed == Spec => []AnnouncedServed
<1>1. TypeOK /\ AskedInv => AnnouncedServed
  <2> SUFFICES ASSUME TypeOK, AskedInv, ret = Segment, NEW n \in Asked, NEW size \in FileSize
               PROVE  /\ n \in AnnouncedByContent(size) =>
                             n \in Signed(size) /\ Served(seg, size, size) = Place(n, size)
                      /\ n \notin AnnouncedByContent(size) /\ size < Limit =>
                             Place(n, size) = {}
                      /\ n \in AnnouncedByMeta(size) =>
                             n \in AnnouncedByContent(size) \/ AsInt(size) < 0
    BY DEF AnnouncedServed
  <2>1. SegSize \in Nat \ {0} /\ size \in Nat /\ Limit \in Nat
    BY SegSizeAssumption, MaxSizeAssumption, HalfInt DEF FileSize
  <2>2. n \in Nat
    BY AskedNumber
  <2>3. AsInt(size) \in Int /\ AsInt(size) <= size /\ AsInt(size) < Limit
    BY <2>1, AsIntSmaller
  <2>4. TotalSeg(size) \in Int
    BY TotalRange
  <2>5. ASSUME n \in AnnouncedByContent(size)
        PROVE  n \in Signed(size) /\ Served(seg, size, size) = Place(n, size)
    <3>1. n < (AsInt(size) \div SegSize) + 1
      BY <2>2, <2>5, ContentAnnounced DEF TotalSeg
    <3>2. n * SegSize <= AsInt(size) /\ n * SegSize \in Nat
      <4>1. n * SegSize \in Nat
        BY <2>1, <2>2
      <4> QED
        BY <2>2, <2>3, <3>1, <4>1, TotalCounts
    <3>3. n \in Signed(size)
      BY <2>1, <2>2, <2>3, <3>2, SignedWithin
    <3>4. n * SegSize < Limit /\ Offset(n) = n * SegSize /\ CanRead(Offset(n))
      BY <3>2, <3>3, SignedBelowLimit DEF CanRead
    <3>5. n < Limit
      <4>1. n <= n * SegSize
        BY <2>1, <2>2
      <4> QED
        BY <2>1, <2>2, <3>2, <3>4, <4>1
    <3>6. AsInt(n) = n
      BY <2>2, <3>5, AsIntKeeps
    <3>7. Kept(n)
      BY <2>2, <3>5, <3>6, HalfInt DEF Kept, NoNumber
    <3>8. seg = n
      BY <3>6, <3>7, AskedSegment
    <3> QED
      BY <3>3, <3>4, <3>8 DEF Served, HasSegment, Place
  <2>6. ASSUME n \notin AnnouncedByContent(size), size < Limit PROVE Place(n, size) = {}
    <3>1. AsInt(size) = size
      BY <2>1, <2>6, AsIntKeeps
    <3>2. n >= (size \div SegSize) + 1
      BY <2>2, <2>6, <3>1, ContentAnnounced DEF TotalSeg
    <3>3. n * SegSize > size /\ n * SegSize \in Nat
      BY <2>1, <2>2, <3>2, TotalCounts
    <3> QED
      BY <2>1, <3>3 DEF Place, Bytes
  <2>7. ASSUME n \in AnnouncedByMeta(size), AsInt(size) >= 0
        PROVE  n \in AnnouncedByContent(size)
    BY <2>7, TotalRange DEF AnnouncedByMeta, AnnouncedByContent
  <2> QED
    BY <2>3, <2>5, <2>6, <2>7
<1>2. Init => TypeOK /\ AskedInv
  BY TypeInitial, AskedInitial
<1>3. TypeOK /\ AskedInv /\ [Next]_vars => TypeOK' /\ AskedInv'
  BY TypePreserved, AskedPreserved
<1> QED
  BY <1>1, <1>2, <1>3, PTL DEF Spec

=============================================================================
