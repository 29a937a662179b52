---------------------------- MODULE FetchProofs ----------------------------
(***************************************************************************)
(* The fetching programs, for files of any size that change any number of  *)
(* times and a window of any width.                                        *)
(***************************************************************************)
EXTENDS Fetch, FiniteSetTheorems, TLAPS

-----------------------------------------------------------------------------
(* Types *)

\* What a received segment is noted as.
Received == [seg : Nat, edition : 1..MaxEditions]

LEMMA TypeInitial == Init => TypeOK
<1> SUFFICES ASSUME Init PROVE TypeOK
  OBVIOUS
<1>1. PICK s \in Size : editions = <<s>>
  BY DEF Init
<1>2. editions \in Seq(Size) /\ Len(editions) \in 1..MaxEditions
  BY <1>1, FetchAssumption
<1>3. pending \subseteq Interest
  BY DEF Init, Interest
<1>4. asked \in Seq(Nat) /\ got \in Seq(Received)
  BY DEF Init
<1> QED
  BY <1>2, <1>3, <1>4 DEF Init, TypeOK, Received

\* What an answer can be, as far as the callbacks look at it.
LEMMA SegmentAnswer ==
    ASSUME TypeOK, NEW i \in pending, NEW d \in Answers(i), i.kind = "segment"
    PROVE  /\ i.ver \in Nat \ {0} /\ i.seg \in Nat
           /\ d.kind = "segment" /\ d.seg = i.seg /\ d.edition \in Editions
<1>1. i \in Interest
  BY DEF TypeOK
<1>2. i.ver \in Nat \ {0} /\ i.seg \in Nat
  BY <1>1 DEF Interest, Attr, InfoOf, Below
<1>3. d \in SegmentData(i.ver, i.seg)
  BY DEF Answers
<1> QED
  BY <1>2, <1>3 DEF SegmentData

LEMMA InfoAnswer ==
    ASSUME TypeOK, NEW i \in pending, NEW d \in Answers(i), d.kind = "info"
    PROVE  d.ver \in Nat \ {0} /\ d.total \in Nat
<1>1. d \in InfoData
  <2>1. i \in Interest
    BY DEF TypeOK
  <2>2. i.kind \in {"segment", "attr", "info", "below"}
    BY <2>1 DEF Interest, Attr, InfoOf, Below
  <2>3. CASE i.kind = "segment"
    BY <2>3 DEF Answers, SegmentData
  <2>4. CASE i.kind = "attr"
    BY <2>4 DEF Answers, Odd, Stray, Dir, Deeper
  <2>5. CASE i.kind = "info"
    BY <2>5 DEF Answers, Odd
  <2>6. CASE i.kind = "below"
    BY <2>6 DEF Answers, Dir
  <2> QED
    BY <2>2, <2>3, <2>4, <2>5, <2>6
<1>2. PICK v \in Editions, e \in Editions :
         d = [kind |-> "info", ver |-> v, total |-> TotalSeg(editions[e])]
  BY <1>1 DEF InfoData
<1>3. editions[e] \in Size
  BY DEF TypeOK, Editions
<1> QED
  BY <1>2, <1>3, FetchAssumption DEF Editions, Size, TotalSeg, TypeOK

LEMMA AskedType ==
    ASSUME asked \in Seq(Nat), NEW segments \in Seq(Nat), Asks(segments)
    PROVE  asked' \in Seq(Nat)
  BY DEF Asks

LEMMA DeliverType ==
    ASSUME TypeOK, NEW i \in pending, NEW d \in Answers(i), Deliver(i, d)
    PROVE  TypeOK'
<1>0. /\ target' = target /\ editions' = editions /\ program' = program
      /\ exited' = exited /\ lost' = lost /\ Editions' = Editions
  BY DEF Deliver, server, Editions
<1>1. ASSUME pending' \subseteq Interest, current' \in Nat, total' \in Nat,
             done' \in BOOLEAN, asked' \in Seq(Nat),
             got' \in Seq(Received)
      PROVE  TypeOK'
  BY <1>0, <1>1 DEF TypeOK, Received
<1>2. <<>> \in Seq(Nat) /\ <<0>> \in Seq(Nat)
  OBVIOUS
<1>3. CASE OnAttrData(i, d)
  <2>1. current' \in Nat /\ got' \in Seq(Received)
    BY <1>3 DEF OnAttrData, TypeOK, Received
  <2>2. CASE AttrUseless(i, d)
    BY <1>1, <1>2, <2>1, <2>2, AskedType DEF AttrUseless, Express, TypeOK
  <2>3. CASE AttrFile(i, d)
    <3>1. d.ver \in Nat \ {0} /\ d.total \in Nat
      BY <2>3, InfoAnswer DEF AttrFile
    <3>2. SegmentOf(d.ver, 0) \in Interest
      BY <3>1 DEF SegmentOf, Interest
    <3>3. pending' \subseteq Interest
      BY <2>3, <3>2 DEF AttrFile, Express, TypeOK
    <3>4. Asks(<<0>>) \/ Asks(<<>>)
      BY <2>3 DEF AttrFile
    <3>5. asked' \in Seq(Nat)
      BY <1>2, <3>4, AskedType DEF TypeOK
    <3> QED
      BY <1>1, <2>1, <2>3, <3>1, <3>3, <3>5 DEF AttrFile
  <2>4. CASE AttrAgain(i, d)
    <3>1. pending' \subseteq Interest
      BY <2>4 DEF AttrAgain, Express, TypeOK, Interest
    <3>2. asked' \in Seq(Nat)
      BY <1>2, <2>4, AskedType DEF AttrAgain, TypeOK
    <3> QED
      BY <1>1, <2>1, <2>4, <3>1, <3>2 DEF AttrAgain, TypeOK
  <2> QED
    BY <1>3, <2>2, <2>3, <2>4 DEF OnAttrData
<1>4. CASE OnMetaData(i, d)
  <2>1. done' \in BOOLEAN /\ got' \in Seq(Received)
    BY <1>4 DEF OnMetaData, TypeOK, Received
  <2>2. CASE d.kind = "info"
    <3>1. d.ver \in Nat \ {0} /\ d.total \in Nat
      BY <2>2, InfoAnswer
    <3>2. Ahead \in Nat \ {0} /\ current \in Nat
      BY FetchAssumption DEF Ahead, TypeOK
    <3>3. \A n \in 0..(Ahead - 1) : SegmentOf(d.ver, current + n) \in Interest
      BY <3>1, <3>2 DEF SegmentOf, Interest
    <3>4. pending' \subseteq Interest
      BY <1>4, <2>2, <3>3 DEF OnMetaData, Express, TypeOK
    <3>5. [n \in 1..Ahead |-> current + n - 1] \in Seq(Nat)
      BY <3>2
    <3>6. asked' \in Seq(Nat)
      BY <1>4, <2>2, <3>5, AskedType DEF OnMetaData, TypeOK
    <3> QED
      BY <1>1, <1>4, <2>1, <2>2, <3>1, <3>2, <3>4, <3>6 DEF OnMetaData
  <2>3. CASE d.kind # "info"
    <3>1. asked' \in Seq(Nat)
      BY <1>2, <1>4, <2>3, AskedType DEF OnMetaData, TypeOK
    <3> QED
      BY <1>1, <1>4, <2>1, <2>3, <3>1 DEF OnMetaData, Express, TypeOK
  <2> QED
    BY <2>2, <2>3
<1>5. CASE OnFileData(i, d) \/ OnFileDataPipe(i, d)
  <2>1. /\ i.ver \in Nat \ {0} /\ d.seg \in Nat /\ d.edition \in Editions
    BY <1>5, SegmentAnswer DEF OnFileData, OnFileDataPipe
  <2>2. got' \in Seq(Received)
    <3>0. d.edition \in 1..MaxEditions
      <4>1. d.edition \in 1..Len(editions) /\ Len(editions) \in 1..MaxEditions
        BY <2>1 DEF Editions, TypeOK
      <4> QED
        BY <4>1, FetchAssumption
    <3>1. [seg |-> d.seg, edition |-> d.edition] \in Received
      BY <2>1, <3>0 DEF Received
    <3>2. got \in Seq(Received)
      BY DEF TypeOK, Received
    <3>3. got' = Append(got, [seg |-> d.seg, edition |-> d.edition])
      BY <1>5 DEF OnFileData, OnFileDataPipe, Receive
    <3> QED
      BY <3>1, <3>2, <3>3
  <2>3. current' \in Nat
    BY <1>5, <2>1 DEF OnFileData, OnFileDataPipe, NextSegment, TypeOK
  <2>4. SegmentOf(i.ver, current') \in Interest /\ <<current'>> \in Seq(Nat)
    BY <2>1, <2>3 DEF SegmentOf, Interest
  <2>5. pending' \subseteq Interest
    BY <1>5, <2>4 DEF OnFileData, OnFileDataPipe, Express, TypeOK
  <2>6. Asks(<<>>) \/ Asks(<<current'>>)
    BY <1>5 DEF OnFileData, OnFileDataPipe
  <2>7. asked' \in Seq(Nat)
    BY <1>2, <2>4, <2>6, AskedType DEF TypeOK
  <2>8. total' \in Nat
    BY <1>5 DEF OnFileData, OnFileDataPipe, TypeOK
  <2>9. done' \in BOOLEAN
    BY <1>5 DEF OnFileData, OnFileDataPipe, TypeOK
  <2> QED
    BY <1>1, <2>2, <2>3, <2>5, <2>7, <2>8, <2>9
<1> QED
  BY <1>3, <1>4, <1>5 DEF Deliver

LEMMA TypePreserved ==
    ASSUME TypeOK, [Next]_vars
    PROVE  TypeOK'
<1>1. ASSUME NEW i \in pending, NEW d \in Answers(i), Deliver(i, d) PROVE TypeOK'
  BY <1>1, DeliverType
<1>2. ASSUME NEW i \in pending, Timeout(i) PROVE TypeOK'
  <2>1. lost' \in BOOLEAN /\ pending' \subseteq Interest
    BY <1>2 DEF Timeout, OnTimeout, Express, TypeOK
  <2> QED
    BY <1>2, <2>1 DEF Timeout, OnTimeout, TypeOK, server, Editions
<1>3. CASE Exit
  BY <1>3 DEF Exit, TypeOK, server, Editions
<1>4. ASSUME NEW s \in Size, Publish(s) PROVE TypeOK'
  <2>1. editions' \in Seq(Size) /\ Len(editions') = Len(editions) + 1
    BY <1>4 DEF Publish, TypeOK
  <2>2. Len(editions') \in 1..MaxEditions
    BY <1>4, <2>1, FetchAssumption DEF Publish, TypeOK
  <2> QED
    BY <1>4, <2>1, <2>2 DEF Publish, TypeOK
<1>5. CASE UNCHANGED vars
  BY <1>5 DEF vars, server, TypeOK, Editions
<1> QED
  BY <1>1, <1>2, <1>3, <1>4, <1>5 DEF Next

\* Counters, interests and everything received keep their types, whatever answers,
\* time-outs and changes of the file come in whatever order.
THEOREM TypeCorrect == Spec => []TypeOK
  BY TypeInitial, TypePreserved, PTL DEF Spec

-----------------------------------------------------------------------------
(* One segment after the other *)

\* The client and cat_file wait for at most one answer; before the first segment they
\* have received nothing, and then wait for the segment after those received.
OneAtATime == \A i, j \in pending : i = j
WaitsForNext ==
    \A i \in pending : IF i.kind = "segment" THEN i.seg = Len(got)
                    ELSE got = <<>> /\ current = 0
InOrder == \A k \in 1..Len(got) : got[k].seg = k - 1

FetchInv == program \in Sequential => OneAtATime /\ WaitsForNext /\ InOrder

LEMMA FetchInvInitial == Init => FetchInv
  BY DEF Init, FetchInv, OneAtATime, WaitsForNext, InOrder, Attr, InfoOf

LEMMA FetchInvDelivered ==
    ASSUME TypeOK, FetchInv, NEW i \in pending, NEW d \in Answers(i), Deliver(i, d)
    PROVE  FetchInv'
<1> SUFFICES ASSUME program \in Sequential
             PROVE  (OneAtATime /\ WaitsForNext /\ InOrder)'
  BY DEF FetchInv, Deliver
<1>1. OneAtATime /\ WaitsForNext /\ InOrder
  BY DEF FetchInv
\* It is enough that the only interest there was is replaced by at most one.
<1>2. ASSUME pending' = pending \ {i}, UNCHANGED got
      PROVE  (OneAtATime /\ WaitsForNext /\ InOrder)'
  BY <1>1, <1>2 DEF OneAtATime, WaitsForNext, InOrder
<1>3. ASSUME NEW j, pending' = (pending \ {i}) \cup {j}, UNCHANGED got, got = <<>>,
             IF j.kind = "segment" THEN j.seg = 0 ELSE current' = 0
      PROVE  (OneAtATime /\ WaitsForNext /\ InOrder)'
  BY <1>1, <1>3 DEF OneAtATime, WaitsForNext, InOrder
<1>4. ASSUME i.kind # "segment" PROVE got = <<>> /\ current = 0
  BY <1>1, <1>4 DEF WaitsForNext
<1>5. CASE OnAttrData(i, d)
  <2>1. UNCHANGED got /\ got = <<>> /\ current' = 0
    BY <1>4, <1>5 DEF OnAttrData
  <2>2. CASE Express(i, {})
    BY <1>2, <2>1, <2>2 DEF Express
  <2>3. CASE Express(i, {SegmentOf(d.ver, 0)})
    BY <1>3, <2>1, <2>3 DEF Express, SegmentOf
  <2>4. CASE Express(i, {InfoOf}) \/ Express(i, {Below})
    BY <1>3, <2>1, <2>4 DEF Express, InfoOf, Below
  <2>5. Express(i, {}) \/ Express(i, {SegmentOf(d.ver, 0)})
          \/ Express(i, {InfoOf}) \/ Express(i, {Below})
    BY <1>5 DEF OnAttrData, AttrUseless, AttrFile, AttrAgain
  <2> QED
    BY <2>2, <2>3, <2>4, <2>5
<1>6. CASE OnMetaData(i, d)
  <2>1. UNCHANGED got /\ got = <<>> /\ current = 0 /\ Ahead = 1
    BY <1>4, <1>6 DEF OnMetaData, Sequential, Ahead
  <2>2. CASE Express(i, {})
    BY <1>2, <2>1, <2>2 DEF Express
  <2>3. CASE Express(i, {SegmentOf(d.ver, current + n) : n \in 0..(Ahead - 1)})
    <3>1. {SegmentOf(d.ver, current + n) : n \in 0..(Ahead - 1)} = {SegmentOf(d.ver, 0)}
      BY <2>1
    <3> QED
      BY <1>3, <2>1, <2>3, <3>1 DEF Express, SegmentOf
  <2> QED
    BY <1>6, <2>2, <2>3 DEF OnMetaData
<1>7. CASE OnFileData(i, d)
  <2>1. d.seg = i.seg /\ i.seg = Len(got) /\ i.seg \in Nat
    BY <1>1, <1>7, SegmentAnswer DEF WaitsForNext, OnFileData
  <2>2. got \in Seq(Received)
    BY DEF TypeOK, Received
  <2>3. PICK r : r.seg = Len(got) /\ got' = Append(got, r)
    BY <1>7, <2>1 DEF OnFileData, Receive
  <2>4. /\ Len(got') = Len(got) + 1
        /\ \A k \in 1..Len(got) : got'[k] = got[k]
        /\ got'[Len(got) + 1] = r
    BY <2>2, <2>3
  <2>5. InOrder'
    BY <1>1, <2>2, <2>3, <2>4 DEF InOrder
  <2>6. current' = Len(got')
    BY <1>7, <2>1, <2>4 DEF OnFileData, NextSegment
  <2>7. CASE pending' = pending \ {i}
    BY <1>1, <2>5, <2>7 DEF OneAtATime, WaitsForNext
  <2>8. CASE pending' = (pending \ {i}) \cup {SegmentOf(i.ver, current')}
    BY <1>1, <2>5, <2>6, <2>8 DEF OneAtATime, WaitsForNext, SegmentOf
  <2> QED
    BY <1>7, <2>7, <2>8 DEF OnFileData, Express
<1>8. CASE OnFileDataPipe(i, d)
  BY <1>8 DEF OnFileDataPipe, Sequential
<1> QED
  BY <1>5, <1>6, <1>7, <1>8 DEF Deliver

LEMMA FetchInvPreserved ==
    ASSUME TypeOK, FetchInv, [Next]_vars
    PROVE  FetchInv'
<1>1. ASSUME NEW i \in pending, NEW d \in Answers(i), Deliver(i, d) PROVE FetchInv'
  BY <1>1, FetchInvDelivered
<1>2. ASSUME NEW i \in pending, Timeout(i) PROVE FetchInv'
  BY <1>2 DEF Timeout, OnTimeout, Express, FetchInv, OneAtATime, WaitsForNext, InOrder
<1>3. CASE Exit
  BY <1>3 DEF Exit, FetchInv, OneAtATime, WaitsForNext, InOrder
<1>4. ASSUME NEW s \in Size, Publish(s) PROVE FetchInv'
  BY <1>4 DEF Publish, FetchInv, OneAtATime, WaitsForNext, InOrder
<1>5. CASE UNCHANGED vars
  BY <1>5 DEF vars, FetchInv, OneAtATime, WaitsForNext, InOrder
<1> QED
  BY <1>1, <1>2, <1>3, <1>4, <1>5 DEF Next

\* Whatever is delayed, lost or changed meanwhile, the client and cat_file put the
\* segments they receive into the local file in order and without holes.
THEOREM SavesInOrder == Spec => []SavedInOrder
<1>1. TypeOK /\ FetchInv => SavedInOrder
  BY DEF FetchInv, OneAtATime, InOrder, SavedInOrder
<1> QED
  BY <1>1, TypeInitial, TypePreserved, FetchInvInitial, FetchInvPreserved, PTL DEF Spec
-----------------------------------------------------------------------------
(* A window of segments *)

\* cat_file_pipe asks for nothing twice: current_seg is at or beyond every segment that
\* is asked for, and those still awaited differ from each other and from those received.
Pipe == program = "cat_file_pipe"
InfoFirst ==
    \A i \in pending :
        i.kind # "segment" => pending = {i} /\ current = 0 /\ got = <<>> /\ asked = <<>>
BehindCurrent ==
    /\ \A i \in pending : i.kind = "segment" => i.seg <= current
    /\ \A k \in 1..Len(asked) : asked[k] <= current
    /\ \A k \in 1..Len(got) : got[k].seg <= current
AwaitedOnce ==
    /\ \A i, j \in pending : i.kind = "segment" /\ j.kind = "segment" /\ i.seg = j.seg => i = j
    /\ \A i \in pending : i.kind = "segment" => \A k \in 1..Len(got) : got[k].seg # i.seg
AskedOnce == \A j, k \in 1..Len(asked) : asked[j] = asked[k] => j = k

PipeInv == Pipe => InfoFirst /\ BehindCurrent /\ AwaitedOnce /\ AskedOnce

LEMMA PipeInvInitial == Init => PipeInv
  BY DEF Init, PipeInv, Pipe, InfoFirst, BehindCurrent, AwaitedOnce, AskedOnce, Attr, InfoOf

LEMMA PipeInvMeta ==
    ASSUME TypeOK, PipeInv, Pipe, NEW i \in pending, NEW d \in Answers(i), OnMetaData(i, d),
           UNCHANGED program
    PROVE  PipeInv'
<1>1. pending = {i} /\ current = 0 /\ got = <<>> /\ asked = <<>>
  BY DEF OnMetaData, PipeInv, InfoFirst
<1>2. CASE d.kind = "info"
  <2>1. Ahead = PipeSize /\ PipeSize \in Nat \ {0}
    BY FetchAssumption DEF Ahead, Pipe
  <2>2. pending' = {SegmentOf(d.ver, n) : n \in 0..(PipeSize - 1)}
    <3>1. \A n \in 0..(PipeSize - 1) : current + n = n
      BY <1>1
    <3> QED
      BY <1>1, <1>2, <2>1, <3>1 DEF OnMetaData, Express
  <2>3. asked' = [n \in 1..PipeSize |-> n - 1]
    <3>1. asked' = asked \o [n \in 1..PipeSize |-> 0 + n - 1]
      BY <1>1, <1>2, <2>1 DEF OnMetaData, Asks
    <3>2. [n \in 1..PipeSize |-> 0 + n - 1] = [n \in 1..PipeSize |-> n - 1]
      BY <2>1
    <3>3. [n \in 1..PipeSize |-> n - 1] \in Seq(Nat)
      BY <2>1
    <3> QED
      BY <1>1, <3>1, <3>2, <3>3
  <2>4. current' = PipeSize /\ got' = <<>>
    BY <1>1, <1>2, <2>1 DEF OnMetaData, Pipe
  <2>5. Len(asked') = PipeSize /\ \A k \in 1..PipeSize : asked'[k] = k - 1
    BY <2>1, <2>3
  <2>6. \A j \in pending' : j.kind = "segment" /\ j.ver = d.ver /\ j.seg \in 0..(PipeSize - 1)
    BY <2>2 DEF SegmentOf
  <2>7. \A j \in pending' : j = SegmentOf(d.ver, j.seg)
    BY <2>2 DEF SegmentOf
  <2>8. InfoFirst'
    BY <2>6 DEF InfoFirst
  <2>9. BehindCurrent'
    <3>1. \A j \in pending' : j.seg <= current'
      BY <2>1, <2>4, <2>6
    <3>2. \A k \in 1..Len(asked') : asked'[k] <= current'
      BY <2>1, <2>4, <2>5
    <3> QED
      BY <2>4, <3>1, <3>2 DEF BehindCurrent
  <2>10. AwaitedOnce'
    BY <2>4, <2>7 DEF AwaitedOnce
  <2>11. AskedOnce'
    BY <2>1, <2>5 DEF AskedOnce
  <2> QED
    BY <2>8, <2>9, <2>10, <2>11 DEF PipeInv
<1>3. CASE d.kind # "info"
  <2>1. pending' = {} /\ got' = <<>> /\ asked' = <<>>
    BY <1>1, <1>3 DEF OnMetaData, Express, Asks
  <2> QED
    BY <2>1 DEF PipeInv, InfoFirst, BehindCurrent, AwaitedOnce, AskedOnce
<1> QED
  BY <1>2, <1>3

LEMMA PipeInvData ==
    ASSUME TypeOK, PipeInv, Pipe, NEW i \in pending, NEW d \in Answers(i),
           OnFileDataPipe(i, d), UNCHANGED program
    PROVE  PipeInv'
<1>1. i.kind = "segment" /\ i.seg \in Nat /\ d.seg = i.seg
  BY SegmentAnswer DEF OnFileDataPipe
<1>2. current \in Nat /\ asked \in Seq(Nat) /\ got \in Seq(Received)
  BY DEF TypeOK, Received
<1>3. InfoFirst /\ BehindCurrent /\ AwaitedOnce /\ AskedOnce
  BY DEF PipeInv
<1>4. current' = current + 1
  BY DEF OnFileDataPipe
<1>5. \A j \in pending : j.kind = "segment"
  BY <1>1, <1>3 DEF InfoFirst
<1>6. \A j \in pending : j.seg \in Nat
  <2>1. \A j \in pending : j \in Interest
    BY DEF TypeOK
  <2>2. \A j \in Interest : j.kind = "segment" => j.seg \in Nat
    BY DEF Interest, Attr, InfoOf, Below
  <2> QED
    BY <1>5, <2>1, <2>2
<1>7. PICK r : r.seg = i.seg /\ got' = Append(got, r)
  BY <1>1 DEF OnFileDataPipe, Receive
<1>8. /\ Len(got') = Len(got) + 1
      /\ \A k \in 1..Len(got) : got'[k] = got[k] /\ got[k].seg \in Nat
      /\ got'[Len(got) + 1] = r
      /\ Len(got) \in Nat
  <2>1. /\ Len(got') = Len(got) + 1
        /\ \A k \in 1..Len(got) : got'[k] = got[k]
        /\ got'[Len(got) + 1] = r
        /\ Len(got) \in Nat
    BY <1>2, <1>7
  <2>2. \A k \in 1..Len(got) : got[k] \in Received
    BY <1>2
  <2>3. \A k \in 1..Len(got) : got[k].seg \in Nat
    BY <2>2 DEF Received
  <2> QED
    BY <2>1, <2>3
<1>9. /\ i.seg <= current
      /\ \A k \in 1..Len(got) : got[k].seg <= current
      /\ \A k \in 1..Len(got) : got[k].seg # i.seg
  BY <1>1, <1>3 DEF BehindCurrent, AwaitedOnce
<1>10. \A k \in 1..Len(got') : got'[k].seg <= current
  BY <1>7, <1>8, <1>9
<1>11. \A j \in pending \ {i} : \A k \in 1..Len(got') : got'[k].seg # j.seg
  <2> SUFFICES ASSUME NEW j \in pending \ {i}, NEW k \in 1..Len(got')
               PROVE  got'[k].seg # j.seg
    OBVIOUS
  <2>1. j.seg # i.seg /\ \A l \in 1..Len(got) : got[l].seg # j.seg
    BY <1>1, <1>3, <1>5 DEF AwaitedOnce
  <2> QED
    BY <1>7, <1>8, <2>1
<1>12. CASE Express(i, {}) /\ Asks(<<>>)
  <2>1. pending' = pending \ {i} /\ asked' = asked
    BY <1>2, <1>12 DEF Express, Asks
  <2>2. InfoFirst'
    BY <1>5, <2>1 DEF InfoFirst
  <2>3. BehindCurrent'
    <3>1. \A j \in pending' : j.seg <= current'
      BY <1>2, <1>3, <1>4, <1>5, <1>6, <2>1 DEF BehindCurrent
    <3>2. \A k \in 1..Len(asked') : asked'[k] <= current'
      BY <1>2, <1>3, <1>4, <2>1 DEF BehindCurrent
    <3>3. \A k \in 1..Len(got') : got'[k].seg <= current'
      BY <1>1, <1>2, <1>4, <1>7, <1>8, <1>10
    <3> QED
      BY <3>1, <3>2, <3>3 DEF BehindCurrent
  <2>4. AwaitedOnce'
    BY <1>3, <1>11, <2>1 DEF AwaitedOnce
  <2>5. AskedOnce'
    BY <1>3, <2>1 DEF AskedOnce
  <2> QED
    BY <2>2, <2>3, <2>4, <2>5 DEF PipeInv
<1>13. CASE Express(i, {SegmentOf(i.ver, current')}) /\ Asks(<<current'>>)
  <2> DEFINE n == SegmentOf(i.ver, current')
  <2>1. n.kind = "segment" /\ n.seg = current + 1
    BY <1>4 DEF SegmentOf
  <2>2. pending' = (pending \ {i}) \cup {n} /\ asked' = asked \o <<current + 1>>
    BY <1>4, <1>13 DEF Express, Asks
  <2> HIDE DEF n
  <2>3. /\ Len(asked') = Len(asked) + 1
        /\ \A k \in 1..Len(asked) : asked'[k] = asked[k] /\ asked[k] \in Nat
        /\ asked'[Len(asked) + 1] = current + 1
        /\ Len(asked) \in Nat
    BY <1>2, <2>2
  <2>4. \A k \in 1..Len(asked) : asked[k] <= current
    BY <1>3 DEF BehindCurrent
  <2>5. InfoFirst'
    BY <1>5, <2>1, <2>2 DEF InfoFirst
  <2>6. BehindCurrent'
    <3>1. \A j \in pending' : j.seg <= current'
      BY <1>2, <1>3, <1>4, <1>5, <1>6, <2>1, <2>2 DEF BehindCurrent
    <3>2. ASSUME NEW k \in 1..Len(asked') PROVE asked'[k] <= current'
      <4>1. k \in 1..Len(asked) \/ k = Len(asked) + 1
        BY <2>3
      <4>2. CASE k \in 1..Len(asked)
        <5>1. asked'[k] = asked[k] /\ asked[k] \in Nat /\ asked[k] <= current
          BY <2>3, <2>4, <4>2
        <5> QED
          BY <1>2, <1>4, <5>1
      <4>3. CASE k = Len(asked) + 1
        BY <1>2, <1>4, <2>3, <4>3
      <4> QED
        BY <4>1, <4>2, <4>3
    <3>3. \A k \in 1..Len(got') : got'[k].seg <= current'
      BY <1>1, <1>2, <1>4, <1>7, <1>8, <1>10
    <3> QED
      BY <3>1, <3>2, <3>3 DEF BehindCurrent
  <2>7. AwaitedOnce'
    <3>1. \A j \in pending \ {i} : j.seg <= current /\ j.seg \in Nat
      BY <1>3, <1>5, <1>6 DEF BehindCurrent
    <3>2. \A j \in pending \ {i} : j.seg # n.seg
      BY <1>2, <2>1, <3>1
    <3>3. \A k \in 1..Len(got') : got'[k].seg # n.seg
      BY <1>1, <1>2, <1>7, <1>8, <1>10, <2>1
    <3>4. \A j, k \in pending' : j.seg = k.seg => j = k
      BY <1>3, <1>5, <2>2, <3>2 DEF AwaitedOnce
    <3> QED
      BY <1>11, <2>2, <3>3, <3>4 DEF AwaitedOnce
  <2>8. AskedOnce'
    <3> SUFFICES ASSUME NEW j \in 1..Len(asked'), NEW k \in 1..Len(asked'),
                        asked'[j] = asked'[k]
                 PROVE  j = k
      BY DEF AskedOnce
    <3>1. CASE j \in 1..Len(asked) /\ k \in 1..Len(asked)
      BY <1>3, <2>3, <3>1 DEF AskedOnce
    <3>2. \A l \in 1..Len(asked) : asked'[l] # current + 1
      BY <1>2, <2>3, <2>4
    <3>3. j \in 1..(Len(asked) + 1) /\ k \in 1..(Len(asked) + 1)
      BY <2>3
    <3> QED
      BY <2>3, <3>1, <3>2, <3>3
  <2> QED
    BY <2>5, <2>6, <2>7, <2>8 DEF PipeInv
<1> QED
  BY <1>12, <1>13 DEF OnFileDataPipe

LEMMA PipeInvPreserved ==
    ASSUME TypeOK, PipeInv, [Next]_vars
    PROVE  PipeInv'
<1> SUFFICES ASSUME Pipe' PROVE PipeInv'
  BY DEF PipeInv
<1>0. UNCHANGED program
  BY DEF Next, Deliver, Timeout, Exit, Publish, vars
<1>1. Pipe /\ InfoFirst /\ BehindCurrent /\ AwaitedOnce /\ AskedOnce
  BY <1>0 DEF Pipe, PipeInv
<1>2. ASSUME NEW i \in pending, NEW d \in Answers(i), Deliver(i, d) PROVE PipeInv'
  <2>1. OnMetaData(i, d) \/ OnFileDataPipe(i, d)
    BY <1>1, <1>2 DEF Deliver, OnAttrData, OnFileData, Sequential, Pipe
  <2> QED
    BY <1>0, <1>1, <2>1, PipeInvMeta, PipeInvData
<1>3. ASSUME NEW i \in pending, Timeout(i) PROVE PipeInv'
  <2>1. pending' \subseteq pending /\ UNCHANGED <<current, got, asked>>
    BY <1>3 DEF Timeout, OnTimeout, Express
  <2>2. InfoFirst'
    BY <1>1, <2>1 DEF InfoFirst
  <2>3. BehindCurrent' /\ AwaitedOnce' /\ AskedOnce'
    BY <1>1, <2>1 DEF BehindCurrent, AwaitedOnce, AskedOnce
  <2> QED
    BY <2>2, <2>3 DEF PipeInv
<1>4. ASSUME UNCHANGED <<pending, current, got, asked>> PROVE PipeInv'
  BY <1>1, <1>4 DEF PipeInv, InfoFirst, BehindCurrent, AwaitedOnce, AskedOnce
<1> QED
  BY <1>2, <1>3, <1>4 DEF Next, Exit, Publish, vars
\* As many interests as the window is wide, at most.
WindowInv == Pipe => IsFiniteSet(pending) /\ Cardinality(pending) <= PipeSize

\* The interests a window begins with.
LEMMA FirstWindow ==
    ASSUME NEW v, NEW N \in Nat
    PROVE  LET W == {SegmentOf(v, n) : n \in 0..(N - 1)} IN
           IsFiniteSet(W) /\ Cardinality(W) <= N
<1> DEFINE W == {SegmentOf(v, n) : n \in 0..(N - 1)}
           f == [n \in 0..(N - 1) |-> SegmentOf(v, n)]
<1>1. IsFiniteSet(0..(N - 1)) /\ Cardinality(0..(N - 1)) = N
  <2>1. IsFiniteSet(0..(N - 1)) /\ Cardinality(0..(N - 1)) = IF 0 > N - 1 THEN 0 ELSE N - 1 - 0 + 1
    BY FS_Interval
  <2> QED
    BY <2>1
<1>2. f \in Surjection(0..(N - 1), W)
  BY DEF Surjection
<1>3. IsFiniteSet(W) /\ Cardinality(W) <= Cardinality(0..(N - 1))
  <2> HIDE DEF f, W
  <2> QED
    BY <1>1, <1>2, FS_Surjection
<1> QED
  BY <1>1, <1>3

\* An interest is replaced by at most one.
LEMMA WindowNotWider ==
    ASSUME NEW P, NEW Q, NEW i \in P, NEW j, IsFiniteSet(P),
           Q = P \ {i} \/ Q = (P \ {i}) \cup {j}
    PROVE  IsFiniteSet(Q) /\ Cardinality(Q) <= Cardinality(P)
<1>1. IsFiniteSet(P \ {i}) /\ Cardinality(P \ {i}) = Cardinality(P) - 1
  BY FS_RemoveElement
<1>2. Cardinality(P) \in Nat
  BY FS_CardinalityType
<1>3. CASE Q = P \ {i}
  BY <1>1, <1>2, <1>3
<1>4. CASE Q = (P \ {i}) \cup {j}
  <2>1. IsFiniteSet(Q) /\ Cardinality(Q) = IF j \in P \ {i} THEN Cardinality(P \ {i})
                                                         ELSE Cardinality(P \ {i}) + 1
    BY <1>1, <1>4, FS_AddElement
  <2> QED
    BY <1>1, <1>2, <2>1
<1> QED
  BY <1>3, <1>4

LEMMA WindowInvInitial == Init => WindowInv
<1> SUFFICES ASSUME Init PROVE WindowInv
  OBVIOUS
<1>1. PICK i : pending = {i}
  BY DEF Init
<1>2. IsFiniteSet(pending) /\ Cardinality(pending) = 1
  BY <1>1, FS_Singleton
<1> QED
  BY <1>2, FetchAssumption DEF WindowInv

LEMMA WindowInvPreserved ==
    ASSUME TypeOK, PipeInv, WindowInv, [Next]_vars
    PROVE  WindowInv'
<1> SUFFICES ASSUME Pipe'
             PROVE  IsFiniteSet(pending') /\ Cardinality(pending') <= PipeSize
  BY DEF WindowInv
<1>0. UNCHANGED program
  BY DEF Next, Deliver, Timeout, Exit, Publish, vars
<1>1. Pipe /\ InfoFirst /\ IsFiniteSet(pending) /\ Cardinality(pending) <= PipeSize
  BY <1>0 DEF Pipe, PipeInv, WindowInv
<1>2. ASSUME NEW i \in pending, NEW j,
             pending' = pending \ {i} \/ pending' = (pending \ {i}) \cup {j}
      PROVE  IsFiniteSet(pending') /\ Cardinality(pending') <= PipeSize
  <2>1. IsFiniteSet(pending') /\ Cardinality(pending') <= Cardinality(pending)
    BY <1>1, <1>2, WindowNotWider
  <2>2. Cardinality(pending) \in Nat /\ Cardinality(pending') \in Nat
    BY <1>1, <2>1, FS_CardinalityType
  <2> QED
    BY <1>1, <2>1, <2>2, FetchAssumption
<1>3. ASSUME NEW i \in pending, NEW d \in Answers(i), Deliver(i, d)
      PROVE  IsFiniteSet(pending') /\ Cardinality(pending') <= PipeSize
  <2>1. OnMetaData(i, d) \/ OnFileDataPipe(i, d)
    BY <1>1, <1>3 DEF Deliver, OnAttrData, OnFileData, Sequential, Pipe
  <2>2. CASE OnMetaData(i, d) /\ d.kind = "info"
    <3>1. pending = {i} /\ current = 0 /\ Ahead = PipeSize /\ PipeSize \in Nat
      BY <1>1, <2>2, FetchAssumption DEF InfoFirst, OnMetaData, Ahead, Pipe
    <3>2. \A n \in 0..(PipeSize - 1) : current + n = n
      BY <3>1
    <3>3. pending' = {SegmentOf(d.ver, n) : n \in 0..(PipeSize - 1)}
      BY <2>2, <3>1, <3>2 DEF OnMetaData, Express
    <3> QED
      BY <3>1, <3>3, FirstWindow
  <2>3. CASE OnMetaData(i, d) /\ d.kind # "info"
    BY <1>2, <2>3 DEF OnMetaData, Express
  <2>4. CASE OnFileDataPipe(i, d)
    <3>1. Express(i, {}) \/ Express(i, {SegmentOf(i.ver, current')})
      BY <2>4 DEF OnFileDataPipe
    <3> QED
      BY <1>2, <3>1 DEF Express
  <2> QED
    BY <2>1, <2>2, <2>3, <2>4
<1>4. ASSUME NEW i \in pending, Timeout(i)
      PROVE  IsFiniteSet(pending') /\ Cardinality(pending') <= PipeSize
  BY <1>2, <1>4 DEF Timeout, OnTimeout, Express
<1>5. ASSUME UNCHANGED pending
      PROVE  IsFiniteSet(pending') /\ Cardinality(pending') <= PipeSize
  BY <1>1, <1>5
<1> QED
  BY <1>3, <1>4, <1>5 DEF Next, Exit, Publish, vars

\* However segments arrive and interests time out, cat_file_pipe never waits for more
\* than the window holds and asks for no segment twice.
THEOREM WindowIsKept == Spec => []WindowKept
<1>1. PipeInv /\ WindowInv => WindowKept
  BY DEF PipeInv, WindowInv, WindowKept, AskedOnce, Pipe
<1> QED
  BY <1>1, TypeInitial, TypePreserved, PipeInvInitial, PipeInvPreserved,
     WindowInvInitial, WindowInvPreserved, PTL DEF Spec

-----------------------------------------------------------------------------
(* The transfer implemented *)

\* The file of the transfer has, for each edition, so many segments.
LEMMA Editioned ==
    ASSUME TypeOK
    PROVE  LET blocks == [e \in Editions |-> Blocks(editions[e])] IN
           /\ Len(blocks) = Len(editions) /\ Len(editions) \in Nat
           /\ \A e \in Editions : blocks[e] = Blocks(editions[e]) /\ blocks[e] \in Nat
<1>1. Len(editions) \in Nat
  BY DEF TypeOK
<1>2. \A e \in Editions : editions[e] \in Size
  BY DEF TypeOK, Editions
<1>3. \A e \in Editions : Blocks(editions[e]) \in Nat
  BY <1>2, FetchAssumption DEF Blocks, Size
<1> QED
  BY <1>1, <1>3 DEF Editions

LEMMA TransferInitial == Init => T!Init
<1> SUFFICES ASSUME Init PROVE T!Init
  OBVIOUS
<1>1. Len(editions) = 1 /\ 1 \in Editions
  BY DEF Init, Editions
<1>2. pending # {} /\ exited = FALSE /\ got = <<>>
  BY DEF Init
<1>3. (program \in Sequential) \in BOOLEAN
  OBVIOUS
<1> QED
  BY <1>1, <1>2, <1>3, TypeInitial, Editioned DEF T!Init

\* A segment arrives that is the next, or for cat_file_pipe a new one.
LEMMA SegmentReceived ==
    ASSUME TypeOK, FetchInv, PipeInv, NEW i \in pending, NEW d \in Answers(i),
           OnFileData(i, d) \/ OnFileDataPipe(i, d), Running,
           UNCHANGED <<server, program, exited>>
    PROVE  T!Next
<1>1. i.kind = "segment" /\ d.seg = i.seg /\ i.seg \in Nat /\ d.edition \in Editions
  BY SegmentAnswer DEF OnFileData, OnFileDataPipe
<1>2. d \in SegmentData(i.ver, i.seg)
  BY <1>1 DEF Answers
<1>3. d.seg < Blocks(editions[d.edition])
  BY <1>2 DEF SegmentData
<1>4. T!Acceptable(d.seg)
  <2>1. CASE program \in Sequential
    BY <1>1, <2>1 DEF FetchInv, WaitsForNext, T!Acceptable
  <2>2. CASE program \notin Sequential
    <3>1. Pipe
      BY <2>2 DEF OnFileData, OnFileDataPipe, Pipe
    <3> QED
      BY <1>1, <2>2, <3>1 DEF PipeInv, AwaitedOnce, T!Acceptable
  <2> QED
    BY <2>1, <2>2
<1>5. got' = Append(got, [seg |-> d.seg, edition |-> d.edition])
  BY DEF OnFileData, OnFileDataPipe, Receive
<1>6. UNCHANGED <<[e \in Editions |-> Blocks(editions[e])], program \in Sequential>>
  BY DEF server, Editions, Blocks
<1>7. ~(exited \/ pending = {})
  BY DEF Running
<1>8. (exited \/ pending = {})' \in BOOLEAN
  OBVIOUS
<1>9. T!Save(d.seg, d.edition)
  BY <1>4, <1>5, <1>6, <1>7, <1>8 DEF T!Save
<1>10. /\ d.edition \in 1..Len([e \in Editions |-> Blocks(editions[e])])
       /\ d.seg \in 0..([e \in Editions |-> Blocks(editions[e])][d.edition] - 1)
  BY <1>1, <1>3, Editioned DEF Editions
<1> QED
  BY <1>9, <1>10 DEF T!Next

\* Nothing arrives and the file stays: a stutter, or the end.
LEMMA NothingReceived ==
    ASSUME TypeOK, Running, pending # {}, UNCHANGED <<server, program, got>>
    PROVE  [T!Next]_(T!vars)
<1>1. UNCHANGED <<[e \in Editions |-> Blocks(editions[e])], program \in Sequential>>
  BY DEF server, Editions, Blocks
<1>2. ~(exited \/ pending = {})
  BY DEF Running
<1>3. CASE (exited \/ pending = {})'
  <2>1. T!End
    BY <1>1, <1>2, <1>3 DEF T!End
  <2> QED
    BY <2>1 DEF T!Next
<1>4. CASE ~(exited \/ pending = {})'
  BY <1>1, <1>2, <1>4 DEF T!vars
<1> QED
  BY <1>3, <1>4

LEMMA TransferStep ==
    ASSUME TypeOK, FetchInv, PipeInv, [Next]_vars
    PROVE  [T!Next]_(T!vars)
<1>1. ASSUME NEW i \in pending, NEW d \in Answers(i), Deliver(i, d)
      PROVE  [T!Next]_(T!vars)
  <2>1. Running /\ pending # {} /\ UNCHANGED <<server, program, exited>>
    BY <1>1 DEF Deliver
  <2>2. CASE OnFileData(i, d) \/ OnFileDataPipe(i, d)
    BY <2>1, <2>2, SegmentReceived
  <2>3. CASE OnAttrData(i, d) \/ OnMetaData(i, d)
    <3>1. UNCHANGED got
      BY <2>3 DEF OnAttrData, OnMetaData
    <3> QED
      BY <2>1, <3>1, NothingReceived
  <2> QED
    BY <1>1, <2>2, <2>3 DEF Deliver
<1>2. ASSUME NEW i \in pending, Timeout(i) PROVE [T!Next]_(T!vars)
  BY <1>2, NothingReceived DEF Timeout
<1>3. CASE Exit
  <2>1. Running /\ UNCHANGED <<server, program, pending, got>>
    BY <1>3 DEF Exit
  <2>2. CASE pending # {}
    BY <2>1, <2>2, NothingReceived
  <2>3. CASE pending = {}
    <3>1. UNCHANGED <<[e \in Editions |-> Blocks(editions[e])], program \in Sequential, got>>
      BY <2>1 DEF server, Editions, Blocks
    <3>2. (exited \/ pending = {})' = (exited \/ pending = {})
      BY <2>1, <2>3
    <3> QED
      BY <3>1, <3>2 DEF T!vars
  <2> QED
    BY <2>2, <2>3
<1>4. ASSUME NEW s \in Size, Publish(s) PROVE [T!Next]_(T!vars)
  <2>1. TypeOK'
    BY <1>4, TypePreserved DEF Next
  <2>2. /\ Len(editions') = Len(editions) + 1 /\ Len(editions) \in Nat
        /\ \A e \in Editions : editions'[e] = editions[e]
    BY <1>4 DEF Publish, TypeOK, Editions
  <2>3. Len(editions') \in Editions' /\ \A e \in Editions : e \in Editions'
    BY <2>2 DEF Editions
  <2>4. /\ Len([e \in Editions |-> Blocks(editions[e])]) = Len(editions)
        /\ \A e \in Editions :
              [f \in Editions |-> Blocks(editions[f])][e] = Blocks(editions[e])
    BY Editioned
  <2>5. /\ Len([e \in Editions' |-> Blocks(editions'[e])]) = Len(editions')
        /\ \A e \in Editions' :
              /\ [f \in Editions' |-> Blocks(editions'[f])][e] = Blocks(editions'[e])
              /\ [f \in Editions' |-> Blocks(editions'[f])][e] \in Nat
    <3>1. Len(editions') \in Nat
      BY <2>2
    <3>2. \A e \in Editions' : Blocks(editions'[e]) \in Nat
      <4>1. \A e \in Editions' : editions'[e] \in Size
        BY <2>1 DEF TypeOK, Editions
      <4> QED
        BY <4>1, FetchAssumption DEF Blocks, Size
    <3> QED
      BY <3>1, <3>2 DEF Editions
  <2>6. UNCHANGED <<program \in Sequential, got>>
    BY <1>4 DEF Publish
  <2>7. (exited \/ pending = {})' = (exited \/ pending = {})
    BY <1>4 DEF Publish
  <2>8. T!Publish
    BY <2>2, <2>3, <2>4, <2>5, <2>6, <2>7 DEF T!Publish, Editions
  <2> QED
    BY <2>8 DEF T!Next
<1>5. CASE UNCHANGED vars
  <2>1. UNCHANGED <<[e \in Editions |-> Blocks(editions[e])], program \in Sequential, got>>
    BY <1>5 DEF vars, server, Editions, Blocks
  <2>2. (exited \/ pending = {})' = (exited \/ pending = {})
    BY <1>5 DEF vars
  <2> QED
    BY <2>1, <2>2 DEF T!vars
<1> QED
  BY <1>1, <1>2, <1>3, <1>4, <1>5 DEF Next

\* The programs implement the transfer: the initial states map to its initial states and
\* every callback, exit and change of the file to a step of it or to none.
THEOREM FetchImplementsTransfer == Spec => ImplementsTransfer
<1>1. Init => T!Init
  BY TransferInitial
<1>2. TypeOK /\ FetchInv /\ PipeInv /\ [Next]_vars => [T!Next]_(T!vars)
  BY TransferStep
<1> QED
  BY <1>1, <1>2, TypeInitial, TypePreserved, FetchInvInitial, FetchInvPreserved,
     PipeInvInitial, PipeInvPreserved, PTL DEF Spec, ImplementsTransfer, T!Spec

-----------------------------------------------------------------------------
(* The whole file *)

\* While the file has one edition: what a fetch waits for once it knows the number of
\* segments, and how much it has received when it waits for nothing.
WholeInv ==
    program \in Sequential /\ Len(editions) = 1 =>
        /\ total = 0 => \A i \in pending : i.kind # "segment"
        /\ total # 0 =>
              /\ total = editions[1].full + 1
              /\ Len(got) <= Blocks(editions[1])
              /\ \A i \in pending : i.kind = "segment" /\ i.ver = 1 /\ i.seg < total
              /\ pending # {} \/ lost = TRUE \/ Len(got) = Blocks(editions[1])

LEMMA WholeInitial == Init => WholeInv
BY DEF Init, WholeInv, Attr, InfoOf

LEMMA WholeImplies == ASSUME WholeInv PROVE WholeFileReceived
BY DEF WholeInv, WholeFileReceived

\* The answers there are from one edition.
LEMMA SingleEdition ==
    ASSUME TypeOK, Len(editions) = 1
    PROVE  /\ Editions = {1}
           /\ editions[1].full \in Nat
           /\ Blocks(editions[1]) \in {editions[1].full, editions[1].full + 1}
           /\ \A n \in Nat : SegmentData(1, n) # {} <=>
                                 n <= editions[1].full /\ n < Blocks(editions[1])
<1>1. Editions = {1}
  BY DEF Editions
<1>2. editions[1] \in Size
  <2>1. editions \in Seq(Size) /\ 1 \in 1..Len(editions)
    BY DEF TypeOK
  <2> QED
    BY <2>1
<1>3. editions[1].full \in Nat /\ editions[1].tail \in {0, 1}
  BY <1>2, FetchAssumption DEF Size
<1>4. Blocks(editions[1]) \in {editions[1].full, editions[1].full + 1}
  BY <1>3 DEF Blocks
<1>5. ASSUME NEW n \in Nat
      PROVE  SegmentData(1, n) # {} <=> n <= editions[1].full /\ n < Blocks(editions[1])
  <2>1. SegmentData(1, n) =
            {[kind |-> "segment", seg |-> n, edition |-> e] :
                e \in {f \in {1} : n <= editions[1].full /\ n < Blocks(editions[1])}}
    BY <1>1 DEF SegmentData
  <2>2. CASE n <= editions[1].full /\ n < Blocks(editions[1])
    <3>1. [kind |-> "segment", seg |-> n, edition |-> 1] \in SegmentData(1, n)
      BY <2>1, <2>2
    <3> QED
      BY <2>2, <3>1
  <2>3. CASE ~(n <= editions[1].full /\ n < Blocks(editions[1]))
    BY <2>1, <2>3
  <2> QED
    BY <2>2, <2>3
<1> QED
  BY <1>1, <1>3, <1>4, <1>5

LEMMA SingleInfo ==
    ASSUME TypeOK, Len(editions) = 1, NEW i \in pending, NEW d \in Answers(i),
           d.kind = "info"
    PROVE  d.ver = 1 /\ d.total = editions[1].full + 1
<1>1. i.kind \in {"segment", "attr", "info", "below"}
  BY DEF TypeOK, Interest, Attr, InfoOf, Below
<1>2. d \in InfoData
  BY <1>1 DEF Answers, SegmentData, Odd, Stray, Dir, Deeper
<1> QED
  BY <1>2, SingleEdition DEF InfoData, TotalSeg

\* The information: the first segment is asked for, or nothing was learnt.
LEMMA WholeInfo ==
    ASSUME TypeOK, FetchInv, WholeInv, program \in Sequential, Len(editions) = 1,
           NEW i \in pending, NEW d \in Answers(i), i.kind # "segment",
           OnAttrData(i, d) \/ OnMetaData(i, d), UNCHANGED <<server, program, lost>>
    PROVE  WholeInv'
<1>1. /\ total = 0 /\ current = 0 /\ got = <<>> /\ got' = got
      /\ \A j \in pending : j = i
  BY DEF WholeInv, FetchInv, OneAtATime, WaitsForNext, OnAttrData, OnMetaData
<1>2. CASE \/ total' = 0 /\ pending' = {}
           \/ total' = 0 /\ pending' \in {{InfoOf}, {Below}}
  BY <1>2 DEF WholeInv, InfoOf, Below
<1>3. CASE d.kind = "info" /\ total' = d.total /\ pending' = {SegmentOf(d.ver, 0)}
  <2>1. d.ver = 1 /\ d.total = editions[1].full + 1
    BY <1>3, SingleInfo
  <2>2. /\ total' = editions[1].full + 1 /\ pending' = {SegmentOf(1, 0)}
        /\ editions[1].full \in Nat /\ Blocks(editions[1]) \in Nat
    BY <1>3, <2>1, SingleEdition
  <2>3. Len(got') = 0 /\ editions' = editions
    BY <1>1 DEF server
  <2> QED
    BY <2>2, <2>3 DEF WholeInv, SegmentOf, Blocks
<1>4. CASE OnAttrData(i, d)
  <2>1. program = "fetch"
    BY <1>4 DEF OnAttrData, Sequential
  <2>2. CASE AttrUseless(i, d)
    BY <1>1, <1>2, <2>2 DEF AttrUseless, Express
  <2>3. CASE AttrFile(i, d)
    BY <1>1, <1>3, <2>1, <2>3 DEF AttrFile, Express
  <2>4. CASE AttrAgain(i, d)
    BY <1>1, <1>2, <2>4 DEF AttrAgain, Express
  <2> QED
    BY <1>4, <2>2, <2>3, <2>4 DEF OnAttrData
<1>5. CASE OnMetaData(i, d)
  <2>1. Ahead = 1
    BY DEF Ahead, Sequential
  <2>2. {SegmentOf(d.ver, current + n) : n \in 0..(Ahead - 1)} = {SegmentOf(d.ver, 0)}
    BY <1>1, <2>1
  <2> QED
    BY <1>1, <1>2, <1>3, <1>5, <2>2 DEF OnMetaData, Express
<1> QED
  BY <1>4, <1>5

LEMMA WholeData ==
    ASSUME TypeOK, FetchInv, WholeInv, program \in Sequential, Len(editions) = 1,
           NEW i \in pending, NEW d \in Answers(i), OnFileData(i, d),
           UNCHANGED <<server, program, lost>>
    PROVE  WholeInv'
<1>1. i.kind = "segment" /\ total # 0
  BY DEF OnFileData, WholeInv
<1>2. PICK n \in Nat : n = Len(got)
  BY DEF TypeOK
<1>3. /\ total = editions[1].full + 1 /\ i.ver = 1 /\ i.seg = n /\ n < total
      /\ \A j \in pending : j = i
  BY <1>1, <1>2 DEF WholeInv, FetchInv, OneAtATime, WaitsForNext
<1>4. d.seg = n /\ d \in SegmentData(1, n)
  <2>1. d \in SegmentData(i.ver, i.seg)
    BY <1>1 DEF Answers
  <2> QED
    BY <1>1, <1>3, <2>1, SegmentAnswer
<1>5. /\ n < Blocks(editions[1]) /\ editions[1].full \in Nat
      /\ Blocks(editions[1]) \in {editions[1].full, editions[1].full + 1}
  BY <1>4, SingleEdition
<1>6. Len(got') = n + 1 /\ editions' = editions /\ total' = total /\ current' = n + 1
  BY <1>2, <1>4 DEF OnFileData, Receive, NextSegment, TypeOK, server
<1>7. CASE n + 1 = total
  <2>1. n + 1 = Blocks(editions[1])
    BY <1>3, <1>5, <1>7
  <2>2. pending' = {}
    BY <1>3, <1>6, <1>7 DEF OnFileData, Complete, Express
  <2> QED
    BY <1>1, <1>3, <1>6, <2>1, <2>2 DEF WholeInv, Blocks
<1>8. CASE n + 1 # total
  <2>1. pending' = {SegmentOf(1, n + 1)}
    BY <1>3, <1>6, <1>8 DEF OnFileData, Complete, Express
  <2>2. n + 1 < total /\ n + 1 <= Blocks(editions[1])
    BY <1>3, <1>5, <1>8
  <2> QED
    BY <1>1, <1>3, <1>6, <2>1, <2>2 DEF WholeInv, SegmentOf, Blocks
<1> QED
  BY <1>7, <1>8

LEMMA WholeTimeout ==
    ASSUME TypeOK, FetchInv, WholeInv, program \in Sequential, Len(editions) = 1,
           NEW i \in pending, Timeout(i)
    PROVE  WholeInv'
<1>1. /\ pending' = {}
      /\ UNCHANGED <<editions, program, total, got>>
  BY DEF Timeout, OnTimeout, Express, FetchInv, OneAtATime, server
<1>2. CASE total = 0
  BY <1>1, <1>2 DEF WholeInv
<1>3. CASE total # 0
  <2>1. PICK n \in Nat : n = Len(got)
    BY DEF TypeOK
  <2>2. /\ i.kind = "segment" /\ i.ver = 1 /\ i.seg = n /\ n < total
        /\ total = editions[1].full + 1 /\ n <= Blocks(editions[1])
    BY <1>3, <2>1 DEF WholeInv, FetchInv, WaitsForNext
  <2>3. Answers(i) = SegmentData(1, n)
    BY <2>2 DEF Answers
  <2>4. lost' = TRUE \/ SegmentData(1, n) = {}
    BY <2>3 DEF Timeout, OnTimeout, TypeOK
  <2>5. SegmentData(1, n) = {} => n = Blocks(editions[1])
    BY <2>2, SingleEdition
  <2> QED
    BY <1>1, <1>3, <2>1, <2>2, <2>4, <2>5 DEF WholeInv, Blocks
<1> QED
  BY <1>2, <1>3

LEMMA WholePreserved ==
    ASSUME TypeOK, FetchInv, WholeInv, [Next]_vars
    PROVE  WholeInv'
<1> SUFFICES ASSUME program' \in Sequential, Len(editions') = 1
             PROVE  WholeInv'
  BY DEF WholeInv
<1>1. ASSUME NEW i \in pending, NEW d \in Answers(i), Deliver(i, d) PROVE WholeInv'
  <2>1. program \in Sequential /\ Len(editions) = 1 /\ UNCHANGED <<server, program, lost>>
    BY <1>1 DEF Deliver, server
  <2>2. OnAttrData(i, d) \/ OnMetaData(i, d) => i.kind # "segment"
    BY DEF OnAttrData, OnMetaData
  <2>3. ~OnFileDataPipe(i, d)
    BY <2>1 DEF OnFileDataPipe, Sequential
  <2> QED
    BY <1>1, <2>1, <2>2, <2>3, WholeInfo, WholeData DEF Deliver
<1>2. ASSUME NEW i \in pending, Timeout(i) PROVE WholeInv'
  <2>1. program \in Sequential /\ Len(editions) = 1
    BY <1>2 DEF Timeout, server
  <2> QED
    BY <1>2, <2>1, WholeTimeout
<1>3. CASE Exit \/ UNCHANGED vars
  BY <1>3 DEF Exit, vars, server, WholeInv, Blocks
<1>4. ASSUME NEW s \in Size, Publish(s) PROVE WholeInv'
  <2>1. editions \in Seq(Size) /\ Len(editions) \in Nat /\ Len(editions) >= 1
    BY FetchAssumption DEF TypeOK
  <2>2. Len(editions') = Len(editions) + 1
    BY <1>4, <2>1 DEF Publish
  <2> QED
    BY <2>1, <2>2
<1> QED
  BY <1>1, <1>2, <1>3, <1>4 DEF Next

\* A fetch of a file that stays as it is, and that loses no answer there was, has all of
\* the file's segments when it waits for nothing, for files of any size.
THEOREM WholeFileIsReceived == Spec => []WholeFileReceived
<1>1. TypeOK /\ WholeInv => WholeFileReceived
  BY WholeImplies
<1> QED
  BY <1>1, TypeInitial, TypePreserved, FetchInvInitial, FetchInvPreserved,
     WholeInitial, WholePreserved, PTL DEF Spec
=============================================================================
