---------------------------- MODULE NdnfsProofs ----------------------------
(* Theorems about Ndnfs for every value of its constants. *)
EXTENDS Ndnfs, SequenceTheorems, TLAPS

AnyCall == {IdleCall} \cup Call
ActivePC == DirPC \cup ReleasePC

(* A thread inside a handler has a complete call record. *)
LEMMA ActiveCall ==
    ASSUME TypeOK, NEW t \in Threads, call[t].pc # "idle"
    PROVE  /\ call[t] \in Call
           /\ call[t].path \in Path
           /\ call[t].to \in Path
           /\ call[t].ver \in Nat
           /\ call[t].seg \in Nat
           /\ call[t].buf \in Content
BY DEF TypeOK, IdleCall, Call

(* Resize, WriteByte and Segment yield contents. *)
LEMMA ResizeType ==
    ASSUME NEW d \in Content, NEW n \in Nat
    PROVE  Resize(d, n) \in Content /\ Len(Resize(d, n)) = n
<1>1. \A i \in 1..n : (IF i <= Len(d) THEN d[i] ELSE 0) \in Byte
  BY ByteAssumption DEF Content
<1>2. Resize(d, n) \in [1..n -> Byte]
  BY <1>1 DEF Resize
<1>3. Resize(d, n) \in Seq(Byte)
  BY <1>2
<1>4. Len(Resize(d, n)) = n
  BY <1>2
<1> QED
  BY <1>3, <1>4 DEF Content

LEMMA WriteByteType ==
    ASSUME NEW d \in Content, NEW off \in Nat, NEW b \in Byte
    PROVE  WriteByte(d, off, b) \in Content
<1> DEFINE n == IF off < Len(d) THEN Len(d) ELSE off + 1
<1>1. n \in Nat
  BY DEF Content
<1> HIDE DEF n
<1>2. Resize(d, n) \in Seq(Byte) /\ Len(Resize(d, n)) = n
  BY <1>1, ResizeType DEF Content
<1>3. off + 1 \in 1..Len(Resize(d, n))
  BY <1>1, <1>2 DEF n, Content
<1>5. [Resize(d, n) EXCEPT ![off + 1] = b] \in Seq(Byte)
  BY <1>2, <1>3, ExceptSeq
<1> QED
  BY <1>5 DEF WriteByte, Content, n

LEMMA SegmentType ==
    ASSUME NEW d \in Content, NEW n \in Nat
    PROVE  Segment(d, n) \in Content
<1> DEFINE lo == n * SegSize + 1
           hi == IF (n + 1) * SegSize <= Len(d) THEN (n + 1) * SegSize ELSE Len(d)
<1>1. lo \in Nat /\ lo >= 1 /\ hi \in Nat /\ hi <= Len(d)
  BY SegSizeAssumption DEF Content
<1>2. \A i \in lo..hi : d[i] \in Byte
  BY <1>1 DEF Content
<1> HIDE DEF lo, hi
<1>3. SubSeq(d, lo, hi) \in Seq(Byte)
  BY <1>1, <1>2 DEF Content
<1> QED
  BY <1>3 DEF Segment, Content, lo, hi

-----------------------------------------------------------------------------
(* What the control operators do to the types of call, blemish and dirty. *)

LEMMA BeginType ==
    ASSUME TypeOK, NEW t \in Threads, NEW pc \in ActivePC,
           NEW p \in Path, NEW q \in Path, Begin(t, pc, p, q)
    PROVE  call' \in [Threads -> AnyCall]
<1>1. <<>> \in Content
  BY DEF Content
<1>2. [pc |-> pc, path |-> p, to |-> q, ver |-> clock, seg |-> 0, buf |-> <<>>] \in Call
  BY <1>1 DEF Call, ActivePC, TypeOK
<1> QED
  BY <1>2 DEF Begin, TypeOK, AnyCall

LEMMA GotoType ==
    ASSUME TypeOK, NEW t \in Threads, call[t].pc # "idle",
           NEW pc \in ActivePC, Goto(t, pc)
    PROVE  call' \in [Threads -> AnyCall]
<1>1. [call[t] EXCEPT !.pc = pc] \in Call
  BY ActiveCall DEF Call, ActivePC
<1> QED
  BY <1>1 DEF Goto, TypeOK, AnyCall

LEMMA LoopType ==
    ASSUME TypeOK, NEW t \in Threads, call[t].pc # "idle", NEW pc \in ActivePC,
           NEW seg \in Nat, NEW buf \in Content, Loop(t, pc, seg, buf)
    PROVE  call' \in [Threads -> AnyCall]
<1>1. [pc |-> pc, path |-> call[t].path, to |-> call[t].to, ver |-> call[t].ver,
       seg |-> seg, buf |-> buf] \in Call
  BY ActiveCall DEF Call, ActivePC
<1> QED
  BY <1>1 DEF Loop, TypeOK, AnyCall

LEMMA ReturnType ==
    ASSUME TypeOK, NEW t \in Threads, Return(t)
    PROVE  call' \in [Threads -> AnyCall]
BY DEF Return, TypeOK, AnyCall

LEMMA MarkType ==
    ASSUME TypeOK, NEW ps, NEW faults \in SUBSET Blemish, Mark(ps, faults)
    PROVE  blemish' \in [Path -> SUBSET Blemish]
BY DEF Mark, TypeOK

LEMMA DirtyType ==
    ASSUME TypeOK, NEW ps, Dirty(ps)
    PROVE  dirty' \in [Path -> BOOLEAN]
BY DEF Dirty, TypeOK

LEMMA LostType == Lost \in SUBSET Blemish
BY DEF Lost, Blemish

(* A renamed table has rows of the type it had. *)
LEMMA UpdatePathType ==
    ASSUME NEW S, NEW table \in SUBSET S, NEW from, NEW to, NEW clash,
           \A r \in S : [r EXCEPT !.path = to] \in S
    PROVE  UpdatePath(table, from, to, clash) \in SUBSET S
BY DEF UpdatePath

-----------------------------------------------------------------------------
(* Type correctness. *)

LEMMA AbsentType == Absent \in DiskEntry
BY DEF Absent, DiskEntry, Content

LEMMA TypeInit == Init => TypeOK
<1> SUFFICES ASSUME Init PROVE TypeOK
  OBVIOUS
<1>1. disk \in [Path -> DiskEntry]
  BY AbsentType DEF Init
<1>2. call \in [Threads -> {IdleCall} \cup Call]
  BY DEF Init
<1>3. writers \in [Path -> Nat] /\ dirty \in [Path -> BOOLEAN]
  BY DEF Init
<1>4. blemish \in [Path -> SUBSET Blemish]
  BY DEF Init
<1> QED
  BY <1>1, <1>2, <1>3, <1>4 DEF Init, TypeOK

LEMMA TypeContinue ==
    ASSUME TypeOK, NEW t \in Threads, Continue(t)
    PROVE  TypeOK'
<1> USE DEF ActivePC, DirPC, MknodPC, UnlinkPC, RenamePC, ReleasePC
<1>0. CASE call[t].pc = "idle"
  BY <1>0 DEF Continue, MknodVersion, MknodRow, MknodCreate, MknodFails,
     ReleaseUpdate, ReleaseUpdateLost, ReleaseVersion, ReleaseOpen, ReleaseRead,
     ReleaseSign, ReleaseFails, UnlinkAgain, UnlinkFile, UnlinkFails,
     RenameVersions, RenameSegments, RenameFile, RenameFails, At
<1> SUFFICES ASSUME call[t].pc # "idle" PROVE TypeOK'
  BY <1>0
<1> DEFINE c == call[t]
<1>c. /\ c \in Call /\ c.path \in Path /\ c.to \in Path
      /\ c.ver \in Nat /\ c.seg \in Nat /\ c.buf \in Content
  BY ActiveCall
<1>r. [path |-> c.path, version |-> c.ver] \in VersionRow
  BY <1>c DEF VersionRow
<1> HIDE DEF c
<1>1. CASE MknodVersion(t)
  <2>1. fileVersions' \in SUBSET VersionRow
    BY <1>1, <1>r DEF MknodVersion, Commit, TypeOK, c
  <2>2. call' \in [Threads -> AnyCall]
    BY <1>1, GotoType DEF MknodVersion
  <2>3. blemish' \in [Path -> SUBSET Blemish]
    BY <1>1, MarkType, LostType DEF MknodVersion
  <2> QED
    BY <1>1, <2>1, <2>2, <2>3 DEF MknodVersion, TypeOK, AnyCall
<1>2. CASE MknodRow(t)
  <2>1. fileSystem' \in SUBSET SystemRow
    BY <1>2, <1>c DEF MknodRow, Commit, TypeOK, c, SystemRow, SignatureState
  <2>2. call' \in [Threads -> AnyCall]
    BY <1>2, GotoType DEF MknodRow
  <2>3. blemish' \in [Path -> SUBSET Blemish]
    BY <1>2, MarkType, LostType DEF MknodRow
  <2> QED
    BY <1>2, <2>1, <2>2, <2>3 DEF MknodRow, TypeOK, AnyCall
<1>3. CASE MknodCreate(t)
  <2>1. Regular(<<>>) \in DiskEntry
    BY DEF Regular, DiskEntry, Content
  <2>2. disk' \in [Path -> DiskEntry]
    BY <1>3, <2>1 DEF MknodCreate, TypeOK
  <2>3. call' \in [Threads -> AnyCall]
    BY <1>3, ReturnType DEF MknodCreate
  <2>4. dirty' \in [Path -> BOOLEAN]
    BY <1>3, DirtyType DEF MknodCreate
  <2> QED
    BY <1>3, <2>2, <2>3, <2>4 DEF MknodCreate, TypeOK, AnyCall, tables
<1>4. CASE MknodFails(t)
  <2>1. call' \in [Threads -> AnyCall]
    BY <1>4, ReturnType DEF MknodFails
  <2>2. blemish' \in [Path -> SUBSET Blemish]
    BY <1>4, MarkType DEF MknodFails, Blemish
  <2> QED
    BY <1>4, <2>1, <2>2 DEF MknodFails, TypeOK, AnyCall, tables
<1>5. CASE ReleaseUpdate(t)
  <2>1. fileSystem' \in SUBSET SystemRow
    BY <1>5, <1>c DEF ReleaseUpdate, TypeOK, c, SystemRow
  <2>2. call' \in [Threads -> AnyCall]
    BY <1>5, GotoType DEF ReleaseUpdate
  <2> QED
    BY <1>5, <2>1, <2>2 DEF ReleaseUpdate, TypeOK, AnyCall, history
<1>6. CASE ReleaseUpdateLost(t)
  <2>1. call' \in [Threads -> AnyCall]
    BY <1>6, ReturnType DEF ReleaseUpdateLost
  <2> QED
    BY <1>6, <2>1 DEF ReleaseUpdateLost, TypeOK, AnyCall, tables, history
<1>7. CASE ReleaseVersion(t)
  <2>1. fileVersions' \in SUBSET VersionRow
    BY <1>7, <1>r DEF ReleaseVersion, Commit, TypeOK, c
  <2>2. call' \in [Threads -> AnyCall]
    BY <1>7, GotoType DEF ReleaseVersion
  <2>3. blemish' \in [Path -> SUBSET Blemish]
    BY <1>7, MarkType, LostType DEF ReleaseVersion
  <2> QED
    BY <1>7, <2>1, <2>2, <2>3 DEF ReleaseVersion, TypeOK, AnyCall
<1>8. CASE ReleaseOpen(t)
  <2>1. call' \in [Threads -> AnyCall]
    BY <1>8, GotoType DEF ReleaseOpen
  <2> QED
    BY <1>8, <2>1 DEF ReleaseOpen, TypeOK, AnyCall, tables, history
<1>9. CASE ReleaseRead(t)
  <2>1. Segment(disk[c.path].data, c.seg) \in Content
    BY <1>c, SegmentType DEF TypeOK, DiskEntry
  <2>3. call' \in [Threads -> AnyCall]
    BY <1>9, <2>1, <1>c, LoopType DEF ReleaseRead, c
  <2> QED
    BY <1>9, <2>3 DEF ReleaseRead, TypeOK, AnyCall, tables, history
<1>10. CASE ReleaseSign(t)
  <2>1. SignedRow(c) \in SegmentRow
    BY <1>c DEF SignedRow, SegmentRow, Signature
  <2>2. fileSegments' \in SUBSET SegmentRow
    BY <1>10, <2>1 DEF ReleaseSign, Commit, InsertOrReplace, TypeOK, c
  <2>3. NextSegment(c) \in Nat /\ <<>> \in Content
    BY <1>c DEF NextSegment, Content
  <2>4. call' \in [Threads -> AnyCall]
    BY <1>10, <2>3, LoopType, ReturnType DEF ReleaseSign, c
  <2>5. dirty' \in [Path -> BOOLEAN]
    BY <1>10 DEF ReleaseSign, TypeOK
  <2>6. blemish' \in [Path -> SUBSET Blemish]
    BY <1>10, MarkType DEF ReleaseSign, Blemish
  <2> QED
    BY <1>10, <2>2, <2>4, <2>5, <2>6 DEF ReleaseSign, TypeOK, AnyCall
<1>11. CASE ReleaseFails(t)
  <2>1. call' \in [Threads -> AnyCall]
    BY <1>11, ReturnType DEF ReleaseFails
  <2>2. dirty' \in [Path -> BOOLEAN]
    BY <1>11, DirtyType DEF ReleaseFails
  <2> QED
    BY <1>11, <2>1, <2>2 DEF ReleaseFails, TypeOK, AnyCall, tables
<1>12. CASE UnlinkAgain(t)
  <2>1. fileSystem' \in SUBSET SystemRow
    BY <1>12 DEF UnlinkAgain, DeleteRow, Commit, TypeOK
  <2>2. call' \in [Threads -> AnyCall]
    BY <1>12, GotoType DEF UnlinkAgain
  <2>3. blemish' \in [Path -> SUBSET Blemish]
    BY <1>12, MarkType, LostType DEF UnlinkAgain
  <2> QED
    BY <1>12, <2>1, <2>2, <2>3 DEF UnlinkAgain, TypeOK, AnyCall
<1>13. CASE UnlinkFile(t)
  <2>1. disk' \in [Path -> DiskEntry]
    BY <1>13, AbsentType DEF UnlinkFile, TypeOK
  <2>2. call' \in [Threads -> AnyCall]
    BY <1>13, ReturnType DEF UnlinkFile
  <2> QED
    BY <1>13, <2>1, <2>2 DEF UnlinkFile, TypeOK, AnyCall, tables, history
<1>14. CASE UnlinkFails(t)
  <2>1. call' \in [Threads -> AnyCall]
    BY <1>14, ReturnType DEF UnlinkFails
  <2>2. blemish' \in [Path -> SUBSET Blemish]
    BY <1>14, MarkType DEF UnlinkFails, Blemish
  <2> QED
    BY <1>14, <2>1, <2>2 DEF UnlinkFails, TypeOK, AnyCall, tables
<1>15. CASE RenameVersions(t)
  <2>1. \A r \in VersionRow : [r EXCEPT !.path = c.to] \in VersionRow
    BY <1>c DEF VersionRow
  <2>2. fileVersions \in SUBSET VersionRow
    BY DEF TypeOK
  <2>. DEFINE moved(clash) == UpdatePath(fileVersions, c.path, c.to, clash)
  <2>5. \A clash : moved(clash) \in SUBSET VersionRow
    BY <2>1, <2>2 DEF UpdatePath
  <2>. HIDE DEF moved
  <2>6. fileVersions' \in SUBSET VersionRow
    BY <1>15, <2>2, <2>5 DEF RenameVersions, Commit, moved, c
  <2>3. call' \in [Threads -> AnyCall]
    BY <1>15, GotoType DEF RenameVersions
  <2>4. blemish' \in [Path -> SUBSET Blemish]
    BY <1>15, MarkType, LostType DEF RenameVersions
  <2> QED
    BY <1>15, <2>6, <2>3, <2>4 DEF RenameVersions, TypeOK, AnyCall
<1>16. CASE RenameSegments(t)
  <2>1. \A r \in SegmentRow : [r EXCEPT !.path = c.to] \in SegmentRow
    BY <1>c DEF SegmentRow
  <2>2. fileSegments \in SUBSET SegmentRow
    BY DEF TypeOK
  <2>. DEFINE moved(clash) == UpdatePath(fileSegments, c.path, c.to, clash)
  <2>5. \A clash : moved(clash) \in SUBSET SegmentRow
    BY <2>1, <2>2 DEF UpdatePath
  <2>. HIDE DEF moved
  <2>6. fileSegments' \in SUBSET SegmentRow
    BY <1>16, <2>2, <2>5 DEF RenameSegments, Commit, moved, c
  <2>3. call' \in [Threads -> AnyCall]
    BY <1>16, GotoType DEF RenameSegments
  <2>4. blemish' \in [Path -> SUBSET Blemish]
    BY <1>16, MarkType, LostType DEF RenameSegments
  <2> QED
    BY <1>16, <2>6, <2>3, <2>4 DEF RenameSegments, TypeOK, AnyCall
<1>17. CASE RenameFile(t)
  <2>1. disk' \in [Path -> DiskEntry]
    BY <1>17, <1>c, AbsentType DEF RenameFile, TypeOK, c
  <2>2. writers' \in [Path -> Nat]
    BY <1>17, <1>c DEF RenameFile, TypeOK, c
  <2>3. call' \in [Threads -> AnyCall]
    BY <1>17, ReturnType DEF RenameFile
  <2> QED
    BY <1>17, <2>1, <2>2, <2>3 DEF RenameFile, TypeOK, AnyCall, tables, history
<1>18. CASE RenameFails(t)
  <2>1. call' \in [Threads -> AnyCall]
    BY <1>18, ReturnType DEF RenameFails
  <2>2. blemish' \in [Path -> SUBSET Blemish]
    BY <1>18, MarkType DEF RenameFails, Blemish
  <2> QED
    BY <1>18, <2>1, <2>2 DEF RenameFails, TypeOK, AnyCall, tables
<1> QED
  BY <1>1, <1>2, <1>3, <1>4, <1>5, <1>6, <1>7, <1>8, <1>9, <1>10, <1>11, <1>12,
     <1>13, <1>14, <1>15, <1>16, <1>17, <1>18 DEF Continue

LEMMA TypeAccept ==
    ASSUME TypeOK, NEW t \in Threads, Accept(t)
    PROVE  TypeOK'
<1> USE DEF ActivePC, DirPC, MknodPC, UnlinkPC, RenamePC, ReleasePC
<1>1. ASSUME NEW p \in Path, MknodSelect(t, p) PROVE TypeOK'
  <2>1. call' \in [Threads -> AnyCall]
    BY <1>1, BeginType DEF MknodSelect
  <2> QED
    BY <1>1, <2>1 DEF MknodSelect, TypeOK, AnyCall, tables, history
<1>2. ASSUME NEW p \in Path, CreateSymlink(t, p) PROVE TypeOK'
  <2>1. SymLink \in DiskEntry
    BY DEF SymLink, DiskEntry, Content
  <2>2. disk' \in [Path -> DiskEntry]
    BY <1>2, <2>1 DEF CreateSymlink, TypeOK
  <2> QED
    BY <1>2, <2>2 DEF CreateSymlink, TypeOK, tables, history
<1>3. ASSUME NEW p \in Path, OpenForWrite(t, p) PROVE TypeOK'
  <2>1. writers' \in [Path -> Nat]
    BY <1>3 DEF OpenForWrite, TypeOK
  <2> QED
    BY <1>3, <2>1 DEF OpenForWrite, TypeOK, tables, history
<1>4. ASSUME NEW p \in Path, NEW off \in 0..(MaxLen - 1), NEW b \in Byte,
             Write(t, p, off, b)
      PROVE  TypeOK'
  <2>1. WriteByte(disk[p].data, off, b) \in Content
    BY WriteByteType, BoundAssumption DEF TypeOK, DiskEntry
  <2>2. Regular(WriteByte(disk[p].data, off, b)) \in DiskEntry
    BY <2>1 DEF Regular, DiskEntry
  <2>3. disk' \in [Path -> DiskEntry]
    BY <1>4, <2>2 DEF Write, TypeOK
  <2>4. dirty' \in [Path -> BOOLEAN]
    BY <1>4, DirtyType DEF Write
  <2> QED
    BY <1>4, <2>3, <2>4 DEF Write, TypeOK, tables
<1>5. ASSUME NEW p \in Path, NEW n \in 0..MaxLen, Truncate(t, p, n) PROVE TypeOK'
  <2>1. Resize(disk[p].data, n) \in Content
    BY ResizeType, BoundAssumption DEF TypeOK, DiskEntry
  <2>2. Regular(Resize(disk[p].data, n)) \in DiskEntry
    BY <2>1 DEF Regular, DiskEntry
  <2>3. disk' \in [Path -> DiskEntry]
    BY <1>5, <2>2 DEF Truncate, TypeOK
  <2>4. dirty' \in [Path -> BOOLEAN]
    BY <1>5, DirtyType DEF Truncate
  <2> QED
    BY <1>5, <2>3, <2>4 DEF Truncate, TypeOK, tables
<1>6. ASSUME NEW p \in Path, ReleaseSelect(t, p) PROVE TypeOK'
  <2>1. call' \in [Threads -> AnyCall]
    <3>1. CASE HasRow(p)
      BY <1>6, <3>1, BeginType DEF ReleaseSelect
    <3>2. CASE ~HasRow(p)
      BY <1>6, <3>2 DEF ReleaseSelect, TypeOK, AnyCall
    <3> QED
      BY <3>1, <3>2
  <2>2. writers' \in [Path -> Nat]
    BY <1>6 DEF ReleaseSelect, TypeOK
  <2> QED
    BY <1>6, <2>1, <2>2 DEF ReleaseSelect, TypeOK, AnyCall, tables, history
<1>7. ASSUME NEW p \in Path, UnlinkEntry(t, p) PROVE TypeOK'
  <2>1. fileSystem' \in SUBSET SystemRow
    BY <1>7 DEF UnlinkEntry, DeleteRow, Commit, TypeOK
  <2>2. call' \in [Threads -> AnyCall]
    BY <1>7, BeginType DEF UnlinkEntry
  <2>3. blemish' \in [Path -> SUBSET Blemish]
    BY <1>7, MarkType, LostType DEF UnlinkEntry
  <2> QED
    BY <1>7, <2>1, <2>2, <2>3 DEF UnlinkEntry, TypeOK, AnyCall
<1>8. ASSUME NEW from \in Path, NEW to \in Path, RenameSystem(t, from, to)
      PROVE  TypeOK'
  <2>1. \A r \in SystemRow : [r EXCEPT !.path = to] \in SystemRow
    BY DEF SystemRow
  <2>2. fileSystem \in SUBSET SystemRow
    BY DEF TypeOK
  <2>. DEFINE moved(clash) == UpdatePath(fileSystem, from, to, clash)
  <2>3. \A clash : moved(clash) \in SUBSET SystemRow
    BY <2>1, <2>2 DEF UpdatePath
  <2>. HIDE DEF moved
  <2>4. fileSystem' \in SUBSET SystemRow
    BY <1>8, <2>2, <2>3 DEF RenameSystem, Commit, moved
  <2>5. call' \in [Threads -> AnyCall]
    BY <1>8, BeginType DEF RenameSystem
  <2>6. blemish[from] \cup blemish[to] \cup Lost \cup
            (IF Known(to) THEN {"collide"} ELSE {}) \in SUBSET Blemish
    BY LostType DEF TypeOK, Blemish
  <2>7. blemish' \in [Path -> SUBSET Blemish]
    BY <1>8, <2>6, MarkType DEF RenameSystem
  <2>8. dirty' \in [Path -> BOOLEAN]
    BY <1>8, DirtyType DEF RenameSystem
  <2> QED
    BY <1>8, <2>4, <2>5, <2>7, <2>8 DEF RenameSystem, TypeOK, AnyCall
<1> QED
  BY <1>1, <1>2, <1>3, <1>4, <1>5, <1>6, <1>7, <1>8 DEF Accept

LEMMA TypeWorld ==
    ASSUME TypeOK, World
    PROVE  TypeOK'
<1>1. CASE Tick
  BY <1>1 DEF Tick, TypeOK, tables, history
<1>2. CASE ServerLocks \/ ServerUnlocks
  BY <1>2 DEF ServerLocks, ServerUnlocks, TypeOK, tables, history
<1>3. CASE Crash
  <2>1. blemish' \in [Path -> SUBSET Blemish]
    BY <1>3, MarkType DEF Crash, Blemish
  <2>2. dirty' \in [Path -> BOOLEAN]
    BY <1>3, DirtyType DEF Crash
  <2> QED
    BY <1>3, <2>1, <2>2 DEF Crash, TypeOK, tables
<1> QED
  BY <1>1, <1>2, <1>3 DEF World

LEMMA TypePreserved == TypeOK /\ [Next]_vars => TypeOK'
<1>1. ASSUME TypeOK, UNCHANGED vars PROVE TypeOK'
  BY <1>1 DEF vars, TypeOK
<1> QED
  BY <1>1, TypeContinue, TypeAccept, TypeWorld DEF Next

(***************************************************************************)
(* Every table, the tree, the handlers' locals and the counters keep their *)
(* types, whatever the handlers of all threads do.                         *)
(***************************************************************************)
THEOREM TypeCorrect == Spec => []TypeOK
  BY TypeInit, TypePreserved, PTL DEF Spec

-----------------------------------------------------------------------------
(***************************************************************************)
(* Versions.  VersionRecorded and SegmentVersionRecorded are not inductive:*)
(* they say nothing of what a handler has still to do.  VersionInv adds    *)
(* what the directory lock gives (one mknod, unlink or rename at a time),  *)
(* what the name locks give (no release of a name being renamed), and, for *)
(* each point inside mknod, release and rename, what it has established.   *)
(***************************************************************************)

\* The names whose tables a lost statement, a crash or a collision may have parted.
Parted(p) == Excused(p, {"busy", "crash", "collide"})

DirExclusive ==
    \A t, u \in Threads : call[t].pc \in DirPC /\ call[u].pc \in DirPC => t = u

RenameAlone ==
    \A t, u \in Threads :
        call[t].pc \in RenamePC /\ call[u].pc \in ReleasePC =>
            call[u].path # call[t].path /\ call[u].path # call[t].to

RenameDistinct ==
    \A t \in Threads : call[t].pc \in RenamePC => call[t].path # call[t].to

\* Past its INSERT INTO file_versions a handler's version is recorded.
CallRecorded ==
    \A t \in Threads :
        call[t].pc \in {"mknod_row", "release_open", "release_read", "release_sign"} =>
            HasVersion(call[t].path, call[t].ver) \/ Parted(call[t].path)

\* Between the UPDATE of file_system and that of file_versions.
RenameVersionsReady(t) ==
    /\ \A v \in fileVersions : v.path # call[t].to
    /\ \A s \in fileSegments : s.path # call[t].to
    /\ \A r \in fileSystem : r.path # call[t].path
    /\ \A r \in fileSystem :
          r.path = call[t].to => HasVersion(call[t].path, r.current_version)
    /\ \A s \in fileSegments :
          s.path = call[t].path => HasVersion(call[t].path, s.version)

\* Between the UPDATE of file_versions and that of file_segments.
RenameSegmentsReady(t) ==
    /\ \A s \in fileSegments : s.path # call[t].to
    /\ \A r \in fileSystem : r.path # call[t].path
    /\ \A s \in fileSegments :
          s.path = call[t].path => HasVersion(call[t].to, s.version)

RenameReady ==
    \A t \in Threads :
        /\ At(t, "rename_versions") =>
              \/ Parted(call[t].path) /\ Parted(call[t].to)
              \/ RenameVersionsReady(t)
        /\ At(t, "rename_segments") =>
              \/ Parted(call[t].path) /\ Parted(call[t].to)
              \/ RenameSegmentsReady(t)

VersionInv ==
    /\ TypeOK
    /\ DirExclusive /\ RenameAlone /\ RenameDistinct
    /\ CallRecorded /\ RenameReady
    /\ VersionRecorded /\ SegmentVersionRecorded

LEMMA VersionInit == Init => VersionInv
<1> SUFFICES ASSUME Init PROVE VersionInv
  OBVIOUS
<1>1. \A t \in Threads : call[t].pc = "idle"
  BY DEF Init, IdleCall
<1> QED
  BY <1>1, TypeInit DEF Init, VersionInv, DirExclusive, RenameAlone, RenameDistinct,
     CallRecorded, RenameReady, VersionRecorded, SegmentVersionRecorded,
     At, DirPC, MknodPC, UnlinkPC, RenamePC

-----------------------------------------------------------------------------
(* How a step moves the program counters. *)

\* Thread t goes on inside its handler, or returns.
Moves(t) ==
    /\ call[t].pc # "idle"
    /\ \A u \in Threads : u # t => call'[u] = call[u]
    /\ \/ call'[t] = IdleCall
       \/ /\ call'[t].path = call[t].path
          /\ call'[t].to   = call[t].to
          /\ call'[t].ver  = call[t].ver
          /\ \E class \in {MknodPC, UnlinkPC, RenamePC, ReleasePC} :
                call[t].pc \in class /\ call'[t].pc \in class

LEMMA ContinueMoves ==
    ASSUME TypeOK, NEW t \in Threads, Continue(t)
    PROVE  Moves(t)
<1>1. call[t].pc # "idle" /\ call[t].pc \in DirPC \cup ReleasePC
  BY DEF Continue, MknodVersion, MknodRow, MknodCreate, MknodFails,
     ReleaseUpdate, ReleaseUpdateLost, ReleaseVersion, ReleaseOpen, ReleaseRead,
     ReleaseSign, ReleaseFails, UnlinkAgain, UnlinkFile, UnlinkFails,
     RenameVersions, RenameSegments, RenameFile, RenameFails, At,
     DirPC, MknodPC, UnlinkPC, RenamePC, ReleasePC
<1>2. call[t] \in Call
  BY <1>1, ActiveCall
<1>3. ASSUME Return(t) PROVE Moves(t)
  BY <1>1, <1>3 DEF Return, Moves, TypeOK
<1>4. ASSUME NEW pc, Goto(t, pc),
             NEW class \in {MknodPC, UnlinkPC, RenamePC, ReleasePC},
             call[t].pc \in class, pc \in class
      PROVE  Moves(t)
  <2>1. /\ \A u \in Threads : u # t => call'[u] = call[u]
        /\ call'[t] = [call[t] EXCEPT !.pc = pc]
    BY <1>4 DEF Goto, TypeOK
  <2>2. /\ call'[t].pc = pc
        /\ call'[t].path = call[t].path
        /\ call'[t].to   = call[t].to
        /\ call'[t].ver  = call[t].ver
    BY <2>1, <1>2 DEF Call
  <2> QED
    BY <1>1, <1>4, <2>1, <2>2 DEF Moves
<1>5. ASSUME NEW pc \in ReleasePC, NEW seg, NEW buf, Loop(t, pc, seg, buf),
             call[t].pc \in ReleasePC
      PROVE  Moves(t)
  BY <1>1, <1>5 DEF Loop, Moves, TypeOK
<1> USE DEF At
<1>6. CASE MknodVersion(t) \/ MknodRow(t)
  BY <1>6, <1>4 DEF MknodVersion, MknodRow, MknodPC
<1>7. CASE ReleaseUpdate(t) \/ ReleaseVersion(t) \/ ReleaseOpen(t)
  BY <1>7, <1>4 DEF ReleaseUpdate, ReleaseVersion, ReleaseOpen, ReleasePC
<1>8. CASE ReleaseRead(t) \/ ReleaseSign(t)
  BY <1>8, <1>3, <1>5 DEF ReleaseRead, ReleaseSign, ReleasePC
<1>9. CASE UnlinkAgain(t)
  BY <1>9, <1>4 DEF UnlinkAgain, UnlinkPC
<1>10. CASE RenameVersions(t) \/ RenameSegments(t)
  BY <1>10, <1>4 DEF RenameVersions, RenameSegments, RenamePC
<1>11. CASE \/ MknodCreate(t) \/ MknodFails(t) \/ ReleaseUpdateLost(t)
            \/ ReleaseFails(t) \/ UnlinkFile(t) \/ UnlinkFails(t)
            \/ RenameFile(t) \/ RenameFails(t)
  BY <1>11, <1>3 DEF MknodCreate, MknodFails, ReleaseUpdateLost, ReleaseFails,
     UnlinkFile, UnlinkFails, RenameFile, RenameFails
<1> QED
  BY <1>6, <1>7, <1>8, <1>9, <1>10, <1>11 DEF Continue

\* Thread t enters a handler, with the locks that lets it in.
Enters(t) ==
    /\ call[t].pc = "idle"
    /\ \A u \in Threads : u # t => call'[u] = call[u]
    /\ call'[t].path \in Path /\ call'[t].to \in Path
    /\ \/ /\ call'[t].pc \in {"mknod_version", "unlink_again"}
          /\ ~DirLocked
       \/ /\ call'[t].pc = "release_update"
          /\ ~NameLocked(call'[t].path)
       \/ /\ call'[t].pc = "rename_versions"
          /\ ~DirLocked /\ call'[t].path # call'[t].to
          /\ ~InUse(call'[t].path) /\ ~InUse(call'[t].to)

LEMMA AcceptEnters ==
    ASSUME TypeOK, NEW t \in Threads, Accept(t)
    PROVE  call' = call \/ Enters(t)
<1>1. ASSUME NEW pc, NEW p \in Path, NEW q \in Path, Begin(t, pc, p, q)
      PROVE  /\ call[t].pc = "idle"
             /\ \A u \in Threads : u # t => call'[u] = call[u]
             /\ call'[t].pc = pc /\ call'[t].path = p /\ call'[t].to = q
  BY <1>1 DEF Begin, Idle, TypeOK
<1>2. ASSUME NEW p \in Path, MknodSelect(t, p) PROVE Enters(t)
  BY <1>1, <1>2 DEF MknodSelect, Enters
<1>3. ASSUME NEW p \in Path, ReleaseSelect(t, p) PROVE call' = call \/ Enters(t)
  BY <1>1, <1>3 DEF ReleaseSelect, Enters
<1>4. ASSUME NEW p \in Path, UnlinkEntry(t, p) PROVE Enters(t)
  BY <1>1, <1>4 DEF UnlinkEntry, Enters
<1>5. ASSUME NEW from \in Path, NEW to \in Path, RenameSystem(t, from, to)
      PROVE  Enters(t)
  <2>1. ~DirLocked /\ ~InUse(from) /\ ~InUse(to) /\ from # to
    BY <1>5 DEF RenameSystem
  <2>2. Begin(t, "rename_versions", from, to)
    BY <1>5 DEF RenameSystem
  <2> QED
    BY <1>1, <2>1, <2>2 DEF Enters
<1> QED
  BY <1>2, <1>3, <1>4, <1>5 DEF Accept, CreateSymlink, OpenForWrite, Write, Truncate

(* The locks hold after any move: they depend on the program counters alone. *)
Locks == DirExclusive /\ RenameAlone /\ RenameDistinct

LEMMA MovesLocks ==
    ASSUME TypeOK, Locks, NEW t \in Threads, Moves(t)
    PROVE  Locks'
<1>1. \A u \in Threads :
         \/ call'[u].pc = "idle"
         \/ /\ call'[u].path = call[u].path /\ call'[u].to = call[u].to
            /\ call'[u].pc \in DirPC    => call[u].pc \in DirPC
            /\ call'[u].pc \in RenamePC => call[u].pc \in RenamePC
            /\ call'[u].pc \in ReleasePC => call[u].pc \in ReleasePC
  BY DEF Moves, IdleCall, DirPC, MknodPC, UnlinkPC, RenamePC, ReleasePC
<1>2. "idle" \notin DirPC /\ "idle" \notin RenamePC /\ "idle" \notin ReleasePC
  BY DEF DirPC, MknodPC, UnlinkPC, RenamePC, ReleasePC
<1>3. DirExclusive'
  BY <1>1, <1>2 DEF Locks, DirExclusive
<1>4. RenameAlone'
  BY <1>1, <1>2 DEF Locks, RenameAlone
<1>5. RenameDistinct'
  BY <1>1, <1>2 DEF Locks, RenameDistinct
<1> QED
  BY <1>3, <1>4, <1>5 DEF Locks

LEMMA EntersLocks ==
    ASSUME TypeOK, Locks, NEW t \in Threads, Enters(t)
    PROVE  Locks'
<1> DEFINE pc == call'[t].pc
<1>1. CASE pc \in {"mknod_version", "unlink_again", "rename_versions"}
  <2>1. \A u \in Threads : call[u].pc \notin DirPC
    BY <1>1 DEF Enters, DirLocked
  <2>2. DirExclusive'
    BY <2>1 DEF Enters, DirExclusive
  <2>3. RenameDistinct'
    BY <1>1, <2>1 DEF Enters, RenameDistinct, DirPC, RenamePC, MknodPC, UnlinkPC
  <2>4. RenameAlone'
    <3>1. \A u \in Threads : u # t => call'[u].pc \notin RenamePC
      BY <2>1 DEF Enters, DirPC
    <3>2. pc \notin ReleasePC
      BY <1>1 DEF ReleasePC
    <3>3. CASE pc = "rename_versions"
      <4>1. \A u \in Threads : u # t /\ call[u].pc # "idle" =>
               call[u].path # call'[t].path /\ call[u].path # call'[t].to
        BY <3>3 DEF Enters, InUse, Idle
      <4> QED
        BY <3>1, <3>2, <4>1 DEF Enters, RenameAlone, ReleasePC
    <3>4. CASE pc # "rename_versions"
      BY <1>1, <3>1, <3>4 DEF RenameAlone, RenamePC
    <3> QED
      BY <3>3, <3>4
  <2> QED
    BY <2>2, <2>3, <2>4 DEF Locks
<1>2. CASE pc = "release_update"
  <2>1. pc \notin DirPC /\ pc \notin RenamePC
    BY <1>2 DEF DirPC, RenamePC, MknodPC, UnlinkPC
  <2>2. DirExclusive'
    BY <2>1 DEF Enters, Locks, DirExclusive
  <2>3. RenameDistinct'
    BY <2>1 DEF Enters, Locks, RenameDistinct
  <2>4. ~NameLocked(call'[t].path)
    BY <1>2 DEF Enters
  <2>5. \A u \in Threads : call[u].pc \in RenamePC =>
           call'[t].path # call[u].path /\ call'[t].path # call[u].to
    BY <2>4 DEF NameLocked, DirPC
  <2>6. RenameAlone'
    BY <2>1, <2>5 DEF Enters, Locks, RenameAlone
  <2> QED
    BY <2>2, <2>3, <2>6 DEF Locks
<1> QED
  BY <1>1, <1>2 DEF Enters

LEMMA NextLocks ==
    ASSUME TypeOK, Locks, [Next]_vars
    PROVE  Locks'
<1>1. ASSUME call' = call PROVE Locks'
  BY <1>1 DEF Locks, DirExclusive, RenameAlone, RenameDistinct
<1>2. ASSUME Crash PROVE Locks'
  <2>1. \A t \in Threads : call'[t].pc = "idle"
    BY <1>2 DEF Crash, IdleCall
  <2> QED
    BY <2>1 DEF Locks, DirExclusive, RenameAlone, RenameDistinct,
       DirPC, MknodPC, UnlinkPC, RenamePC
<1>3. World => call' = call \/ Crash
  BY DEF World, Tick, ServerLocks, ServerUnlocks
<1> QED
  BY <1>1, <1>2, <1>3, ContinueMoves, MovesLocks, AcceptEnters, EntersLocks
  DEF Next, vars

(* A blemish is never wiped off, and a lost statement leaves one. *)
LEMMA MarkGrows ==
    ASSUME TypeOK, NEW ps, NEW faults, Mark(ps, faults)
    PROVE  \A p \in Path : /\ blemish[p] \subseteq blemish'[p]
                           /\ p \in ps => faults \subseteq blemish'[p]
BY DEF Mark, TypeOK

LEMMA BlemishStays ==
    ASSUME TypeOK, [Next]_vars
    PROVE  \A p \in Path : blemish[p] \subseteq blemish'[p]
<1>1. CASE blemish' = blemish
  BY <1>1
<1>2. CASE \E ps, faults : Mark(ps, faults)
  BY <1>2, MarkGrows
<1>3. ASSUME NEW t \in Threads, Continue(t)
      PROVE  blemish' = blemish \/ \E ps, faults : Mark(ps, faults)
  <2>1. CASE \/ MknodVersion(t) \/ MknodRow(t) \/ MknodFails(t)
             \/ ReleaseVersion(t) \/ ReleaseSign(t)
             \/ UnlinkAgain(t) \/ UnlinkFails(t)
             \/ RenameVersions(t) \/ RenameSegments(t) \/ RenameFails(t)
    BY <2>1 DEF MknodVersion, MknodRow, MknodFails, ReleaseVersion, ReleaseSign,
       UnlinkAgain, UnlinkFails, RenameVersions, RenameSegments, RenameFails
  <2>2. CASE \/ MknodCreate(t) \/ ReleaseUpdate(t) \/ ReleaseUpdateLost(t)
             \/ ReleaseOpen(t) \/ ReleaseRead(t) \/ ReleaseFails(t)
             \/ UnlinkFile(t) \/ RenameFile(t)
    BY <2>2 DEF MknodCreate, ReleaseUpdate, ReleaseUpdateLost, ReleaseOpen,
       ReleaseRead, ReleaseFails, UnlinkFile, RenameFile, history
  <2> QED
    BY <1>3, <2>1, <2>2 DEF Continue
<1>4. ASSUME NEW t \in Threads, Accept(t)
      PROVE  blemish' = blemish \/ \E ps, faults : Mark(ps, faults)
  BY <1>4 DEF Accept, MknodSelect, CreateSymlink, OpenForWrite, Write, Truncate,
     ReleaseSelect, UnlinkEntry, RenameSystem, history
<1>5. World => blemish' = blemish \/ \E ps, faults : Mark(ps, faults)
  BY DEF World, Tick, ServerLocks, ServerUnlocks, Crash, history
<1> QED
  BY <1>1, <1>2, <1>3, <1>4, <1>5 DEF Next, vars

LEMMA BlemishGrows ==
    ASSUME TypeOK, [Next]_vars
    PROVE  \A p \in Path : Parted(p) => Parted(p)'
BY BlemishStays DEF Parted, Excused

-----------------------------------------------------------------------------
(* What VersionInv says of the tables, step by step. *)

TableInv ==
    /\ CallRecorded /\ RenameReady
    /\ VersionRecorded /\ SegmentVersionRecorded

\* A step that takes at most rows of file_system away, and does not bring a thread
\* past the statement that establishes what TableInv says of it.
Quiet(t) ==
    /\ fileSystem' \subseteq fileSystem
    /\ UNCHANGED <<fileVersions, fileSegments>>
    /\ \A p \in Path : Parted(p) => Parted(p)'
    /\ \A u \in Threads : u # t => call'[u] = call[u]
    /\ call[t].pc \notin {"release_version", "rename_versions", "rename_segments"}
    /\ \/ call'[t].pc \notin {"mknod_row", "release_open", "release_read",
                              "release_sign", "rename_versions", "rename_segments"}
       \/ /\ call[t].pc \in {"release_open", "release_read", "release_sign"}
          /\ call'[t].pc \in {"release_read", "release_sign"}
          /\ call'[t].path = call[t].path /\ call'[t].ver = call[t].ver

LEMMA QuietTables ==
    ASSUME TypeOK, TableInv, NEW t \in Threads, Quiet(t)
    PROVE  TableInv'
<1>1. CallRecorded'
  <2> SUFFICES ASSUME NEW u \in Threads,
                      call'[u].pc \in {"mknod_row", "release_open",
                                       "release_read", "release_sign"}
               PROVE  HasVersion(call[u].path, call[u].ver)' \/ Parted(call[u].path)'
    BY DEF CallRecorded
  <2>1. /\ call[u].pc \in {"mknod_row", "release_open", "release_read", "release_sign"}
        /\ call'[u].path = call[u].path /\ call'[u].ver = call[u].ver
    BY DEF Quiet
  <2>2. call[u].path \in Path
    BY <2>1, ActiveCall
  <2>3. HasVersion(call[u].path, call[u].ver) \/ Parted(call[u].path)
    BY <2>1 DEF TableInv, CallRecorded
  <2>4. CASE HasVersion(call[u].path, call[u].ver)
    BY <2>1, <2>4 DEF Quiet, HasVersion
  <2>5. CASE Parted(call[u].path)
    <3> DEFINE p == call[u].path
    <3>1. Parted(p)'
      BY <2>2, <2>5, <2>1 DEF Quiet, Parted, Excused
    <3> QED
      BY <3>1
  <2> QED
    BY <2>3, <2>4, <2>5
<1>2. RenameReady'
  <2> SUFFICES ASSUME NEW u \in Threads,
                      call'[u].pc \in {"rename_versions", "rename_segments"}
               PROVE  \/ Parted(call[u].path)' /\ Parted(call[u].to)'
                      \/ /\ call'[u].pc = "rename_versions" => RenameVersionsReady(u)'
                         /\ call'[u].pc = "rename_segments" => RenameSegmentsReady(u)'
    BY DEF RenameReady, At
  <2>1. u # t /\ call'[u] = call[u]
    BY DEF Quiet
  <2>2. call[u].path \in Path /\ call[u].to \in Path
    BY <2>1, ActiveCall
  <2>3. CASE Parted(call[u].path) /\ Parted(call[u].to)
    BY <2>1, <2>2, <2>3 DEF Quiet, Parted, Excused
  <2>4. CASE call[u].pc = "rename_versions" /\ RenameVersionsReady(u)
    BY <2>1, <2>4 DEF Quiet, RenameVersionsReady, HasVersion
  <2>5. CASE call[u].pc = "rename_segments" /\ RenameSegmentsReady(u)
    BY <2>1, <2>5 DEF Quiet, RenameSegmentsReady, HasVersion
  <2> QED
    BY <2>1, <2>3, <2>4, <2>5 DEF TableInv, RenameReady, At
<1>3. VersionRecorded'
  <2> SUFFICES ASSUME NEW r \in fileSystem'
               PROVE  \/ HasVersion(r.path, r.current_version)'
                      \/ \E u \in Threads : /\ At(u, "release_version")'
                                            /\ call'[u].path = r.path
                                            /\ call'[u].ver = r.current_version
                      \/ \E u \in Threads : At(u, "rename_versions")' /\ call'[u].to = r.path
                      \/ Parted(r.path)'
    BY DEF VersionRecorded, Parted
  <2>1. r \in fileSystem /\ r.path \in Path
    BY DEF Quiet, TypeOK, SystemRow
  <2>2. Parted(r.path) => Parted(r.path)'
    BY <2>1 DEF Quiet, Parted, Excused
  <2>3. HasVersion(r.path, r.current_version) => HasVersion(r.path, r.current_version)'
    BY DEF Quiet, HasVersion
  <2>4. \A u \in Threads : call[u].pc \in {"release_version", "rename_versions"} =>
                               call'[u] = call[u]
    BY DEF Quiet
  <2> QED
    BY <2>1, <2>2, <2>3, <2>4 DEF TableInv, VersionRecorded, Parted, At
<1>4. SegmentVersionRecorded'
  <2> SUFFICES ASSUME NEW s \in fileSegments'
               PROVE  \/ HasVersion(s.path, s.version)'
                      \/ \E u \in Threads :
                            At(u, "rename_segments")' /\ call'[u].path = s.path
                      \/ Parted(s.path)'
    BY DEF SegmentVersionRecorded, Parted
  <2>1. s \in fileSegments /\ s.path \in Path
    BY DEF Quiet, TypeOK, SegmentRow
  <2>2. Parted(s.path) => Parted(s.path)'
    BY <2>1 DEF Quiet, Parted, Excused
  <2>3. HasVersion(s.path, s.version) => HasVersion(s.path, s.version)'
    BY DEF Quiet, HasVersion
  <2>4. \A u \in Threads : call[u].pc = "rename_segments" => call'[u] = call[u]
    BY DEF Quiet
  <2> QED
    BY <2>1, <2>2, <2>3, <2>4 DEF TableInv, SegmentVersionRecorded, Parted, At
<1> QED
  BY <1>1, <1>2, <1>3, <1>4 DEF TableInv

LEMMA GotoEffect ==
    ASSUME TypeOK, NEW t \in Threads, call[t].pc # "idle", NEW pc, Goto(t, pc)
    PROVE  /\ \A u \in Threads : u # t => call'[u] = call[u]
           /\ call'[t].pc = pc
           /\ call'[t].path = call[t].path
           /\ call'[t].to   = call[t].to
           /\ call'[t].ver  = call[t].ver
<1>1. call[t] \in Call
  BY ActiveCall
<1>2. /\ \A u \in Threads : u # t => call'[u] = call[u]
      /\ call'[t] = [call[t] EXCEPT !.pc = pc]
  BY DEF Goto, TypeOK
<1> QED
  BY <1>1, <1>2 DEF Call

LEMMA LoopEffect ==
    ASSUME TypeOK, NEW t \in Threads, NEW pc, NEW seg, NEW buf, Loop(t, pc, seg, buf)
    PROVE  /\ \A u \in Threads : u # t => call'[u] = call[u]
           /\ call'[t].pc = pc
           /\ call'[t].path = call[t].path
           /\ call'[t].to   = call[t].to
           /\ call'[t].ver  = call[t].ver
BY DEF Loop, TypeOK

LEMMA ReturnEffect ==
    ASSUME TypeOK, NEW t \in Threads, Return(t)
    PROVE  /\ \A u \in Threads : u # t => call'[u] = call[u]
           /\ call'[t].pc = "idle"
BY DEF Return, TypeOK, IdleCall

LEMMA BeginEffect ==
    ASSUME TypeOK, NEW t \in Threads, NEW pc, NEW p, NEW q, Begin(t, pc, p, q)
    PROVE  /\ call[t].pc = "idle"
           /\ \A u \in Threads : u # t => call'[u] = call[u]
           /\ call'[t].pc = pc /\ call'[t].path = p /\ call'[t].to = q
BY DEF Begin, Idle, TypeOK

(* The steps of handlers that touch no table, or only delete a row. *)
LEMMA QuietContinue ==
    ASSUME TypeOK, NEW t \in Threads, \A p \in Path : Parted(p) => Parted(p)',
           \/ MknodCreate(t) \/ MknodFails(t)
           \/ ReleaseUpdateLost(t) \/ ReleaseOpen(t) \/ ReleaseRead(t) \/ ReleaseFails(t)
           \/ UnlinkAgain(t) \/ UnlinkFile(t) \/ UnlinkFails(t)
           \/ RenameFile(t) \/ RenameFails(t)
    PROVE  Quiet(t)
<1>1. CASE \/ MknodCreate(t) \/ MknodFails(t) \/ ReleaseUpdateLost(t)
           \/ ReleaseFails(t) \/ UnlinkFile(t) \/ UnlinkFails(t)
           \/ RenameFile(t) \/ RenameFails(t)
  <2>1. /\ Return(t) /\ UNCHANGED tables
        /\ call[t].pc \notin {"release_version", "rename_versions", "rename_segments"}
    BY <1>1 DEF MknodCreate, MknodFails, ReleaseUpdateLost, ReleaseFails, UnlinkFile,
       UnlinkFails, RenameFile, RenameFails, At
  <2> QED
    BY <2>1, ReturnEffect DEF Quiet, tables
<1>2. CASE UnlinkAgain(t)
  <2>1. /\ Goto(t, "unlink_file") /\ call[t].pc = "unlink_again"
        /\ UNCHANGED <<fileVersions, fileSegments>>
        /\ fileSystem' \subseteq fileSystem
    BY <1>2 DEF UnlinkAgain, At, DeleteRow, Commit
  <2> QED
    BY <2>1, GotoEffect DEF Quiet
<1>3. CASE ReleaseOpen(t)
  <2>1. /\ Goto(t, "release_read") /\ call[t].pc = "release_open"
        /\ UNCHANGED tables
    BY <1>3 DEF ReleaseOpen, At
  <2> QED
    BY <2>1, GotoEffect DEF Quiet, tables
<1>4. CASE ReleaseRead(t)
  <2>1. /\ \E seg, buf : Loop(t, "release_sign", seg, buf)
        /\ call[t].pc = "release_read"
        /\ UNCHANGED tables
    BY <1>4 DEF ReleaseRead, At
  <2> QED
    BY <2>1, LoopEffect DEF Quiet, tables
<1> QED
  BY <1>1, <1>2, <1>3, <1>4

LEMMA QuietAccept ==
    ASSUME TypeOK, NEW t \in Threads, NEW p \in Path,
           \A q \in Path : Parted(q) => Parted(q)',
           MknodSelect(t, p) \/ (ReleaseSelect(t, p) /\ call' # call) \/ UnlinkEntry(t, p)
    PROVE  Quiet(t)
<1>1. /\ \E pc \in {"mknod_version", "release_update", "unlink_again"} : Begin(t, pc, p, p)
      /\ UNCHANGED <<fileVersions, fileSegments>>
      /\ fileSystem' \subseteq fileSystem
  BY DEF MknodSelect, ReleaseSelect, UnlinkEntry, DeleteRow, Commit, tables
<1> QED
  BY <1>1, BeginEffect DEF Quiet

(* Nothing TableInv speaks of changes, or only the blemishes grow. *)
LEMMA StillTables ==
    ASSUME TypeOK, TableInv, UNCHANGED tables, UNCHANGED call,
           \A p \in Path : Parted(p) => Parted(p)'
    PROVE  TableInv'
<1> USE DEF tables
<1>p. \A t \in Threads : call[t].pc # "idle" =>
          /\ Parted(call[t].path) => Parted(call[t].path)'
          /\ Parted(call[t].to) => Parted(call[t].to)'
  BY ActiveCall DEF Parted, Excused
<1>1. CallRecorded'
  BY <1>p DEF TableInv, CallRecorded, HasVersion, Parted, Excused
<1>2. RenameReady'
  BY <1>p DEF TableInv, RenameReady, RenameVersionsReady, RenameSegmentsReady,
     HasVersion, At, Parted, Excused
<1>3. VersionRecorded'
  <2>1. \A r \in fileSystem : Parted(r.path) => Parted(r.path)'
    BY DEF TypeOK, SystemRow, Parted, Excused
  <2> QED
    BY <2>1 DEF TableInv, VersionRecorded, HasVersion, At, Parted
<1>4. SegmentVersionRecorded'
  <2>1. \A s \in fileSegments : Parted(s.path) => Parted(s.path)'
    BY DEF TypeOK, SegmentRow, Parted, Excused
  <2> QED
    BY <2>1 DEF TableInv, SegmentVersionRecorded, HasVersion, At, Parted
<1> QED
  BY <1>1, <1>2, <1>3, <1>4 DEF TableInv

(* The steps that write rows.  In each, the blemishes grow and, when the statement
   is lost, the names it was for are Parted from then on. *)

LEMMA LostParts ==
    ASSUME TypeOK, NEW ps, NEW faults, Mark(ps, faults), Lost \subseteq faults,
           readLock, NEW p \in Path, p \in ps
    PROVE  Parted(p)'
<1>1. faults \subseteq blemish'[p]
  BY MarkGrows
<1> QED
  BY <1>1 DEF Lost, Parted, Excused

LEMMA MknodVersionTables ==
    ASSUME TypeOK, Locks, TableInv, NEW t \in Threads, MknodVersion(t),
           \A p \in Path : Parted(p) => Parted(p)'
    PROVE  TableInv'
<1>0. call[t].pc = "mknod_version"
  BY DEF MknodVersion, At
<1>3. PICK p \in Path, v \in Nat : call[t].path = p /\ call[t].ver = v
  BY <1>0, ActiveCall
<1>1. /\ call[t].pc = "mknod_version" /\ Goto(t, "mknod_row")
      /\ UNCHANGED <<fileSystem, fileSegments>>
      /\ Mark({p}, Lost)
      /\ fileVersions \subseteq fileVersions'
      /\ readLock \/ HasVersion(p, v)'
  BY <1>3 DEF MknodVersion, At, Commit, HasVersion
<1>2. /\ \A u \in Threads : u # t => call'[u] = call[u]
      /\ call'[t].pc = "mknod_row"
      /\ call'[t].path = p /\ call'[t].ver = v
  BY <1>1, <1>3, GotoEffect
<1>4. readLock => Parted(p)'
  BY <1>1, <1>3, LostParts DEF Lost
<1>5. \A u \in Threads : call[u].pc \notin RenamePC
  BY <1>1 DEF Locks, DirExclusive, DirPC, MknodPC, RenamePC
<1>m. \A x, w : HasVersion(x, w) => HasVersion(x, w)'
  BY <1>1 DEF HasVersion
<1>p. \A u \in Threads : call[u].pc # "idle" => call[u].path \in Path /\ call[u].to \in Path
  BY ActiveCall
<1>q. \A q \in Path : Parted(q) => Parted(q)'
  OBVIOUS
<1>6. CallRecorded'
  BY <1>1, <1>2, <1>4, <1>m, <1>p, <1>q DEF TableInv, CallRecorded, HasVersion, Parted, Excused
<1>7. RenameReady'
  BY <1>2, <1>5 DEF RenameReady, At, RenamePC
<1>8. VersionRecorded'
  <2>1. \A r \in fileSystem : Parted(r.path) => Parted(r.path)'
    BY DEF TypeOK, SystemRow, Parted, Excused
  <2>2. \A u \in Threads : call[u].pc \in {"release_version", "rename_versions"} =>
                               call'[u] = call[u]
    BY <1>1, <1>2
  <2> QED
    BY <1>1, <1>m, <2>1, <2>2 DEF TableInv, VersionRecorded, At, Parted
<1>9. SegmentVersionRecorded'
  <2>1. \A s \in fileSegments : Parted(s.path) => Parted(s.path)'
    BY DEF TypeOK, SegmentRow, Parted, Excused
  <2>2. \A u \in Threads : call[u].pc = "rename_segments" => call'[u] = call[u]
    BY <1>1, <1>2
  <2> QED
    BY <1>1, <1>m, <2>1, <2>2 DEF TableInv, SegmentVersionRecorded, At, Parted
<1> QED
  BY <1>6, <1>7, <1>8, <1>9 DEF TableInv

LEMMA MknodRowTables ==
    ASSUME TypeOK, Locks, TableInv, NEW t \in Threads, MknodRow(t),
           \A p \in Path : Parted(p) => Parted(p)'
    PROVE  TableInv'
<1>0. call[t].pc = "mknod_row"
  BY DEF MknodRow, At
<1>3. PICK p \in Path, v \in Nat : call[t].path = p /\ call[t].ver = v
  BY <1>0, ActiveCall
<1>1. /\ call[t].pc = "mknod_row" /\ Goto(t, "mknod_create")
      /\ UNCHANGED <<fileVersions, fileSegments>>
      /\ \A r \in fileSystem' :
            r \in fileSystem \/ (r.path = p /\ r.current_version = v)
  BY <1>3 DEF MknodRow, At, Commit
<1>2. /\ \A u \in Threads : u # t => call'[u] = call[u]
      /\ call'[t].pc = "mknod_create"
  BY <1>1, <1>3, GotoEffect
<1>5. \A u \in Threads : call[u].pc \notin RenamePC
  BY <1>1 DEF Locks, DirExclusive, DirPC, MknodPC, RenamePC
<1>m. \A x, w : HasVersion(x, w) => HasVersion(x, w)'
  BY <1>1 DEF HasVersion
<1>p. \A u \in Threads : call[u].pc # "idle" => call[u].path \in Path /\ call[u].to \in Path
  BY ActiveCall
<1>q. \A q \in Path : Parted(q) => Parted(q)'
  OBVIOUS
<1>r. HasVersion(p, v) \/ Parted(p)
  BY <1>1, <1>3 DEF TableInv, CallRecorded
<1>6. CallRecorded'
  BY <1>1, <1>2, <1>m, <1>p, <1>q DEF TableInv, CallRecorded, HasVersion, Parted, Excused
<1>7. RenameReady'
  BY <1>2, <1>5 DEF RenameReady, At, RenamePC
<1>8. VersionRecorded'
  <2>1. \A r \in fileSystem : Parted(r.path) => Parted(r.path)'
    BY DEF TypeOK, SystemRow, Parted, Excused
  <2>2. \A u \in Threads : call[u].pc \in {"release_version", "rename_versions"} =>
                               call'[u] = call[u]
    BY <1>1, <1>2
  <2>3. Parted(p) => Parted(p)'
    BY <1>3 DEF Parted, Excused
  <2>4. \A r \in fileSystem' : r \in fileSystem \/ HasVersion(r.path, r.current_version)'
                                  \/ Parted(r.path)'
    BY <1>1, <1>m, <1>r, <2>3 DEF Parted, Excused
  <2> QED
    BY <1>1, <1>m, <2>1, <2>2, <2>4 DEF TableInv, VersionRecorded, At, Parted
<1>9. SegmentVersionRecorded'
  <2>1. \A s \in fileSegments : Parted(s.path) => Parted(s.path)'
    BY DEF TypeOK, SegmentRow, Parted, Excused
  <2>2. \A u \in Threads : call[u].pc = "rename_segments" => call'[u] = call[u]
    BY <1>1, <1>2
  <2> QED
    BY <1>1, <1>m, <2>1, <2>2 DEF TableInv, SegmentVersionRecorded, At, Parted
<1> QED
  BY <1>6, <1>7, <1>8, <1>9 DEF TableInv

LEMMA ReleaseUpdateTables ==
    ASSUME TypeOK, Locks, TableInv, NEW t \in Threads, ReleaseUpdate(t),
           \A p \in Path : Parted(p) => Parted(p)'
    PROVE  TableInv'
<1>0. call[t].pc = "release_update"
  BY DEF ReleaseUpdate, At
<1>3. PICK p \in Path, v \in Nat : call[t].path = p /\ call[t].ver = v
  BY <1>0, ActiveCall
<1>1. /\ call[t].pc = "release_update" /\ Goto(t, "release_version")
      /\ UNCHANGED <<fileVersions, fileSegments>>
      /\ fileSystem' = {IF r.path = p THEN [r EXCEPT !.current_version = v]
                        ELSE r : r \in fileSystem}
  BY <1>3 DEF ReleaseUpdate, At
<1>2. /\ \A u \in Threads : u # t => call'[u] = call[u]
      /\ call'[t].pc = "release_version"
      /\ call'[t].path = p /\ call'[t].ver = v
  BY <1>1, <1>3, GotoEffect
<1>4. \A r \in fileSystem' :
         \/ r \in fileSystem /\ r.path # p
         \/ r.path = p /\ r.current_version = v
  BY <1>1 DEF TypeOK, SystemRow
<1>5. \A u \in Threads : call[u].pc \in RenamePC => p # call[u].path /\ p # call[u].to
  BY <1>1, <1>3 DEF Locks, RenameAlone, ReleasePC
<1>m. \A x, w : HasVersion(x, w) => HasVersion(x, w)'
  BY <1>1 DEF HasVersion
<1>p. \A u \in Threads : call[u].pc # "idle" => call[u].path \in Path /\ call[u].to \in Path
  BY ActiveCall
<1>q. \A q \in Path : Parted(q) => Parted(q)'
  OBVIOUS
<1>6. CallRecorded'
  BY <1>1, <1>2, <1>m, <1>p, <1>q DEF TableInv, CallRecorded, HasVersion, Parted, Excused
<1>7. RenameReady'
  <2> SUFFICES ASSUME NEW u \in Threads,
                      call'[u].pc \in {"rename_versions", "rename_segments"}
               PROVE  \/ Parted(call[u].path)' /\ Parted(call[u].to)'
                      \/ /\ call'[u].pc = "rename_versions" => RenameVersionsReady(u)'
                         /\ call'[u].pc = "rename_segments" => RenameSegmentsReady(u)'
    BY DEF RenameReady, At
  <2>1. u # t /\ call'[u] = call[u]
    BY <1>2
  <2>2. CASE Parted(call[u].path) /\ Parted(call[u].to)
    BY <1>p, <1>q, <2>1, <2>2 DEF Parted, Excused
  <2>3. CASE call[u].pc = "rename_versions" /\ RenameVersionsReady(u)
    BY <1>1, <1>4, <1>5, <2>1, <2>3 DEF RenameVersionsReady, HasVersion, RenamePC
  <2>4. CASE call[u].pc = "rename_segments" /\ RenameSegmentsReady(u)
    BY <1>1, <1>4, <1>5, <2>1, <2>4 DEF RenameSegmentsReady, HasVersion, RenamePC
  <2> QED
    BY <2>1, <2>2, <2>3, <2>4 DEF TableInv, RenameReady, At
<1>8. VersionRecorded'
  <2>1. \A r \in fileSystem : Parted(r.path) => Parted(r.path)'
    BY DEF TypeOK, SystemRow, Parted, Excused
  <2>2. \A u \in Threads : call[u].pc \in {"release_version", "rename_versions"} =>
                               call'[u] = call[u]
    BY <1>1, <1>2
  <2> QED
    BY <1>2, <1>4, <1>m, <2>1, <2>2 DEF TableInv, VersionRecorded, At, Parted
<1>9. SegmentVersionRecorded'
  <2>1. \A s \in fileSegments : Parted(s.path) => Parted(s.path)'
    BY DEF TypeOK, SegmentRow, Parted, Excused
  <2>2. \A u \in Threads : call[u].pc = "rename_segments" => call'[u] = call[u]
    BY <1>1, <1>2
  <2> QED
    BY <1>1, <1>m, <2>1, <2>2 DEF TableInv, SegmentVersionRecorded, At, Parted
<1> QED
  BY <1>6, <1>7, <1>8, <1>9 DEF TableInv

LEMMA ReleaseVersionTables ==
    ASSUME TypeOK, Locks, TableInv, NEW t \in Threads, ReleaseVersion(t),
           \A p \in Path : Parted(p) => Parted(p)'
    PROVE  TableInv'
<1>0. call[t].pc = "release_version"
  BY DEF ReleaseVersion, At
<1>1. PICK p \in Path, v \in Nat : call[t].path = p /\ call[t].ver = v
  BY <1>0, ActiveCall
<1>2. /\ Goto(t, "release_open")
      /\ UNCHANGED <<fileSystem, fileSegments>>
      /\ Mark({p}, Lost)
      /\ fileVersions \subseteq fileVersions'
      /\ fileVersions' \subseteq fileVersions \cup {[path |-> p, version |-> v]}
      /\ readLock \/ HasVersion(p, v)'
  BY <1>1 DEF ReleaseVersion, Commit, HasVersion
<1>3. /\ \A u \in Threads : u # t => call'[u] = call[u]
      /\ call'[t].pc = "release_open"
      /\ call'[t].path = p /\ call'[t].ver = v
  BY <1>0, <1>1, <1>2, GotoEffect
<1>4. HasVersion(p, v)' \/ Parted(p)'
  BY <1>1, <1>2, LostParts
<1>5. \A u \in Threads : call[u].pc \in RenamePC => p # call[u].path /\ p # call[u].to
  BY <1>0, <1>1 DEF Locks, RenameAlone, ReleasePC
<1>m. \A q, w : HasVersion(q, w) => HasVersion(q, w)'
  BY <1>2 DEF HasVersion
<1>p. \A u \in Threads : call[u].pc # "idle" => call[u].path \in Path /\ call[u].to \in Path
  BY ActiveCall
<1>q. \A q \in Path : Parted(q) => Parted(q)'
  OBVIOUS
<1>6. CallRecorded'
  BY <1>0, <1>3, <1>4, <1>m, <1>p, <1>q
  DEF TableInv, CallRecorded, HasVersion, Parted, Excused
<1>7. RenameReady'
  <2> SUFFICES ASSUME NEW u \in Threads,
                      call'[u].pc \in {"rename_versions", "rename_segments"}
               PROVE  \/ Parted(call[u].path)' /\ Parted(call[u].to)'
                      \/ /\ call'[u].pc = "rename_versions" => RenameVersionsReady(u)'
                         /\ call'[u].pc = "rename_segments" => RenameSegmentsReady(u)'
    BY DEF RenameReady, At
  <2>1. u # t /\ call'[u] = call[u]
    BY <1>3
  <2>2. CASE Parted(call[u].path) /\ Parted(call[u].to)
    BY <1>p, <1>q, <2>1, <2>2 DEF Parted, Excused
  <2>3. CASE call[u].pc = "rename_versions" /\ RenameVersionsReady(u)
    <3>1. p # call[u].to
      BY <1>5, <2>3 DEF RenamePC
    <3>2. \A w \in fileVersions' : w.path # call[u].to
      BY <1>2, <2>3, <3>1 DEF RenameVersionsReady
    <3> QED
      BY <1>2, <1>m, <2>1, <2>3, <3>2 DEF RenameVersionsReady, HasVersion
  <2>4. CASE call[u].pc = "rename_segments" /\ RenameSegmentsReady(u)
    BY <1>2, <1>m, <2>1, <2>4 DEF RenameSegmentsReady, HasVersion
  <2> QED
    BY <2>1, <2>2, <2>3, <2>4 DEF TableInv, RenameReady, At
<1>8. VersionRecorded'
  <2>1. \A r \in fileSystem : Parted(r.path) => Parted(r.path)'
    BY DEF TypeOK, SystemRow, Parted, Excused
  <2>2. \A u \in Threads :
           call[u].pc \in {"release_version", "rename_versions"} /\ u # t =>
               call'[u] = call[u]
    BY <1>3
  <2> QED
    BY <1>0, <1>1, <1>2, <1>4, <1>m, <2>1, <2>2 DEF TableInv, VersionRecorded, At, Parted
<1>9. SegmentVersionRecorded'
  <2>1. \A s \in fileSegments : Parted(s.path) => Parted(s.path)'
    BY DEF TypeOK, SegmentRow, Parted, Excused
  <2>2. \A u \in Threads : call[u].pc = "rename_segments" => call'[u] = call[u]
    BY <1>0, <1>3
  <2> QED
    BY <1>2, <1>m, <2>1, <2>2 DEF TableInv, SegmentVersionRecorded, At, Parted
<1> QED
  BY <1>6, <1>7, <1>8, <1>9 DEF TableInv

LEMMA ReleaseSignTables ==
    ASSUME TypeOK, Locks, TableInv, NEW t \in Threads, ReleaseSign(t),
           \A p \in Path : Parted(p) => Parted(p)'
    PROVE  TableInv'
<1>0. call[t].pc = "release_sign"
  BY DEF ReleaseSign, At
<1>1. PICK p \in Path, v \in Nat : call[t].path = p /\ call[t].ver = v
  BY <1>0, ActiveCall
<1>2. /\ UNCHANGED <<fileSystem, fileVersions>>
      /\ \A s \in fileSegments' : s \in fileSegments \/ (s.path = p /\ s.version = v)
  BY <1>1 DEF ReleaseSign, Commit, InsertOrReplace, SignedRow
<1>3. /\ \A u \in Threads : u # t => call'[u] = call[u]
      /\ \/ call'[t].pc = "idle"
         \/ call'[t].pc = "release_read" /\ call'[t].path = p /\ call'[t].ver = v
  <2>1. Return(t) \/ \E seg, buf : Loop(t, "release_read", seg, buf)
    BY DEF ReleaseSign
  <2> QED
    BY <1>1, <2>1, ReturnEffect, LoopEffect
<1>4. HasVersion(p, v)' \/ Parted(p)'
  <2>1. HasVersion(p, v) \/ Parted(p)
    BY <1>0, <1>1 DEF TableInv, CallRecorded
  <2> QED
    BY <1>2, <2>1 DEF HasVersion
<1>5. \A u \in Threads : call[u].pc \in RenamePC => p # call[u].path /\ p # call[u].to
  BY <1>0, <1>1 DEF Locks, RenameAlone, ReleasePC
<1>m. \A q, w : HasVersion(q, w) => HasVersion(q, w)'
  BY <1>2 DEF HasVersion
<1>p. \A u \in Threads : call[u].pc # "idle" => call[u].path \in Path /\ call[u].to \in Path
  BY ActiveCall
<1>q. \A q \in Path : Parted(q) => Parted(q)'
  OBVIOUS
<1>6. CallRecorded'
  BY <1>0, <1>3, <1>4, <1>m, <1>p, <1>q
  DEF TableInv, CallRecorded, HasVersion, Parted, Excused
<1>7. RenameReady'
  <2> SUFFICES ASSUME NEW u \in Threads,
                      call'[u].pc \in {"rename_versions", "rename_segments"}
               PROVE  \/ Parted(call[u].path)' /\ Parted(call[u].to)'
                      \/ /\ call'[u].pc = "rename_versions" => RenameVersionsReady(u)'
                         /\ call'[u].pc = "rename_segments" => RenameSegmentsReady(u)'
    BY DEF RenameReady, At
  <2>1. u # t /\ call'[u] = call[u]
    BY <1>3
  <2>2. CASE Parted(call[u].path) /\ Parted(call[u].to)
    BY <1>p, <1>q, <2>1, <2>2 DEF Parted, Excused
  <2>3. \A s \in fileSegments' :
           call[u].pc \in RenamePC /\ s.path \in {call[u].path, call[u].to} =>
               s \in fileSegments
    BY <1>2, <1>5
  <2>4. CASE call[u].pc = "rename_versions" /\ RenameVersionsReady(u)
    BY <1>2, <1>m, <2>1, <2>3, <2>4 DEF RenameVersionsReady, HasVersion, RenamePC
  <2>5. CASE call[u].pc = "rename_segments" /\ RenameSegmentsReady(u)
    BY <1>2, <1>m, <2>1, <2>3, <2>5 DEF RenameSegmentsReady, HasVersion, RenamePC
  <2> QED
    BY <2>1, <2>2, <2>4, <2>5 DEF TableInv, RenameReady, At
<1>8. VersionRecorded'
  <2>1. \A r \in fileSystem : Parted(r.path) => Parted(r.path)'
    BY DEF TypeOK, SystemRow, Parted, Excused
  <2>2. \A u \in Threads : call[u].pc \in {"release_version", "rename_versions"} =>
                               call'[u] = call[u]
    BY <1>0, <1>3
  <2> QED
    BY <1>2, <1>m, <2>1, <2>2 DEF TableInv, VersionRecorded, At, Parted
<1>9. SegmentVersionRecorded'
  <2>1. \A s \in fileSegments : Parted(s.path) => Parted(s.path)'
    BY DEF TypeOK, SegmentRow, Parted, Excused
  <2>2. \A u \in Threads : call[u].pc = "rename_segments" => call'[u] = call[u]
    BY <1>0, <1>3
  <2>3. \A s \in fileSegments' :
           s \in fileSegments \/ HasVersion(s.path, s.version)' \/ Parted(s.path)'
    BY <1>2, <1>4 DEF Parted, Excused
  <2> QED
    BY <1>m, <2>1, <2>2, <2>3 DEF TableInv, SegmentVersionRecorded, At, Parted
<1> QED
  BY <1>6, <1>7, <1>8, <1>9 DEF TableInv

LEMMA CrashTables ==
    ASSUME TypeOK, TableInv, Crash, \A p \in Path : Parted(p) => Parted(p)'
    PROVE  TableInv'
<1>1. /\ UNCHANGED tables
      /\ \A t \in Threads : call'[t].pc = "idle"
      /\ Mark({p \in Path : InUse(p)}, {"crash"})
  BY DEF Crash, IdleCall
<1>2. \A p \in Path : InUse(p) => Parted(p)'
  <2>1. \A p \in Path : InUse(p) => {"crash"} \subseteq blemish'[p]
    BY <1>1, MarkGrows
  <2> QED
    BY <2>1 DEF Parted, Excused
<1>3. CallRecorded' /\ RenameReady'
  BY <1>1 DEF CallRecorded, RenameReady, At
<1>4. VersionRecorded'
  <2> SUFFICES ASSUME NEW r \in fileSystem
               PROVE  HasVersion(r.path, r.current_version)' \/ Parted(r.path)'
    BY <1>1 DEF VersionRecorded, Parted, tables
  <2>1. r.path \in Path
    BY DEF TypeOK, SystemRow
  <2>2. CASE HasVersion(r.path, r.current_version)
    BY <1>1, <2>2 DEF HasVersion, tables
  <2>3. CASE InUse(r.path)
    BY <1>2, <2>1, <2>3
  <2>4. CASE Parted(r.path)
    BY <2>1, <2>4
  <2> QED
    BY <2>2, <2>3, <2>4 DEF TableInv, VersionRecorded, At, InUse, Idle, Parted
<1>5. SegmentVersionRecorded'
  <2> SUFFICES ASSUME NEW s \in fileSegments
               PROVE  HasVersion(s.path, s.version)' \/ Parted(s.path)'
    BY <1>1 DEF SegmentVersionRecorded, Parted, tables
  <2>1. s.path \in Path
    BY DEF TypeOK, SegmentRow
  <2>2. CASE HasVersion(s.path, s.version)
    BY <1>1, <2>2 DEF HasVersion, tables
  <2>3. CASE InUse(s.path)
    BY <1>2, <2>1, <2>3
  <2>4. CASE Parted(s.path)
    BY <2>1, <2>4
  <2> QED
    BY <2>2, <2>3, <2>4 DEF TableInv, SegmentVersionRecorded, At, InUse, Idle, Parted
<1> QED
  BY <1>3, <1>4, <1>5 DEF TableInv

LEMMA RenameSystemTables ==
    ASSUME TypeOK, Locks, TableInv, NEW t \in Threads, NEW p \in Path, NEW q \in Path,
           RenameSystem(t, p, q), \A x \in Path : Parted(x) => Parted(x)'
    PROVE  TableInv'
<1> DEFINE faults == blemish[p] \cup blemish[q] \cup Lost \cup
                         (IF Known(q) THEN {"collide"} ELSE {})
<1>1. /\ UNCHANGED <<fileVersions, fileSegments>>
      /\ \A u \in Threads : call[u].pc \notin DirPC
      /\ \A u \in Threads : call[u].pc # "idle" => call[u].path # p
      /\ p # q
      /\ Begin(t, "rename_versions", p, q)
      /\ Mark({p, q}, faults)
  BY DEF RenameSystem, DirLocked, InUse, Idle
<1>2. /\ fileSystem' = Commit(fileSystem, UpdatePath(fileSystem, p, q, SystemClash(p, q)))
      /\ \A r \in fileSystem' : r \in fileSystem \/ r.path = q
  BY DEF RenameSystem, Commit, UpdatePath, TypeOK, SystemRow
<1>3. /\ call[t].pc = "idle"
      /\ \A u \in Threads : u # t => call'[u] = call[u]
      /\ call'[t].pc = "rename_versions" /\ call'[t].path = p /\ call'[t].to = q
  BY <1>1, BeginEffect
<1>4. readLock \/ Known(q) \/ Parted(p) \/ Parted(q) => Parted(p)' /\ Parted(q)'
  <2>1. faults \subseteq blemish'[p] /\ faults \subseteq blemish'[q]
    <3> HIDE DEF faults
    <3> QED BY <1>1, MarkGrows
  <2> QED
    BY <2>1 DEF Lost, Parted, Excused
<1> HIDE DEF faults
<1>5. \A u \in Threads : u # t => call[u].pc \notin RenamePC
  BY <1>1 DEF DirPC
<1>m. \A x, w : HasVersion(x, w) = HasVersion(x, w)'
  BY <1>1 DEF HasVersion
<1>p. \A u \in Threads : call[u].pc # "idle" => call[u].path \in Path
  BY ActiveCall
<1>q. \A x \in Path : Parted(x) => Parted(x)'
  OBVIOUS
<1>6. CallRecorded'
  BY <1>3, <1>m, <1>p, <1>q DEF TableInv, CallRecorded, HasVersion, Parted, Excused
<1>7. RenameReady'
  <2>1. \/ Parted(p)' /\ Parted(q)'
        \/ RenameVersionsReady(t)'
    <3> SUFFICES ASSUME ~readLock, ~Known(q), ~Parted(p)
                 PROVE  RenameVersionsReady(t)'
      BY <1>4
    <3>1. \A r \in fileSystem' :
             \/ r \in fileSystem /\ r.path # p /\ r.path # q
             \/ \E o \in fileSystem : /\ o.path = p /\ r.path = q
                                      /\ r.current_version = o.current_version
      BY <1>2 DEF Commit, UpdatePath, SystemClash, Known, HasRow, TypeOK, SystemRow
    <3>2. \A o \in fileSystem : o.path = p => HasVersion(p, o.current_version)
      BY <1>1 DEF TableInv, VersionRecorded, At, Parted, DirPC, RenamePC
    <3>3. \A s \in fileSegments : s.path = p => HasVersion(p, s.version)
      BY <1>1 DEF TableInv, SegmentVersionRecorded, At, Parted, DirPC, RenamePC
    <3>4. /\ \A v \in fileVersions' : v.path # q
          /\ \A s \in fileSegments' : s.path # q
      BY <1>1 DEF Known
    <3>5. \A r \in fileSystem' : r.path # p
      BY <1>1, <3>1
    <3>6. \A r \in fileSystem' : r.path = q => HasVersion(p, r.current_version)'
      BY <3>1, <3>2, <1>1 DEF HasVersion
    <3>7. \A s \in fileSegments' : s.path = p => HasVersion(p, s.version)'
      BY <3>3, <1>1 DEF HasVersion
    <3> QED
      BY <1>3, <3>4, <3>5, <3>6, <3>7 DEF RenameVersionsReady, HasVersion
  <2>2. \/ Parted(call[t].path)' /\ Parted(call[t].to)'
        \/ RenameVersionsReady(t)'
    BY <1>3, <2>1 DEF Parted, Excused
  <2> QED
    BY <1>3, <1>5, <2>2 DEF RenameReady, At, RenamePC
<1>8. VersionRecorded'
  <2>1. \A r \in fileSystem : Parted(r.path) => Parted(r.path)'
    BY DEF TypeOK, SystemRow, Parted, Excused
  <2>2. \A u \in Threads : call[u].pc \in {"release_version", "rename_versions"} =>
                               call'[u] = call[u]
    BY <1>3
  <2> QED
    BY <1>2, <1>3, <1>m, <2>1, <2>2 DEF TableInv, VersionRecorded, At, Parted
<1>9. SegmentVersionRecorded'
  <2>1. \A s \in fileSegments : Parted(s.path) => Parted(s.path)'
    BY DEF TypeOK, SegmentRow, Parted, Excused
  <2>2. \A u \in Threads : call[u].pc = "rename_segments" => call'[u] = call[u]
    BY <1>3
  <2> QED
    BY <1>1, <1>m, <2>1, <2>2 DEF TableInv, SegmentVersionRecorded, At, Parted
<1> QED
  BY <1>6, <1>7, <1>8, <1>9 DEF TableInv

LEMMA RenameVersionsTables ==
    ASSUME TypeOK, Locks, TableInv, NEW t \in Threads, RenameVersions(t),
           \A x \in Path : Parted(x) => Parted(x)'
    PROVE  TableInv'
<1>0. call[t].pc = "rename_versions"
  BY DEF RenameVersions, At
<1>1. PICK p \in Path, q \in Path : call[t].path = p /\ call[t].to = q
  BY <1>0, ActiveCall
<1>2. /\ Goto(t, "rename_segments")
      /\ UNCHANGED <<fileSystem, fileSegments>>
      /\ Mark({p, q}, Lost)
      /\ fileVersions' = Commit(fileVersions,
             UpdatePath(fileVersions, p, q, VersionClash(p, q)))
  BY <1>1 DEF RenameVersions
<1>3. /\ \A u \in Threads : u # t => call'[u] = call[u]
      /\ call'[t].pc = "rename_segments" /\ call'[t].path = p /\ call'[t].to = q
  BY <1>0, <1>1, <1>2, GotoEffect
<1>4. /\ p # q
      /\ \A u \in Threads : u # t => call[u].pc \notin DirPC
      /\ \A u \in Threads : call[u].pc \in ReleasePC => call[u].path # p /\ call[u].path # q
  BY <1>0, <1>1 DEF Locks, DirExclusive, RenameAlone, RenameDistinct, DirPC, RenamePC
<1>p. \A u \in Threads : call[u].pc # "idle" => call[u].path \in Path
  BY ActiveCall
<1>q. \A x \in Path : Parted(x) => Parted(x)'
  OBVIOUS
<1>5. \A x, w : HasVersion(x, w) /\ x # p => HasVersion(x, w)'
  BY <1>2 DEF HasVersion, Commit, UpdatePath
<1>6. \/ Parted(p)' /\ Parted(q)'
      \/ RenameVersionsReady(t) /\ \A w : HasVersion(p, w) => HasVersion(q, w)'
  <2>1. CASE Parted(p) /\ Parted(q)
    BY <2>1
  <2>2. CASE readLock
    BY <1>2, <2>2, LostParts
  <2>3. CASE ~readLock /\ RenameVersionsReady(t)
    <3>1. ~VersionClash(p, q)
      BY <1>1, <2>3 DEF RenameVersionsReady, VersionClash
    <3>2. fileVersions' = {IF r.path = p THEN [r EXCEPT !.path = q] ELSE r :
                              r \in fileVersions}
      BY <1>2, <2>3, <3>1 DEF Commit, UpdatePath
    <3>3. ASSUME NEW w, HasVersion(p, w) PROVE HasVersion(q, w)'
      <4>1. [[path |-> p, version |-> w] EXCEPT !.path = q] = [path |-> q, version |-> w]
        OBVIOUS
      <4> QED
        BY <3>2, <3>3, <4>1 DEF HasVersion
    <3> QED
      BY <2>3, <3>3
  <2> QED
    BY <1>0, <1>1, <2>1, <2>2, <2>3 DEF TableInv, RenameReady, At, Parted, Excused
<1>7. CallRecorded'
  <2>1. ASSUME NEW u \in Threads,
               call'[u].pc \in {"mknod_row", "release_open", "release_read", "release_sign"}
        PROVE  call'[u] = call[u] /\ call[u].path \in Path /\ call[u].path # p
    <3>1. u # t /\ call'[u] = call[u]
      BY <1>3, <2>1
    <3> QED
      BY <1>4, <1>p, <2>1, <3>1 DEF ReleasePC, DirPC, MknodPC
  <2>2. CallRecorded
    BY DEF TableInv
  <2> QED
    BY <1>5, <1>q, <2>1, <2>2 DEF CallRecorded, HasVersion, Parted, Excused
<1>8. RenameReady'
  <2>1. \/ Parted(p)' /\ Parted(q)'
        \/ RenameSegmentsReady(t)'
    <3> SUFFICES ASSUME RenameVersionsReady(t),
                        \A w : HasVersion(p, w) => HasVersion(q, w)'
                 PROVE  RenameSegmentsReady(t)'
      BY <1>6
    <3>1. /\ \A s \in fileSegments : s.path # q
          /\ \A r \in fileSystem : r.path # p
          /\ \A s \in fileSegments : s.path = p => HasVersion(q, s.version)'
      BY <1>1 DEF RenameVersionsReady
    <3> QED
      BY <1>2, <1>3, <3>1 DEF RenameSegmentsReady, HasVersion
  <2>2. \/ Parted(call[t].path)' /\ Parted(call[t].to)'
        \/ RenameSegmentsReady(t)'
    BY <1>3, <2>1 DEF Parted, Excused
  <2> QED
    BY <1>3, <1>4, <2>2 DEF RenameReady, At, RenamePC, DirPC
<1>9. VersionRecorded'
  <2> SUFFICES ASSUME NEW r \in fileSystem
               PROVE  \/ HasVersion(r.path, r.current_version)'
                      \/ \E u \in Threads : /\ call'[u].pc = "release_version"
                                            /\ call'[u].path = r.path
                                            /\ call'[u].ver = r.current_version
                      \/ Parted(r.path)'
    BY <1>2 DEF VersionRecorded, At, Parted
  <2>1. r.path \in Path
    BY DEF TypeOK, SystemRow
  <2>2. CASE r.path = p \/ r.path = q
    BY <1>1, <1>6, <2>2 DEF RenameVersionsReady, Parted, Excused, HasVersion
  <2>3. CASE r.path # p /\ r.path # q
    <3>1. \A u \in Threads : call[u].pc = "rename_versions" => call[u].to # r.path
      BY <1>1, <1>4, <2>3 DEF DirPC, RenamePC
    <3>2. \A u \in Threads : call[u].pc = "release_version" => call'[u] = call[u]
      BY <1>0, <1>3
    <3> QED
      BY <1>5, <2>1, <2>3, <3>1, <3>2 DEF TableInv, VersionRecorded, At, Parted
  <2> QED
    BY <2>2, <2>3
<1>10. SegmentVersionRecorded'
  <2> SUFFICES ASSUME NEW s \in fileSegments
               PROVE  \/ HasVersion(s.path, s.version)'
                      \/ s.path = p
                      \/ Parted(s.path)'
    BY <1>2, <1>3 DEF SegmentVersionRecorded, At, Parted
  <2>1. s.path \in Path
    BY DEF TypeOK, SegmentRow
  <2>2. CASE s.path = q
    BY <1>1, <1>6, <2>2 DEF RenameVersionsReady, Parted, Excused
  <2>3. CASE s.path # p /\ s.path # q
    <3>1. \A u \in Threads : call[u].pc # "rename_segments"
      BY <1>0, <1>4 DEF DirPC, RenamePC
    <3> QED
      BY <1>5, <2>1, <2>3, <3>1 DEF TableInv, SegmentVersionRecorded, At, Parted
  <2> QED
    BY <2>2, <2>3
<1> QED
  BY <1>7, <1>8, <1>9, <1>10 DEF TableInv

LEMMA RenameSegmentsTables ==
    ASSUME TypeOK, Locks, TableInv, NEW t \in Threads, RenameSegments(t),
           \A x \in Path : Parted(x) => Parted(x)'
    PROVE  TableInv'
<1>0. call[t].pc = "rename_segments"
  BY DEF RenameSegments, At
<1>1. PICK p \in Path, q \in Path : call[t].path = p /\ call[t].to = q
  BY <1>0, ActiveCall
<1>2. /\ Goto(t, "rename_file")
      /\ UNCHANGED <<fileSystem, fileVersions>>
      /\ Mark({p, q}, Lost)
      /\ fileSegments' = Commit(fileSegments,
             UpdatePath(fileSegments, p, q, SegmentClash(p, q)))
  BY <1>1 DEF RenameSegments
<1>3. /\ \A u \in Threads : u # t => call'[u] = call[u]
      /\ call'[t].pc = "rename_file"
  BY <1>0, <1>1, <1>2, GotoEffect
<1>4. \A u \in Threads : u # t => call[u].pc \notin DirPC
  BY <1>0, <1>1 DEF Locks, DirExclusive, DirPC, RenamePC
<1>m. \A x, w : HasVersion(x, w) = HasVersion(x, w)'
  BY <1>2 DEF HasVersion
<1>p. \A u \in Threads : call[u].pc # "idle" => call[u].path \in Path
  BY ActiveCall
<1>q. \A x \in Path : Parted(x) => Parted(x)'
  OBVIOUS
<1>5. CallRecorded'
  BY <1>3, <1>m, <1>p, <1>q DEF TableInv, CallRecorded, HasVersion, Parted, Excused
<1>6. RenameReady'
  BY <1>3, <1>4 DEF RenameReady, At, RenamePC, DirPC
<1>7. VersionRecorded'
  <2>1. \A r \in fileSystem : Parted(r.path) => Parted(r.path)'
    BY DEF TypeOK, SystemRow, Parted, Excused
  <2>2. \A u \in Threads : call[u].pc \in {"release_version", "rename_versions"} =>
                               call'[u] = call[u]
    BY <1>0, <1>3
  <2> QED
    BY <1>2, <1>m, <2>1, <2>2 DEF TableInv, VersionRecorded, At, Parted
<1>8. SegmentVersionRecorded'
  <2>1. \/ Parted(p)' /\ Parted(q)'
        \/ ~readLock /\ RenameSegmentsReady(t)
    <3>1. readLock => Parted(p)' /\ Parted(q)'
      BY <1>2, LostParts
    <3> QED
      BY <1>0, <1>1, <3>1 DEF TableInv, RenameReady, At, Parted, Excused
  <2>2. \A s \in fileSegments :
           HasVersion(s.path, s.version)' \/ s.path = p \/ Parted(s.path)'
    <3>1. \A s \in fileSegments : Parted(s.path) => Parted(s.path)'
      BY DEF TypeOK, SegmentRow, Parted, Excused
    <3>2. \A u \in Threads : call[u].pc = "rename_segments" => call[u].path = p
      BY <1>1, <1>4 DEF DirPC, RenamePC
    <3> QED
      BY <1>m, <3>1, <3>2 DEF TableInv, SegmentVersionRecorded, At, Parted
  <2>3. ASSUME Parted(p)', Parted(q)'
        PROVE  \A s \in fileSegments' : HasVersion(s.path, s.version)' \/ Parted(s.path)'
    <3>1. \A s \in fileSegments' : s \in fileSegments \/ s.path = q
      BY <1>2 DEF Commit, UpdatePath, TypeOK, SegmentRow
    <3> QED
      BY <2>2, <2>3, <3>1 DEF Parted, Excused
  <2>4. ASSUME ~readLock, RenameSegmentsReady(t)
        PROVE  \A s \in fileSegments' : HasVersion(s.path, s.version)' \/ Parted(s.path)'
    <3>1. ~SegmentClash(p, q)
      BY <1>1, <2>4 DEF RenameSegmentsReady, SegmentClash
    <3>2. \A s \in fileSegments' :
             \/ s \in fileSegments /\ s.path # p
             \/ \E o \in fileSegments : /\ o.path = p /\ s.path = q
                                        /\ s.version = o.version
      BY <1>2, <2>4, <3>1 DEF Commit, UpdatePath, TypeOK, SegmentRow
    <3>3. \A o \in fileSegments : o.path = p => HasVersion(q, o.version)'
      BY <1>1, <1>m, <2>4 DEF RenameSegmentsReady
    <3> QED
      BY <2>2, <3>2, <3>3 DEF HasVersion
  <2> QED
    BY <2>1, <2>3, <2>4 DEF SegmentVersionRecorded, Parted
<1> QED
  BY <1>5, <1>6, <1>7, <1>8 DEF TableInv

-----------------------------------------------------------------------------
(* VersionInv is inductive. *)

LEMMA NextTables ==
    ASSUME TypeOK, Locks, TableInv, [Next]_vars
    PROVE  TableInv'
<1>1. \A p \in Path : Parted(p) => Parted(p)'
  BY BlemishGrows
<1>2. ASSUME UNCHANGED tables, UNCHANGED call PROVE TableInv'
  BY <1>1, <1>2, StillTables
<1>3. ASSUME NEW t \in Threads, Continue(t) PROVE TableInv'
  <2>1. CASE MknodVersion(t)
    BY <1>1, <2>1, MknodVersionTables
  <2>2. CASE MknodRow(t)
    BY <1>1, <2>2, MknodRowTables
  <2>3. CASE ReleaseUpdate(t)
    BY <1>1, <2>3, ReleaseUpdateTables
  <2>4. CASE ReleaseVersion(t)
    BY <1>1, <2>4, ReleaseVersionTables
  <2>5. CASE ReleaseSign(t)
    BY <1>1, <2>5, ReleaseSignTables
  <2>6. CASE RenameVersions(t)
    BY <1>1, <2>6, RenameVersionsTables
  <2>7. CASE RenameSegments(t)
    BY <1>1, <2>7, RenameSegmentsTables
  <2>8. CASE \/ MknodCreate(t) \/ MknodFails(t)
             \/ ReleaseUpdateLost(t) \/ ReleaseOpen(t) \/ ReleaseRead(t)
             \/ ReleaseFails(t)
             \/ UnlinkAgain(t) \/ UnlinkFile(t) \/ UnlinkFails(t)
             \/ RenameFile(t) \/ RenameFails(t)
    BY <1>1, <2>8, QuietContinue, QuietTables
  <2> QED
    BY <1>3, <2>1, <2>2, <2>3, <2>4, <2>5, <2>6, <2>7, <2>8 DEF Continue
<1>4. ASSUME NEW t \in Threads, Accept(t) PROVE TableInv'
  <2>1. ASSUME NEW p \in Path,
               \/ MknodSelect(t, p) \/ UnlinkEntry(t, p)
               \/ ReleaseSelect(t, p) /\ call' # call
        PROVE  TableInv'
    BY <1>1, <2>1, QuietAccept, QuietTables
  <2>2. ASSUME NEW p \in Path, ReleaseSelect(t, p), call' = call PROVE TableInv'
    BY <1>2, <2>2 DEF ReleaseSelect
  <2>3. ASSUME NEW p \in Path,
               \/ CreateSymlink(t, p) \/ OpenForWrite(t, p)
               \/ \E off \in 0..(MaxLen - 1), b \in Byte : Write(t, p, off, b)
               \/ \E n \in 0..MaxLen : Truncate(t, p, n)
        PROVE  TableInv'
    BY <1>2, <2>3 DEF CreateSymlink, OpenForWrite, Write, Truncate
  <2>4. ASSUME NEW p \in Path, NEW q \in Path, RenameSystem(t, p, q) PROVE TableInv'
    BY <1>1, <2>4, RenameSystemTables
  <2> QED
    BY <1>4, <2>1, <2>2, <2>3, <2>4 DEF Accept
<1>5. ASSUME World PROVE TableInv'
  <2>1. CASE Crash
    BY <1>1, <2>1, CrashTables
  <2>2. CASE Tick \/ ServerLocks \/ ServerUnlocks
    BY <1>2, <2>2 DEF Tick, ServerLocks, ServerUnlocks
  <2> QED
    BY <1>5, <2>1, <2>2 DEF World
<1> QED
  BY <1>2, <1>3, <1>4, <1>5 DEF Next, vars, tables

LEMMA VersionInvariant == Spec => []VersionInv
<1>1. VersionInv /\ [Next]_vars => VersionInv'
  <2> SUFFICES ASSUME VersionInv, [Next]_vars PROVE VersionInv'
    OBVIOUS
  <2>1. TypeOK /\ Locks /\ TableInv
    BY DEF VersionInv, Locks, TableInv
  <2>2. TypeOK'
    BY <2>1, TypePreserved
  <2>3. Locks'
    BY <2>1, NextLocks
  <2>4. TableInv'
    BY <2>1, NextTables
  <2> QED
    BY <2>2, <2>3, <2>4 DEF VersionInv, Locks, TableInv
<1> QED
  BY VersionInit, <1>1, PTL DEF Spec

(***************************************************************************)
(* The current version of every row is a recorded version, whatever mknod, *)
(* release, unlink and rename of any number of threads interleave: only a  *)
(* lost statement, a crash or a rename onto a name the tables still know   *)
(* parts the two tables.                                                   *)
(***************************************************************************)
THEOREM VersionsRecorded == Spec => []VersionRecorded
<1>1. VersionInv => VersionRecorded
  BY DEF VersionInv
<1> QED
  BY VersionInvariant, <1>1, PTL

(***************************************************************************)
(* No signature is stored under a version its file does not have, with the *)
(* same exceptions.                                                        *)
(***************************************************************************)
THEOREM SegmentVersionsRecorded == Spec => []SegmentVersionRecorded
<1>1. VersionInv => SegmentVersionRecorded
  BY DEF VersionInv
<1> QED
  BY VersionInvariant, <1>1, PTL

=============================================================================
