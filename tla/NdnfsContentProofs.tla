------------------------- MODULE NdnfsContentProofs -------------------------
(***************************************************************************)
(* The signed segments of a version have no gap for any number of threads. *)
(* With one thread they are those of the file on disk, the ones of older   *)
(* versions stay, and the current version is the latest.                   *)
(***************************************************************************)
EXTENDS NdnfsProofs

-----------------------------------------------------------------------------
(***************************************************************************)
(* SegmentsContiguous is not inductive: it says nothing of the segment the *)
(* signing loop will store next, nor of a lost INSERT while a rename has   *)
(* moved some tables and not others.  ContiguousInv adds both.             *)
(***************************************************************************)

HasSegment(p, v, n) ==
    \E s \in fileSegments : s.path = p /\ s.version = v /\ s.segment = n

Gap(p) == "gap" \in blemish[p]

\* Below segment n of a version there is another one, if there is a below.
Founded(p, v, n) == n = 0 \/ HasSegment(p, v, n - 1) \/ Gap(p)

Contiguous ==
    /\ \A s \in fileSegments : Founded(s.path, s.version, s.segment)
    /\ \A t \in Threads : call[t].pc \in ReleasePC =>
                              Founded(call[t].path, call[t].ver, call[t].seg)
    /\ \A t \in Threads : call[t].pc \in RenamePC /\ Gap(call[t].path) =>
                              Gap(call[t].to)

ContiguousInv == TypeOK /\ Locks /\ Contiguous

LEMMA ContiguousImplies == Contiguous => SegmentsContiguous
BY DEF Contiguous, Founded, HasSegment, Gap, SegmentsContiguous, Excused

-----------------------------------------------------------------------------
(* Where the loop stands, and which names have a gap. *)

LEMMA GotoSegment ==
    ASSUME TypeOK, NEW t \in Threads, call[t].pc # "idle", NEW pc, Goto(t, pc)
    PROVE  call'[t].seg = call[t].seg /\ call'[t].buf = call[t].buf
<1>1. call[t] \in Call
  BY ActiveCall
<1>2. call'[t] = [call[t] EXCEPT !.pc = pc]
  BY DEF Goto, TypeOK
<1> QED
  BY <1>1, <1>2 DEF Call

LEMMA MarkGap ==
    ASSUME TypeOK, NEW ps, NEW faults, Mark(ps, faults), "gap" \notin faults
    PROVE  \A x \in Path : Gap(x)' <=> Gap(x)
BY DEF Mark, Gap, TypeOK

\* What the steps other than a signature and the start of a rename do to the gaps.
GapsKept == \A x \in Path : Gap(x)' <=> Gap(x)

LEMMA ContinueGaps ==
    ASSUME TypeOK, NEW t \in Threads, Continue(t), ~ReleaseSign(t)
    PROVE  GapsKept
<1>1. "gap" \notin Lost
  BY DEF Lost
<1>2. CASE \/ MknodVersion(t) \/ MknodRow(t) \/ MknodFails(t) \/ ReleaseVersion(t)
           \/ UnlinkAgain(t) \/ UnlinkFails(t)
           \/ RenameVersions(t) \/ RenameSegments(t) \/ RenameFails(t)
  <2>1. \E ps : Mark(ps, Lost) \/ Mark(ps, {"io"})
    BY <1>2 DEF MknodVersion, MknodRow, MknodFails, ReleaseVersion,
       UnlinkAgain, UnlinkFails, RenameVersions, RenameSegments, RenameFails
  <2> QED
    BY <1>1, <2>1, MarkGap DEF GapsKept
<1>3. CASE \/ MknodCreate(t) \/ ReleaseUpdate(t) \/ ReleaseUpdateLost(t)
           \/ ReleaseOpen(t) \/ ReleaseRead(t) \/ ReleaseFails(t)
           \/ UnlinkFile(t) \/ RenameFile(t)
  <2>1. blemish' = blemish
    BY <1>3 DEF MknodCreate, ReleaseUpdate, ReleaseUpdateLost, ReleaseOpen,
       ReleaseRead, ReleaseFails, UnlinkFile, RenameFile, history
  <2> QED
    BY <2>1 DEF GapsKept, Gap
<1> QED
  BY <1>2, <1>3 DEF Continue

\* A step that stores no signature, moves none, and leaves the loops where they are or
\* starts one.
LEMMA ContiguousStill ==
    ASSUME TypeOK, Contiguous, fileSegments' = fileSegments, GapsKept,
           NEW t \in Threads,
           \A u \in Threads : u # t => call'[u] = call[u],
           call'[t].pc \in ReleasePC =>
               \/ call'[t].seg = 0
               \/ /\ call[t].pc \in ReleasePC
                  /\ call'[t].path = call[t].path
                  /\ call'[t].ver = call[t].ver
                  /\ call'[t].seg = call[t].seg,
           call'[t].pc \in RenamePC =>
               /\ call[t].pc \in RenamePC
               /\ call'[t].path = call[t].path
               /\ call'[t].to = call[t].to
    PROVE  Contiguous'
<1>1. \A x, v, n : x \in Path /\ Founded(x, v, n) => Founded(x, v, n)'
  BY DEF Founded, HasSegment, GapsKept, Gap
<1>2. ASSUME NEW s \in fileSegments PROVE Founded(s.path, s.version, s.segment)'
  <2>1. s.path \in Path
    BY DEF TypeOK, SegmentRow
  <2>2. Founded(s.path, s.version, s.segment)
    BY DEF Contiguous
  <2> QED
    BY <1>1, <2>1, <2>2
<1>3. ASSUME NEW u \in Threads, call'[u].pc \in ReleasePC
      PROVE  Founded(call[u].path, call[u].ver, call[u].seg)'
  <2>1. CASE call'[u].seg = 0
    BY <2>1 DEF Founded
  <2>2. CASE call'[u].seg # 0
    <3>1. /\ call[u].pc \in ReleasePC /\ call'[u].path = call[u].path
          /\ call'[u].ver = call[u].ver /\ call'[u].seg = call[u].seg
      BY <1>3, <2>2
    <3>2. PICK x \in Path, v \in Nat, n \in Nat :
              call[u].path = x /\ call[u].ver = v /\ call[u].seg = n
      BY <3>1, ActiveCall DEF ReleasePC
    <3>3. Founded(x, v, n)'
      BY <1>1, <3>1, <3>2 DEF Contiguous
    <3> QED
      BY <3>1, <3>2, <3>3 DEF Founded, HasSegment, Gap
  <2> QED
    BY <2>1, <2>2
<1>4. ASSUME NEW u \in Threads, call'[u].pc \in RenamePC, Gap(call[u].path)'
      PROVE  Gap(call[u].to)'
  <2>1. /\ call[u].pc \in RenamePC /\ call'[u].path = call[u].path
        /\ call'[u].to = call[u].to
    BY <1>4
  <2>2. call[u].path \in Path /\ call[u].to \in Path
    BY <2>1, ActiveCall DEF RenamePC
  <2> QED
    BY <1>4, <2>1, <2>2 DEF Contiguous, GapsKept, Gap
<1> QED
  BY <1>2, <1>3, <1>4 DEF Contiguous

-----------------------------------------------------------------------------
(* The steps that matter to it *)

LEMMA OtherContiguous ==
    ASSUME TypeOK, Contiguous, NEW t \in Threads, Continue(t),
           ~ReleaseSign(t), ~RenameSegments(t)
    PROVE  Contiguous'
<1>1. GapsKept
  BY ContinueGaps
<1>2. fileSegments' = fileSegments
  BY DEF Continue, MknodVersion, MknodRow, MknodCreate, MknodFails,
     ReleaseUpdate, ReleaseUpdateLost, ReleaseVersion, ReleaseOpen, ReleaseRead,
     ReleaseFails, UnlinkAgain, UnlinkFile, UnlinkFails,
     RenameVersions, RenameFile, RenameFails, tables
<1>3. CASE \/ ReleaseUpdate(t) \/ ReleaseVersion(t) \/ ReleaseOpen(t)
  <2>1. PICK pc \in {"release_version", "release_open", "release_read"} :
            Goto(t, pc) /\ call[t].pc \in ReleasePC /\ call[t].pc # "idle"
    BY <1>3 DEF ReleaseUpdate, ReleaseVersion, ReleaseOpen, At, ReleasePC
  <2>2. /\ \A u \in Threads : u # t => call'[u] = call[u]
        /\ call'[t].pc = pc /\ call'[t].path = call[t].path
        /\ call'[t].ver = call[t].ver /\ call'[t].seg = call[t].seg
    BY <2>1, GotoEffect, GotoSegment
  <2>3. call'[t].pc \notin RenamePC
    BY <2>2 DEF RenamePC
  <2> QED
    BY <1>1, <1>2, <2>1, <2>2, <2>3, ContiguousStill
<1>4. CASE ReleaseRead(t)
  <2>1. PICK buf : Loop(t, "release_sign", call[t].seg, buf) /\ call[t].pc \in ReleasePC
    BY <1>4 DEF ReleaseRead, At, ReleasePC
  <2>2. /\ \A u \in Threads : u # t => call'[u] = call[u]
        /\ call'[t].pc = "release_sign" /\ call'[t].path = call[t].path
        /\ call'[t].ver = call[t].ver /\ call'[t].seg = call[t].seg
    BY <2>1 DEF Loop, TypeOK
  <2>3. call'[t].pc \notin RenamePC
    BY <2>2 DEF RenamePC
  <2> QED
    BY <1>1, <1>2, <2>1, <2>2, <2>3, ContiguousStill
<1>5. CASE MknodVersion(t) \/ MknodRow(t) \/ UnlinkAgain(t) \/ RenameVersions(t)
  <2>1. PICK pc \in {"mknod_row", "mknod_create", "unlink_file", "rename_segments"} :
            /\ Goto(t, pc) /\ call[t].pc # "idle"
            /\ pc = "rename_segments" => call[t].pc \in RenamePC
    BY <1>5 DEF MknodVersion, MknodRow, UnlinkAgain, RenameVersions, At, RenamePC
  <2>2. /\ \A u \in Threads : u # t => call'[u] = call[u]
        /\ call'[t].pc = pc /\ call'[t].path = call[t].path /\ call'[t].to = call[t].to
    BY <2>1, GotoEffect
  <2>3. pc \notin ReleasePC /\ (pc \in RenamePC => pc = "rename_segments")
    BY DEF ReleasePC, RenamePC
  <2> QED
    BY <1>1, <1>2, <2>1, <2>2, <2>3, ContiguousStill
<1>6. CASE \/ MknodCreate(t) \/ MknodFails(t) \/ ReleaseUpdateLost(t)
           \/ ReleaseFails(t) \/ UnlinkFile(t) \/ UnlinkFails(t)
           \/ RenameFile(t) \/ RenameFails(t)
  <2>1. Return(t)
    BY <1>6 DEF MknodCreate, MknodFails, ReleaseUpdateLost, ReleaseFails,
       UnlinkFile, UnlinkFails, RenameFile, RenameFails
  <2>2. "idle" \notin ReleasePC /\ "idle" \notin RenamePC
    BY DEF ReleasePC, RenamePC
  <2> QED
    BY <1>1, <1>2, <2>1, <2>2, ReturnEffect, ContiguousStill
<1> QED
  BY <1>3, <1>4, <1>5, <1>6 DEF Continue

LEMMA SignContiguous ==
    ASSUME TypeOK, Locks, Contiguous, NEW t \in Threads, ReleaseSign(t)
    PROVE  Contiguous'
<1>0. call[t].pc = "release_sign" /\ call[t].pc \in ReleasePC
  BY DEF ReleaseSign, At, ReleasePC
<1>1. PICK p \in Path, v \in Nat, n \in Nat :
          call[t].path = p /\ call[t].ver = v /\ call[t].seg = n
  BY <1>0, ActiveCall
<1>2. /\ fileSegments' = Commit(fileSegments, InsertOrReplace(fileSegments, SignedRow(call[t])))
      /\ Mark({p}, IF readLock THEN {"gap"} ELSE {})
  BY <1>1 DEF ReleaseSign
<1>3. /\ \A x \in Path : Gap(x) => Gap(x)'
      /\ \A x \in Path : x # p => (Gap(x)' <=> Gap(x))
      /\ readLock => Gap(p)'
  BY <1>2 DEF Mark, Gap, TypeOK
<1>4. /\ SignedRow(call[t]).path = p /\ SignedRow(call[t]).version = v
      /\ SignedRow(call[t]).segment = n
  BY <1>1 DEF SignedRow
<1>5. \A x, w, m : HasSegment(x, w, m) => HasSegment(x, w, m)'
  <2> DEFINE row == SignedRow(call[t])
  <2> HIDE DEF row
  <2>1. fileSegments' = IF readLock THEN fileSegments
                        ELSE {s \in fileSegments : \/ s.path # row.path
                                                   \/ s.version # row.version
                                                   \/ s.segment # row.segment} \cup {row}
    BY <1>2 DEF row, Commit, InsertOrReplace
  <2> QED
    BY <2>1 DEF HasSegment
<1>6. Gap(p)' \/ HasSegment(p, v, n)'
  <2> DEFINE row == SignedRow(call[t])
  <2>1. ~readLock => row \in fileSegments'
    BY <1>2 DEF Commit, InsertOrReplace
  <2> QED
    BY <1>3, <1>4, <2>1 DEF HasSegment
<1>7. \A x, w, m : x \in Path /\ Founded(x, w, m) => Founded(x, w, m)'
  BY <1>3, <1>5 DEF Founded
<1>8. Founded(p, v, n)
  BY <1>0, <1>1 DEF Contiguous
<1>9. ASSUME NEW s \in fileSegments' PROVE Founded(s.path, s.version, s.segment)'
  <2>1. CASE s \in fileSegments
    <3>1. s.path \in Path /\ Founded(s.path, s.version, s.segment)
      BY <2>1 DEF TypeOK, SegmentRow, Contiguous
    <3> QED
      BY <1>7, <3>1
  <2>2. CASE s \notin fileSegments
    <3>1. s = SignedRow(call[t])
      BY <1>2, <2>2 DEF Commit, InsertOrReplace
    <3>2. s.path = p /\ s.version = v /\ s.segment = n
      BY <1>4, <3>1
    <3> QED
      BY <1>7, <1>8, <3>2
  <2> QED
    BY <2>1, <2>2
<1>10. ASSUME NEW u \in Threads, call'[u].pc \in ReleasePC
       PROVE  Founded(call[u].path, call[u].ver, call[u].seg)'
  <2>1. CASE u = t
    <3>1. Loop(t, "release_read", n + 1, <<>>)
      <4>1. ~Return(t)
        BY <1>10, <2>1, ReturnEffect DEF ReleasePC
      <4> QED
        BY <1>1, <4>1 DEF ReleaseSign, NextSegment
    <3>2. call'[t].path = p /\ call'[t].ver = v /\ call'[t].seg = n + 1
      BY <1>1, <3>1 DEF Loop, TypeOK
    <3>3. Founded(p, v, n + 1)'
      BY <1>6 DEF Founded
    <3> QED
      BY <2>1, <3>2, <3>3 DEF Founded, HasSegment, Gap
  <2>2. CASE u # t
    <3>1. call'[u] = call[u]
      BY <2>2, ReturnEffect, LoopEffect DEF ReleaseSign
    <3>2. PICK x \in Path, w \in Nat, m \in Nat :
              call[u].path = x /\ call[u].ver = w /\ call[u].seg = m
      BY <1>10, <3>1, ActiveCall DEF ReleasePC
    <3>3. Founded(x, w, m)'
      BY <1>7, <1>10, <3>1, <3>2 DEF Contiguous
    <3> QED
      BY <3>1, <3>2, <3>3 DEF Founded, HasSegment, Gap
  <2> QED
    BY <2>1, <2>2
<1>11. ASSUME NEW u \in Threads, call'[u].pc \in RenamePC, Gap(call[u].path)'
       PROVE  Gap(call[u].to)'
  <2>1. u # t /\ call'[u] = call[u]
    BY <1>11, ReturnEffect, LoopEffect DEF ReleaseSign, RenamePC
  <2>2. call[u].path \in Path /\ call[u].to \in Path /\ call[u].path # p
    BY <1>0, <1>1, <1>11, <2>1, ActiveCall DEF RenamePC, Locks, RenameAlone
  <2>3. Gap(call[u].path)
    BY <1>3, <1>11, <2>1, <2>2 DEF Gap
  <2> QED
    BY <1>3, <1>11, <2>1, <2>2, <2>3 DEF Contiguous, Gap
<1> QED
  BY <1>9, <1>10, <1>11 DEF Contiguous

LEMMA RenameContiguous ==
    ASSUME TypeOK, Locks, Contiguous, NEW t \in Threads, RenameSegments(t)
    PROVE  Contiguous'
<1>0. call[t].pc = "rename_segments" /\ call[t].pc \in RenamePC
  BY DEF RenameSegments, At, RenamePC
<1>1. PICK p \in Path, q \in Path : call[t].path = p /\ call[t].to = q
  BY <1>0, ActiveCall
<1>2. /\ fileSegments' = Commit(fileSegments,
             UpdatePath(fileSegments, p, q, SegmentClash(p, q)))
      /\ Goto(t, "rename_file")
  BY <1>1 DEF RenameSegments
<1>3. GapsKept
  <2>1. Continue(t) /\ ~ReleaseSign(t)
    BY <1>0 DEF Continue, ReleaseSign, At
  <2> QED
    BY <2>1, ContinueGaps
<1>4. /\ \A u \in Threads : u # t => call'[u] = call[u]
      /\ call'[t].pc = "rename_file" /\ call'[t].path = p /\ call'[t].to = q
  BY <1>0, <1>1, <1>2, GotoEffect
<1>5. CASE fileSegments' = fileSegments
  <2>1. call'[t].pc \notin ReleasePC
    BY <1>4 DEF ReleasePC
  <2> QED
    BY <1>0, <1>1, <1>3, <1>4, <1>5, <2>1, ContiguousStill
<1>6. CASE fileSegments' = {IF r.path = p THEN [r EXCEPT !.path = q] ELSE r :
                               r \in fileSegments}
  <2>1. \A r \in fileSegments : /\ [r EXCEPT !.path = q].path = q
                                /\ [r EXCEPT !.path = q].version = r.version
                                /\ [r EXCEPT !.path = q].segment = r.segment
    BY DEF TypeOK, SegmentRow
  <2>2. \A x, v, n : x # p /\ HasSegment(x, v, n) => HasSegment(x, v, n)'
    BY <1>6 DEF HasSegment
  <2>3. \A v, n : HasSegment(p, v, n) => HasSegment(q, v, n)'
    BY <1>6, <2>1 DEF HasSegment
  <2>4. \A x, v, n : x \in Path /\ x # p /\ Founded(x, v, n) => Founded(x, v, n)'
    BY <1>3, <2>2 DEF Founded, GapsKept
  <2>5. Gap(p) => Gap(q)'
    BY <1>0, <1>1, <1>3 DEF Contiguous, GapsKept
  <2>6. \A v, n : Founded(p, v, n) => Founded(q, v, n)'
    BY <2>3, <2>5 DEF Founded
  <2>7. ASSUME NEW s \in fileSegments' PROVE Founded(s.path, s.version, s.segment)'
    <3>1. PICK r \in fileSegments : s = IF r.path = p THEN [r EXCEPT !.path = q] ELSE r
      BY <1>6
    <3>2. r.path \in Path /\ Founded(r.path, r.version, r.segment)
      BY DEF TypeOK, SegmentRow, Contiguous
    <3>3. CASE r.path = p
      <4>1. s.path = q /\ s.version = r.version /\ s.segment = r.segment
        BY <2>1, <3>1, <3>3
      <4> QED
        BY <2>6, <3>2, <3>3, <4>1
    <3>4. CASE r.path # p
      BY <2>4, <3>1, <3>2, <3>4
    <3> QED
      BY <3>3, <3>4
  <2>8. ASSUME NEW u \in Threads, call'[u].pc \in ReleasePC
        PROVE  Founded(call[u].path, call[u].ver, call[u].seg)'
    <3>1. call'[u] = call[u]
      BY <1>4, <2>8 DEF ReleasePC
    <3>2. PICK x \in Path, w \in Nat, m \in Nat :
              call[u].path = x /\ call[u].ver = w /\ call[u].seg = m
      BY <2>8, <3>1, ActiveCall DEF ReleasePC
    <3>3. x # p
      BY <1>0, <1>1, <2>8, <3>1, <3>2 DEF Locks, RenameAlone
    <3>4. Founded(x, w, m)'
      BY <2>4, <2>8, <3>1, <3>2, <3>3 DEF Contiguous
    <3> QED
      BY <3>1, <3>2, <3>4 DEF Founded, HasSegment, Gap
  <2>9. ASSUME NEW u \in Threads, call'[u].pc \in RenamePC, Gap(call[u].path)'
        PROVE  Gap(call[u].to)'
    <3>1. /\ call[u].pc \in RenamePC
          /\ call'[u].path = call[u].path /\ call'[u].to = call[u].to
      BY <1>0, <1>1, <1>4, <2>9
    <3>2. call[u].path \in Path /\ call[u].to \in Path
      BY <3>1, ActiveCall DEF RenamePC
    <3> QED
      BY <1>3, <2>9, <3>1, <3>2 DEF Contiguous, GapsKept, Gap
  <2> QED
    BY <2>7, <2>8, <2>9 DEF Contiguous
<1> QED
  BY <1>2, <1>5, <1>6 DEF Commit, UpdatePath

LEMMA RenameSystemContiguous ==
    ASSUME TypeOK, Locks, Contiguous, NEW t \in Threads, NEW p \in Path, NEW q \in Path,
           RenameSystem(t, p, q)
    PROVE  Contiguous'
<1> DEFINE faults == blemish[p] \cup blemish[q] \cup Lost \cup
                         (IF Known(q) THEN {"collide"} ELSE {})
<1>1. /\ fileSegments' = fileSegments /\ Begin(t, "rename_versions", p, q)
      /\ \A u \in Threads : call[u].pc \notin DirPC
      /\ Mark({p, q}, faults)
  BY DEF RenameSystem, DirLocked
<1>2. "gap" \in faults <=> Gap(p) \/ Gap(q)
  BY DEF Gap, Lost
<1> HIDE DEF faults
<1>3. /\ \A x \in Path : Gap(x) => Gap(x)'
      /\ Gap(p)' => Gap(q)'
  BY <1>1, <1>2 DEF Mark, Gap, TypeOK
<1>4. /\ \A u \in Threads : u # t => call'[u] = call[u]
      /\ call'[t].pc = "rename_versions" /\ call'[t].path = p /\ call'[t].to = q
  BY <1>1, BeginEffect
<1>5. \A x, v, n : x \in Path /\ Founded(x, v, n) => Founded(x, v, n)'
  BY <1>1, <1>3 DEF Founded, HasSegment
<1>6. ASSUME NEW s \in fileSegments' PROVE Founded(s.path, s.version, s.segment)'
  <2>1. s \in fileSegments /\ s.path \in Path
    BY <1>1 DEF TypeOK, SegmentRow
  <2> QED
    BY <1>5, <2>1 DEF Contiguous
<1>7. ASSUME NEW u \in Threads, call'[u].pc \in ReleasePC
      PROVE  Founded(call[u].path, call[u].ver, call[u].seg)'
  <2>1. call'[u] = call[u]
    BY <1>4, <1>7 DEF ReleasePC
  <2>2. PICK x \in Path, w \in Nat, m \in Nat :
            call[u].path = x /\ call[u].ver = w /\ call[u].seg = m
    BY <1>7, <2>1, ActiveCall DEF ReleasePC
  <2>3. Founded(x, w, m)'
    BY <1>5, <1>7, <2>1, <2>2 DEF Contiguous
  <2> QED
    BY <2>1, <2>2, <2>3 DEF Founded, HasSegment, Gap
<1>8. ASSUME NEW u \in Threads, call'[u].pc \in RenamePC, Gap(call[u].path)'
      PROVE  Gap(call[u].to)'
  <2>1. u = t
    BY <1>1, <1>4, <1>8 DEF DirPC
  <2> QED
    BY <1>3, <1>4, <1>8, <2>1 DEF Gap
<1> QED
  BY <1>6, <1>7, <1>8 DEF Contiguous

-----------------------------------------------------------------------------
(* ContiguousInv is inductive. *)

LEMMA NextContiguous ==
    ASSUME TypeOK, Locks, Contiguous, [Next]_vars
    PROVE  Contiguous'
<1>1. ASSUME fileSegments' = fileSegments, blemish' = blemish, call' = call
      PROVE  Contiguous'
  BY <1>1 DEF Contiguous, Founded, HasSegment, Gap
<1>2. ASSUME NEW t \in Threads, Continue(t) PROVE Contiguous'
  BY <1>2, OtherContiguous, SignContiguous, RenameContiguous
<1>3. ASSUME NEW t \in Threads, Accept(t) PROVE Contiguous'
  <2>1. ASSUME NEW p \in Path,
               \/ CreateSymlink(t, p) \/ OpenForWrite(t, p)
               \/ \E off \in 0..(MaxLen - 1), b \in Byte : Write(t, p, off, b)
               \/ \E n \in 0..MaxLen : Truncate(t, p, n)
               \/ ReleaseSelect(t, p) /\ call' = call
        PROVE  Contiguous'
    BY <1>1, <2>1 DEF CreateSymlink, OpenForWrite, Write, Truncate, ReleaseSelect,
       tables, history
  <2>2. ASSUME NEW p \in Path,
               \/ MknodSelect(t, p) \/ UnlinkEntry(t, p)
               \/ ReleaseSelect(t, p) /\ call' # call
        PROVE  Contiguous'
    <3>1. PICK pc \in {"mknod_version", "unlink_again", "release_update"} :
              Begin(t, pc, p, p)
      BY <2>2 DEF MknodSelect, UnlinkEntry, ReleaseSelect
    <3>2. fileSegments' = fileSegments
      BY <2>2 DEF MknodSelect, UnlinkEntry, ReleaseSelect, tables
    <3>3. blemish' = blemish \/ Mark({p}, Lost)
      BY <2>2 DEF MknodSelect, UnlinkEntry, ReleaseSelect, history
    <3>4. GapsKept
      BY <3>3, MarkGap DEF GapsKept, Gap, Lost
    <3>5. call'[t].seg = 0
      BY <3>1 DEF Begin, TypeOK
    <3>6. call'[t].pc \notin RenamePC
      BY <3>1, BeginEffect DEF RenamePC
    <3> QED
      BY <3>1, <3>2, <3>4, <3>5, <3>6, BeginEffect, ContiguousStill
  <2>3. ASSUME NEW p \in Path, NEW q \in Path, RenameSystem(t, p, q) PROVE Contiguous'
    BY <2>3, RenameSystemContiguous
  <2> QED
    BY <1>3, <2>1, <2>2, <2>3 DEF Accept
<1>4. ASSUME Crash PROVE Contiguous'
  <2>1. /\ fileSegments' = fileSegments
        /\ \A u \in Threads : call'[u].pc = "idle"
        /\ Mark({x \in Path : InUse(x)}, {"crash"})
    BY <1>4 DEF Crash, tables, IdleCall
  <2>2. GapsKept
    BY <2>1, MarkGap DEF GapsKept
  <2>3. ASSUME NEW s \in fileSegments PROVE Founded(s.path, s.version, s.segment)'
    <3>1. s.path \in Path /\ Founded(s.path, s.version, s.segment)
      BY DEF TypeOK, SegmentRow, Contiguous
    <3> QED
      BY <2>1, <2>2, <3>1 DEF Founded, HasSegment, GapsKept
  <2>4. "idle" \notin ReleasePC /\ "idle" \notin RenamePC
    BY DEF ReleasePC, RenamePC
  <2> QED
    BY <2>1, <2>3, <2>4 DEF Contiguous
<1>5. ASSUME World PROVE Contiguous'
  BY <1>1, <1>4, <1>5 DEF World, Tick, ServerLocks, ServerUnlocks, tables, history
<1> QED
  BY <1>1, <1>2, <1>3, <1>5 DEF Next, vars

(***************************************************************************)
(* The signatures of a version are those of its first segments, whichever  *)
(* threads release the file side by side and wherever a loop was stopped,  *)
(* unless the INSERT of a segment was lost on the name.                    *)
(***************************************************************************)
THEOREM SegmentsHaveNoGap == Spec => []SegmentsContiguous
<1>1. Init => ContiguousInv
  <2> SUFFICES ASSUME Init PROVE ContiguousInv
    OBVIOUS
  <2>1. \A t \in Threads : call[t].pc = "idle"
    BY DEF Init, IdleCall
  <2>2. Locks
    BY <2>1 DEF Locks, DirExclusive, RenameAlone, RenameDistinct,
       DirPC, MknodPC, UnlinkPC, RenamePC
  <2>3. Contiguous
    BY <2>1 DEF Init, Contiguous, ReleasePC, RenamePC
  <2> QED
    BY <2>2, <2>3, TypeInit DEF ContiguousInv
<1>2. ContiguousInv /\ [Next]_vars => ContiguousInv'
  BY TypePreserved, NextLocks, NextContiguous DEF ContiguousInv
<1>3. ContiguousInv => SegmentsContiguous
  BY ContiguousImplies DEF ContiguousInv
<1> QED
  BY <1>1, <1>2, <1>3, PTL DEF Spec

-----------------------------------------------------------------------------
(***************************************************************************)
(* With one worker thread (the option -s), the signatures of the current   *)
(* version are those of the file.  SignedCurrent says nothing of a release *)
(* that is under way: SignedInv adds how far the loop has come, that the   *)
(* row names the version being signed, and that the names of a mknod and a *)
(* rename are no signed files meanwhile.                                   *)
(***************************************************************************)

OneThread == \A t, u \in Threads : t = u

\* The row of a segment signed as it should be.
ProperRow(p, v, n, d) ==
    [path |-> p, version |-> v, segment |-> n,
     signature |-> [path |-> p, content |-> Segment(d, n)]]

Covered(r) ==
    LET d == disk[r.path] IN
    d.kind = "reg" /\ ~dirty[r.path] /\ ~Releasing(r.path) =>
        \A n \in 0..LastSegment(d.data) :
            ProperRow(r.path, r.current_version, n, d.data) \in fileSegments

Updated == {"release_version", "release_open", "release_read", "release_sign"}
Looping == {"release_read", "release_sign"}

\* What the handler at pc has established of its names p and q, version v and segment n.
Stage(pc, p, q, v, n, buf) ==
    /\ pc \in MknodPC => disk[p] = Absent
    /\ pc \in RenamePC => dirty[p] /\ dirty[q]
    /\ pc \in {"release_update", "release_version", "release_open"} => n = 0
    /\ pc \in Updated => \A r \in fileSystem : r.path = p => r.current_version = v
    /\ pc \in Looping =>
          /\ disk[p].kind = "reg" /\ n * SegSize <= Len(disk[p].data)
          /\ dirty[p] \/ \A m \in Nat :
                             m < n => ProperRow(p, v, m, disk[p].data) \in fileSegments
    /\ pc = "release_sign" => buf = Segment(disk[p].data, n)

Signed ==
    /\ \A r \in fileSystem : Covered(r)
    /\ \A t \in Threads : Stage(call[t].pc, call[t].path, call[t].to, call[t].ver,
                                call[t].seg, call[t].buf)

LEMMA SignedImplies == Signed => SignedCurrent
BY DEF Signed, Covered, ProperRow, SignedCurrent

-----------------------------------------------------------------------------
(* The length of a segment tells whether it is the last. *)

LEMMA Product ==
    ASSUME NEW m \in Nat, NEW n \in Nat, NEW d \in Nat \ {0}
    PROVE  /\ m * d \in Nat
           /\ (m + 1) * d = m * d + d
           /\ m < n => m * d + d <= n * d
<1>1. m * d \in Nat /\ n * d \in Nat
  OBVIOUS
<1>2. (m + 1) * d = m * d + d
  OBVIOUS
<1>3. ASSUME m < n PROVE m * d + d <= n * d
  BY <1>3
<1> QED
  BY <1>1, <1>2, <1>3

LEMMA Quotient ==
    ASSUME NEW l \in Nat, NEW n \in Nat, NEW d \in Nat \ {0}, n * d <= l, l < (n + 1) * d
    PROVE  l \div d = n
<1> DEFINE k == l \div d
<1>1. k \in Nat /\ k * d <= l /\ l < k * d + d
  <2>1. l \div d \in Nat /\ l % d \in 0..(d - 1)
    OBVIOUS
  <2>2. l = (l \div d) * d + (l % d)
    OBVIOUS
  <2>3. (l \div d) * d \in Nat
    BY <2>1, Product
  <2> QED
    BY <2>1, <2>2, <2>3
<1> HIDE DEF k
<1>2. n * d \in Nat /\ k * d \in Nat /\ (n + 1) * d = n * d + d
  BY <1>1, Product
<1>3. ~(k < n)
  <2>1. k < n => k * d + d <= n * d
    BY <1>1, Product
  <2> QED
    BY <1>1, <1>2, <2>1
<1>4. ~(n < k)
  <2>1. n < k => n * d + d <= k * d
    BY <1>1, Product
  <2> QED
    BY <1>1, <1>2, <2>1
<1>5. k = n
  BY <1>1, <1>3, <1>4
<1> QED
  BY <1>5 DEF k

LEMMA SegmentLength ==
    ASSUME NEW d \in Content, NEW n \in Nat, n * SegSize <= Len(d)
    PROVE  /\ Len(Segment(d, n)) = SegSize => (n + 1) * SegSize <= Len(d)
           /\ Len(Segment(d, n)) # SegSize => LastSegment(d) = n
<1> DEFINE lo == n * SegSize
           hi == IF (n + 1) * SegSize <= Len(d) THEN (n + 1) * SegSize ELSE Len(d)
<1>1. /\ lo \in Nat /\ (n + 1) * SegSize = lo + SegSize
      /\ Len(d) \in Nat /\ SegSize \in Nat \ {0}
  BY SegSizeAssumption, Product DEF Content
<1>2. hi \in Nat /\ lo <= hi /\ hi <= Len(d)
  BY <1>1
<1>3. Len(Segment(d, n)) = hi - lo
  <2>1. Segment(d, n) = SubSeq(d, lo + 1, hi)
    BY DEF Segment
  <2> HIDE DEF lo, hi
  <2>2. Len(SubSeq(d, lo + 1, hi)) = IF lo + 1 <= hi THEN hi - (lo + 1) + 1 ELSE 0
    BY <1>1, <1>2 DEF Content
  <2> QED
    BY <1>1, <1>2, <2>1, <2>2
<1>4. ASSUME Len(Segment(d, n)) # SegSize PROVE LastSegment(d) = n
  <2>1. Len(d) < (n + 1) * SegSize
    BY <1>1, <1>3, <1>4
  <2> QED
    BY <1>1, <2>1, Quotient DEF LastSegment
<1>5. Len(Segment(d, n)) = SegSize => (n + 1) * SegSize <= Len(d)
  BY <1>1, <1>3
<1> QED
  BY <1>4, <1>5

-----------------------------------------------------------------------------
(* What a step does to a row that it is not about, and to one that it is. *)

Kept(x) ==
    /\ disk'[x] = disk[x]
    /\ dirty[x] => dirty'[x]
    /\ Releasing(x) => Releasing(x)' \/ dirty'[x]
    /\ \A s \in fileSegments : s.path = x => s \in fileSegments'

Aside(x) == disk[x].kind # "reg" \/ dirty[x] \/ Releasing(x)

LEMMA CoveredKept ==
    ASSUME NEW r, Covered(r), Kept(r.path)
    PROVE  Covered(r)'
<1>1. \A v, n, d : ProperRow(r.path, v, n, d).path = r.path
  BY DEF ProperRow
<1>2. \A v, n, d : ProperRow(r.path, v, n, d) \in fileSegments =>
                       ProperRow(r.path, v, n, d) \in fileSegments'
  BY <1>1 DEF Kept
<1>3. (disk[r.path].kind = "reg" /\ ~dirty[r.path] /\ ~Releasing(r.path))' =>
          disk[r.path].kind = "reg" /\ ~dirty[r.path] /\ ~Releasing(r.path)
  BY DEF Kept
<1>4. disk'[r.path] = disk[r.path]
  BY DEF Kept
<1> QED
  BY <1>2, <1>3, <1>4 DEF Covered

LEMMA CoveredAside == ASSUME NEW r, Aside(r.path)' PROVE Covered(r)'
BY DEF Aside, Covered

\* The one thread goes on, and no row is both changed and settled.
LEMMA SignedBy ==
    ASSUME OneThread, Signed, NEW t \in Threads,
           NEW pc, NEW p, NEW q, NEW v, NEW n, NEW buf,
           call'[t].pc = pc, call'[t].path = p, call'[t].to = q, call'[t].ver = v,
           call'[t].seg = n, call'[t].buf = buf,
           Stage(pc, p, q, v, n, buf)',
           \A r \in fileSystem' : (r \in fileSystem /\ Kept(r.path)) \/ Aside(r.path)'
    PROVE  Signed'
<1>1. \A u \in Threads : u = t
  BY DEF OneThread
<1>2. Stage(call[t].pc, call[t].path, call[t].to, call[t].ver, call[t].seg, call[t].buf)'
  BY DEF Stage, ProperRow, Segment
<1>3. ASSUME NEW r \in fileSystem' PROVE Covered(r)'
  BY <1>3, CoveredKept, CoveredAside DEF Signed
<1> QED
  BY <1>1, <1>2, <1>3 DEF Signed

\* It returns, or does not start.
LEMMA SignedIdle ==
    ASSUME OneThread, Signed, NEW t \in Threads, call'[t].pc = "idle",
           \A r \in fileSystem' : (r \in fileSystem /\ Kept(r.path)) \/ Aside(r.path)'
    PROVE  Signed'
<1>1. \A u \in Threads : u = t
  BY DEF OneThread
<1>2. Stage(call[t].pc, call[t].path, call[t].to, call[t].ver, call[t].seg, call[t].buf)'
  BY DEF Stage, MknodPC, RenamePC, Updated, Looping
<1>3. ASSUME NEW r \in fileSystem' PROVE Covered(r)'
  BY <1>3, CoveredKept, CoveredAside DEF Signed
<1> QED
  BY <1>1, <1>2, <1>3 DEF Signed

LEMMA AloneReleasing ==
    ASSUME OneThread, NEW t \in Threads
    PROVE  /\ \A x : Releasing(x) <=> call[t].pc \in SigningPC /\ call[t].path = x
           /\ \A x : Releasing(x)' <=> call'[t].pc \in SigningPC /\ call'[t].path = x
           /\ SigningPC \subseteq ReleasePC
BY DEF OneThread, Releasing, SigningPC

LEMMA SignedStill ==
    ASSUME Signed, UNCHANGED <<fileSystem, fileSegments, disk, call, dirty>>
    PROVE  Signed'
<1>1. \A r \in fileSystem' : Covered(r)'
  BY DEF Signed, Covered, Releasing, ProperRow, Segment, LastSegment
<1>2. ASSUME NEW t \in Threads
      PROVE  Stage(call[t].pc, call[t].path, call[t].to, call[t].ver, call[t].seg, call[t].buf)'
  <2>1. Stage(call[t].pc, call[t].path, call[t].to, call[t].ver, call[t].seg, call[t].buf)
    BY DEF Signed
  <2> QED
    BY <2>1 DEF Stage, ProperRow, Segment
<1> QED
  BY <1>1, <1>2 DEF Signed

-----------------------------------------------------------------------------
(* The steps of the world, and the handlers that are one step *)

LEMMA WorldSigned ==
    ASSUME TypeOK, OneThread, Signed, World
    PROVE  Signed'
<1>1. CASE Tick \/ ServerLocks \/ ServerUnlocks
  BY <1>1, SignedStill DEF Tick, ServerLocks, ServerUnlocks, tables, history
<1>2. CASE Crash
  <2>1. /\ fileSystem' = fileSystem /\ fileSegments' = fileSegments /\ disk' = disk
        /\ \A u \in Threads : call'[u].pc = "idle"
        /\ \A x \in Path : dirty'[x] = (dirty[x] \/ InUse(x))
    BY <1>2 DEF Crash, tables, IdleCall, Dirty
  <2>2. \A x \in Path : Releasing(x) => InUse(x)
    BY DEF Releasing, InUse, Idle, SigningPC, ReleasePC
  <2>3. \A r \in fileSystem : r.path \in Path
    BY DEF TypeOK, SystemRow
  <2>4. \A r \in fileSystem' : r \in fileSystem /\ Kept(r.path)
    BY <2>1, <2>2, <2>3 DEF Kept
  <2>5. \A r \in fileSystem' : Covered(r)'
    BY <2>4, CoveredKept DEF Signed
  <2>6. \A u \in Threads : Stage(call[u].pc, call[u].path, call[u].to, call[u].ver,
                                 call[u].seg, call[u].buf)'
    BY <2>1 DEF Stage, MknodPC, RenamePC, Updated, Looping
  <2> QED
    BY <2>5, <2>6 DEF Signed
<1> QED
  BY <1>1, <1>2 DEF World

LEMMA WholeSigned ==
    ASSUME TypeOK, OneThread, Signed, NEW t \in Threads, NEW p \in Path,
           \/ CreateSymlink(t, p) \/ OpenForWrite(t, p)
           \/ \E off \in 0..(MaxLen - 1), b \in Byte : Write(t, p, off, b)
           \/ \E n \in 0..MaxLen : Truncate(t, p, n)
           \/ ReleaseSelect(t, p) /\ call' = call
    PROVE  Signed'
<1>0. \A r \in fileSystem : r.path \in Path
  BY DEF TypeOK, SystemRow
<1>1. CASE OpenForWrite(t, p)
  BY <1>1, SignedStill DEF OpenForWrite, tables, history
<1>2. CASE ReleaseSelect(t, p) /\ call' = call
  <2>1. ~Begin(t, "release_update", p, p)
    <3>1. Begin(t, "release_update", p, p) => call[t].pc = "idle" /\ call'[t].pc = "release_update"
      BY BeginEffect
    <3> QED
      BY <1>2, <3>1
  <2>2. UNCHANGED <<fileSystem, fileSegments, disk, call, dirty>>
    BY <1>2, <2>1 DEF ReleaseSelect, tables, history
  <2> QED
    BY <2>2, SignedStill
<1>3. CASE \/ CreateSymlink(t, p)
           \/ \E off \in 0..(MaxLen - 1), b \in Byte : Write(t, p, off, b)
           \/ \E n \in 0..MaxLen : Truncate(t, p, n)
  <2>1. /\ fileSystem' = fileSystem /\ fileSegments' = fileSegments /\ call' = call
        /\ call[t].pc = "idle"
    BY <1>3 DEF CreateSymlink, Write, Truncate, tables, Idle
  <2>2. \A x \in Path : x # p => disk'[x] = disk[x] /\ (dirty[x] => dirty'[x])
    BY <1>3 DEF CreateSymlink, Write, Truncate, Dirty, TypeOK, history
  <2>3. disk'[p].kind # "reg" \/ dirty'[p]
    <3>1. CASE CreateSymlink(t, p)
      BY <3>1 DEF CreateSymlink, TypeOK, SymLink
    <3>2. CASE \/ \E off \in 0..(MaxLen - 1), b \in Byte : Write(t, p, off, b)
               \/ \E n \in 0..MaxLen : Truncate(t, p, n)
      <4>1. Dirty({p})
        BY <3>2 DEF Write, Truncate
      <4> QED
        BY <4>1 DEF Dirty
    <3> QED
      BY <1>3, <3>1, <3>2
  <2>4. \A r \in fileSystem' : (r \in fileSystem /\ Kept(r.path)) \/ Aside(r.path)'
    BY <1>0, <2>1, <2>2, <2>3 DEF Kept, Aside, Releasing
  <2> QED
    BY <2>1, <2>4, SignedIdle
<1> QED
  BY <1>1, <1>2, <1>3

-----------------------------------------------------------------------------
(* How the handlers start *)

LEMMA StartSigned ==
    ASSUME TypeOK, OneThread, Signed, NEW t \in Threads, NEW p \in Path,
           \/ MknodSelect(t, p) \/ UnlinkEntry(t, p)
           \/ ReleaseSelect(t, p) /\ call' # call
    PROVE  Signed'
<1>0. \A r \in fileSystem : r.path \in Path
  BY DEF TypeOK, SystemRow
<1>1. PICK pc \in {"mknod_version", "unlink_again", "release_update"} :
          /\ Begin(t, pc, p, p)
          /\ pc = "mknod_version" => MknodSelect(t, p)
          /\ pc = "unlink_again" => UnlinkEntry(t, p)
          /\ pc = "release_update" => ReleaseSelect(t, p)
  BY DEF MknodSelect, UnlinkEntry, ReleaseSelect
<1>2. PICK v : v = clock
  OBVIOUS
<1>3. /\ call[t].pc = "idle"
      /\ call'[t].pc = pc /\ call'[t].path = p /\ call'[t].to = p
      /\ call'[t].ver = v /\ call'[t].seg = 0 /\ call'[t].buf = <<>>
  BY <1>1, <1>2 DEF Begin, Idle, TypeOK
<1>4. fileSystem' \subseteq fileSystem /\ fileSegments' = fileSegments /\ disk' = disk
  BY <1>1 DEF MknodSelect, UnlinkEntry, ReleaseSelect, DeleteRow, Commit, tables
<1>5. ~Releasing(p) /\ \A x : ~Releasing(x)
  BY <1>3, AloneReleasing DEF ReleasePC
<1>6. dirty' = dirty
  BY <1>1 DEF MknodSelect, UnlinkEntry, ReleaseSelect, history
<1>8. \A r \in fileSystem' : (r \in fileSystem /\ Kept(r.path)) \/ Aside(r.path)'
  BY <1>0, <1>4, <1>5, <1>6 DEF Kept, Aside
<1>9. Stage(pc, p, p, v, 0, <<>>)'
  <2>1. pc = "mknod_version" => disk'[p] = Absent
    BY <1>1, <1>4 DEF MknodSelect
  <2> QED
    BY <2>1 DEF Stage, MknodPC, RenamePC, Updated, Looping
<1> QED
  BY <1>3, <1>8, <1>9, SignedBy

LEMMA RenameSystemSigned ==
    ASSUME TypeOK, OneThread, Signed, NEW t \in Threads, NEW p \in Path, NEW q \in Path,
           RenameSystem(t, p, q)
    PROVE  Signed'
<1>0. \A r \in fileSystem : r.path \in Path
  BY DEF TypeOK, SystemRow
<1>1. /\ Begin(t, "rename_versions", p, q) /\ Dirty({p, q})
      /\ fileSegments' = fileSegments /\ disk' = disk
      /\ fileSystem' = Commit(fileSystem, UpdatePath(fileSystem, p, q, SystemClash(p, q)))
  BY DEF RenameSystem
<1>2. PICK v : v = clock
  OBVIOUS
<1>3. /\ call[t].pc = "idle"
      /\ call'[t].pc = "rename_versions" /\ call'[t].path = p /\ call'[t].to = q
      /\ call'[t].ver = v /\ call'[t].seg = 0 /\ call'[t].buf = <<>>
  BY <1>1, <1>2 DEF Begin, Idle, TypeOK
<1>4. \A x : ~Releasing(x)
  BY <1>3, AloneReleasing DEF ReleasePC
<1>5. \A x \in Path : dirty'[x] = (dirty[x] \/ x \in {p, q})
  BY <1>1 DEF Dirty
<1>6. \A r \in fileSystem' : r \in fileSystem \/ r.path = q
  BY <1>1 DEF Commit, UpdatePath, TypeOK, SystemRow
<1>7. \A r \in fileSystem' : (r \in fileSystem /\ Kept(r.path)) \/ Aside(r.path)'
  BY <1>0, <1>1, <1>4, <1>5, <1>6 DEF Kept, Aside
<1>8. Stage("rename_versions", p, q, v, 0, <<>>)'
  BY <1>5 DEF Stage, MknodPC, RenamePC, Updated, Looping
<1> QED
  BY <1>3, <1>7, <1>8, SignedBy

-----------------------------------------------------------------------------
(* How mknod, unlink and rename go on *)

LEMMA DirSigned ==
    ASSUME TypeOK, Locks, OneThread, Signed, NEW t \in Threads,
           \/ MknodVersion(t) \/ MknodRow(t) \/ UnlinkAgain(t)
           \/ RenameVersions(t) \/ RenameSegments(t)
    PROVE  Signed'
<1>0. \A r \in fileSystem : r.path \in Path
  BY DEF TypeOK, SystemRow
<1>1. PICK pc \in {"mknod_row", "mknod_create", "unlink_file", "rename_segments",
                   "rename_file"} :
          /\ Goto(t, pc)
          /\ call[t].pc \in DirPC
          /\ pc \in MknodPC => call[t].pc \in MknodPC
          /\ pc \in RenamePC => call[t].pc \in RenamePC
          /\ pc = "mknod_create" => MknodRow(t)
          /\ pc = "rename_file" => RenameSegments(t)
  BY DEF MknodVersion, MknodRow, UnlinkAgain, RenameVersions, RenameSegments,
     At, DirPC, MknodPC, UnlinkPC, RenamePC
<1>2. call[t].pc # "idle" /\ call[t].pc \notin ReleasePC
  BY <1>1 DEF DirPC, MknodPC, UnlinkPC, RenamePC, ReleasePC
<1>3. PICK p \in Path, q \in Path, v \in Nat, n \in Nat, buf \in Content :
          /\ call[t].path = p /\ call[t].to = q /\ call[t].ver = v
          /\ call[t].seg = n /\ call[t].buf = buf
  BY <1>2, ActiveCall
<1>4. /\ call'[t].pc = pc /\ call'[t].path = p /\ call'[t].to = q
      /\ call'[t].ver = v /\ call'[t].seg = n /\ call'[t].buf = buf
  BY <1>1, <1>2, <1>3, GotoEffect, GotoSegment
<1>5. disk' = disk /\ dirty' = dirty
  BY DEF MknodVersion, MknodRow, UnlinkAgain, RenameVersions, RenameSegments
<1>6. /\ call[t].pc \in MknodPC => disk[p] = Absent
      /\ call[t].pc \in RenamePC => dirty[p] /\ dirty[q]
  BY <1>3 DEF Signed, Stage
<1>7. Stage(pc, p, q, v, n, buf)'
  BY <1>1, <1>5, <1>6 DEF Stage, Updated, Looping, MknodPC, RenamePC
<1>8. \A x : ~Releasing(x)
  BY <1>2, AloneReleasing
<1>9. \A r \in fileSystem' : (r \in fileSystem /\ Kept(r.path)) \/ Aside(r.path)'
  <2>1. CASE fileSystem' \subseteq fileSystem /\ fileSegments' = fileSegments
    BY <1>5, <1>8, <2>1 DEF Kept
  <2>2. CASE MknodRow(t)
    <3>1. \A r \in fileSystem' : r \in fileSystem \/ r.path = p
      BY <1>3, <2>2 DEF MknodRow, Commit
    <3>2. fileSegments' = fileSegments /\ disk[p] = Absent
      BY <1>6, <2>2 DEF MknodRow, At, MknodPC
    <3> QED
      BY <1>5, <1>8, <3>1, <3>2 DEF Kept, Aside, Absent
  <2>3. CASE RenameSegments(t)
    <3>1. dirty[p] /\ dirty[q] /\ fileSystem' = fileSystem
      BY <1>6, <2>3 DEF RenameSegments, At, RenamePC
    <3>2. \A s \in fileSegments : s.path # p => s \in fileSegments'
      BY <1>3, <2>3 DEF RenameSegments, Commit, UpdatePath
    <3> QED
      BY <1>5, <1>8, <3>1, <3>2 DEF Kept, Aside
  <2> QED
    BY <2>1, <2>2, <2>3 DEF MknodVersion, UnlinkAgain, RenameVersions, DeleteRow, Commit
<1> QED
  BY <1>4, <1>7, <1>9, SignedBy

LEMMA ReturnSigned ==
    ASSUME TypeOK, Locks, OneThread, Signed, NEW t \in Threads,
           \/ MknodCreate(t) \/ MknodFails(t) \/ UnlinkFile(t) \/ UnlinkFails(t)
           \/ RenameFile(t) \/ RenameFails(t)
           \/ ReleaseUpdateLost(t) \/ ReleaseFails(t)
    PROVE  Signed'
<1>0. \A r \in fileSystem : r.path \in Path
  BY DEF TypeOK, SystemRow
<1>1. /\ Return(t) /\ call[t].pc # "idle"
      /\ fileSystem' = fileSystem /\ fileSegments' = fileSegments
  BY DEF MknodCreate, MknodFails, UnlinkFile, UnlinkFails, RenameFile, RenameFails,
     ReleaseUpdateLost, ReleaseFails, At, tables
<1>2. call'[t].pc = "idle"
  BY <1>1, ReturnEffect
<1>3. PICK p \in Path, q \in Path : call[t].path = p /\ call[t].to = q
  BY <1>1, ActiveCall
<1>4. CASE ReleaseUpdateLost(t) \/ ReleaseFails(t)
  <2>1. disk' = disk /\ \A x \in Path : dirty[x] => dirty'[x]
    BY <1>4 DEF ReleaseUpdateLost, ReleaseFails, tables, history, Dirty
  <2>2. ASSUME NEW x \in Path, Releasing(x) PROVE dirty'[x]
    <3>1. call[t].pc \in SigningPC /\ x = p
      BY <1>3, <2>2, AloneReleasing
    <3>2. Dirty({p})
      BY <1>3, <1>4, <3>1 DEF ReleaseUpdateLost, ReleaseFails, At, SigningPC
    <3> QED
      BY <3>1, <3>2 DEF Dirty
  <2>3. \A r \in fileSystem' : r \in fileSystem /\ Kept(r.path)
    BY <1>0, <1>1, <2>1, <2>2 DEF Kept
  <2> QED
    BY <1>2, <2>3, SignedIdle
<1>5. CASE \/ MknodCreate(t) \/ MknodFails(t) \/ UnlinkFile(t) \/ UnlinkFails(t)
           \/ RenameFile(t) \/ RenameFails(t)
  <2>1. call[t].pc \notin ReleasePC
    BY <1>5 DEF MknodCreate, MknodFails, UnlinkFile, UnlinkFails, RenameFile, RenameFails,
       At, ReleasePC
  <2>2. \A x : ~Releasing(x)
    BY <2>1, AloneReleasing
  <2>3. \A x \in Path : dirty[x] => dirty'[x]
    BY <1>5 DEF MknodCreate, MknodFails, UnlinkFile, UnlinkFails, RenameFile, RenameFails,
       Dirty, history
  <2>4. \A x \in Path : disk'[x] = disk[x] \/ Aside(x)'
    <3>1. CASE MknodCreate(t)
      <4>1. disk' = [disk EXCEPT ![p] = Regular(<<>>)] /\ Dirty({p})
        BY <1>3, <3>1 DEF MknodCreate
      <4> QED
        BY <4>1 DEF Aside, Dirty, TypeOK
    <3>2. CASE UnlinkFile(t)
      <4>1. disk' = [disk EXCEPT ![p] = Absent]
        BY <1>3, <3>2 DEF UnlinkFile
      <4> QED
        BY <4>1 DEF Aside, Absent, TypeOK
    <3>3. CASE RenameFile(t)
      <4>1. /\ disk' = [disk EXCEPT ![q] = disk[p], ![p] = Absent] /\ dirty' = dirty
            /\ call[t].pc \in RenamePC
        BY <1>3, <3>3 DEF RenameFile, At, RenamePC, history
      <4>2. dirty[p] /\ dirty[q]
        BY <1>3, <4>1 DEF Signed, Stage
      <4>3. \A x \in Path : x \notin {p, q} => disk'[x] = disk[x]
        BY <4>1 DEF TypeOK
      <4> QED
        BY <4>1, <4>2, <4>3 DEF Aside
    <3>4. CASE MknodFails(t) \/ UnlinkFails(t) \/ RenameFails(t)
      BY <3>4 DEF MknodFails, UnlinkFails, RenameFails
    <3> QED
      BY <1>5, <3>1, <3>2, <3>3, <3>4
  <2>5. \A r \in fileSystem' : (r \in fileSystem /\ Kept(r.path)) \/ Aside(r.path)'
    BY <1>0, <1>1, <2>2, <2>3, <2>4 DEF Kept
  <2> QED
    BY <1>2, <2>5, SignedIdle
<1> QED
  BY <1>4, <1>5

-----------------------------------------------------------------------------
(* How a release goes on *)

\* While the thread releases a name, a step that keeps disk and segments as they are
\* leaves every other row covered, and that name's waits for the end.
LEMMA ReleasingRows ==
    ASSUME TypeOK, OneThread, NEW t \in Threads, NEW p \in Path,
           call[t].path = p, call'[t].path = p,
           call[t].pc \in ReleasePC, call'[t].pc \in SigningPC,
           \A x \in Path : x # p => disk'[x] = disk[x] /\ dirty'[x] = dirty[x],
           \A s \in fileSegments : s.path # p => s \in fileSegments',
           \A r \in fileSystem : r.path \in Path,
           \A r \in fileSystem' : r \in fileSystem \/ r.path = p
    PROVE  \A r \in fileSystem' : (r \in fileSystem /\ Kept(r.path)) \/ Aside(r.path)'
<1>1. Releasing(p)' /\ \A x \in Path : Releasing(x) => x = p
  BY AloneReleasing
<1>2. ASSUME NEW r \in fileSystem' PROVE (r \in fileSystem /\ Kept(r.path)) \/ Aside(r.path)'
  <2>1. CASE r.path = p
    BY <1>1, <2>1 DEF Aside
  <2>2. CASE r.path # p
    BY <1>1, <2>2 DEF Kept
  <2> QED
    BY <2>1, <2>2
<1> QED
  BY <1>2

LEMMA ReleaseSigned ==
    ASSUME TypeOK, OneThread, Signed, NEW t \in Threads,
           ReleaseUpdate(t) \/ ReleaseVersion(t) \/ ReleaseOpen(t)
    PROVE  Signed'
<1>1. PICK pc \in {"release_version", "release_open", "release_read"} :
          /\ Goto(t, pc)
          /\ call[t].pc \in {"release_update", "release_version", "release_open"}
          /\ pc = "release_version" => ReleaseUpdate(t)
          /\ pc # "release_version" => call[t].pc \in Updated /\ fileSystem' = fileSystem
          /\ pc = "release_read" => ReleaseOpen(t)
  BY DEF ReleaseUpdate, ReleaseVersion, ReleaseOpen, At, Updated, tables
<1>2. call[t].pc # "idle" /\ call[t].pc \in ReleasePC /\ pc \in SigningPC
  BY <1>1 DEF ReleasePC, SigningPC
<1>3. PICK p \in Path, q \in Path, v \in Nat, n \in Nat, buf \in Content :
          /\ call[t].path = p /\ call[t].to = q /\ call[t].ver = v
          /\ call[t].seg = n /\ call[t].buf = buf
  BY <1>2, ActiveCall
<1>4. /\ call'[t].pc = pc /\ call'[t].path = p /\ call'[t].to = q
      /\ call'[t].ver = v /\ call'[t].seg = n /\ call'[t].buf = buf
  BY <1>1, <1>2, <1>3, GotoEffect, GotoSegment
<1>5. /\ disk' = disk /\ fileSegments' = fileSegments
      /\ \A x \in Path : x # p => dirty'[x] = dirty[x]
  BY <1>3 DEF ReleaseUpdate, ReleaseVersion, ReleaseOpen, tables, history, TypeOK
<1>6. n = 0 /\ (call[t].pc \in Updated => \A r \in fileSystem : r.path = p => r.current_version = v)
  BY <1>1, <1>3 DEF Signed, Stage
<1>7. \A r \in fileSystem : r.path \in Path
  BY DEF TypeOK, SystemRow
<1>8. \A r \in fileSystem' : /\ r \in fileSystem \/ r.path = p
                             /\ r.path = p => r.current_version = v
  <2>1. CASE pc # "release_version"
    BY <1>1, <1>6, <2>1
  <2>2. CASE pc = "release_version"
    <3>1. fileSystem' = {IF r.path = p THEN [r EXCEPT !.current_version = v] ELSE r :
                             r \in fileSystem}
      BY <1>1, <1>3, <2>2 DEF ReleaseUpdate
    <3>2. \A r \in fileSystem : /\ [r EXCEPT !.current_version = v].path = r.path
                                /\ [r EXCEPT !.current_version = v].current_version = v
      BY DEF TypeOK, SystemRow
    <3> QED
      BY <3>1, <3>2
  <2> QED
    BY <2>1, <2>2
<1>9. pc = "release_read" => disk[p].kind = "reg" /\ n * SegSize <= Len(disk[p].data)
  <2>1. pc = "release_read" => disk[p].kind = "reg"
    BY <1>1, <1>3 DEF ReleaseOpen
  <2>2. disk[p].data \in Content
    BY DEF TypeOK, DiskEntry
  <2>3. Len(disk[p].data) \in Nat
    BY <2>2 DEF Content
  <2>4. 0 * SegSize = 0
    BY SegSizeAssumption
  <2> QED
    BY <1>6, <2>1, <2>3, <2>4
<1>10. Stage(pc, p, q, v, n, buf)'
  <2>1. pc \notin MknodPC /\ pc \notin RenamePC /\ pc # "release_sign"
    BY DEF MknodPC, RenamePC
  <2>2. \A m \in Nat : ~(m < n)
    BY <1>6
  <2> QED
    BY <1>5, <1>6, <1>8, <1>9, <2>1, <2>2 DEF Stage, Looping
<1>11. \A r \in fileSystem' : (r \in fileSystem /\ Kept(r.path)) \/ Aside(r.path)'
  BY <1>2, <1>3, <1>4, <1>5, <1>7, <1>8, ReleasingRows
<1> QED
  BY <1>4, <1>10, <1>11, SignedBy

LEMMA ReadSigned ==
    ASSUME TypeOK, OneThread, Signed, NEW t \in Threads, ReleaseRead(t)
    PROVE  Signed'
<1>1. call[t].pc = "release_read" /\ call[t].pc # "idle" /\ call[t].pc \in ReleasePC
  BY DEF ReleaseRead, At, ReleasePC
<1>2. PICK p \in Path, q \in Path, v \in Nat, n \in Nat :
          call[t].path = p /\ call[t].to = q /\ call[t].ver = v /\ call[t].seg = n
  BY <1>1, ActiveCall
<1>3. PICK buf : buf = Segment(disk[p].data, n)
  OBVIOUS
<1>4. /\ call'[t].pc = "release_sign" /\ call'[t].path = p /\ call'[t].to = q
      /\ call'[t].ver = v /\ call'[t].seg = n /\ call'[t].buf = buf
  BY <1>2, <1>3 DEF ReleaseRead, Loop, TypeOK
<1>5. /\ disk' = disk /\ dirty' = dirty
      /\ fileSegments' = fileSegments /\ fileSystem' = fileSystem
  BY DEF ReleaseRead, tables, history
<1>6. Stage("release_read", p, q, v, n, call[t].buf)
  BY <1>1, <1>2 DEF Signed
<1>7. Stage("release_sign", p, q, v, n, buf)'
  <2>1. "release_sign" \notin MknodPC /\ "release_sign" \notin RenamePC
    BY DEF MknodPC, RenamePC
  <2>2. buf = Segment(disk'[p].data, n)
    BY <1>3, <1>5
  <2> QED
    BY <1>5, <1>6, <2>1, <2>2 DEF Stage, Updated, Looping, ProperRow, Segment
<1>8. "release_sign" \in SigningPC /\ \A r \in fileSystem : r.path \in Path
  BY DEF SigningPC, ReleasePC, TypeOK, SystemRow
<1>9. \A r \in fileSystem' : (r \in fileSystem /\ Kept(r.path)) \/ Aside(r.path)'
  BY <1>1, <1>2, <1>4, <1>5, <1>8, ReleasingRows
<1> QED
  BY <1>4, <1>7, <1>9, SignedBy

\* What sign_segment does to the table: the row is stored beside those of other keys.
LEMMA SignRows ==
    ASSUME TypeOK, NEW t \in Threads, ReleaseSign(t),
           NEW p \in Path, NEW v \in Nat, NEW n \in Nat, NEW d,
           call[t].path = p, call[t].ver = v, call[t].seg = n,
           call[t].buf = Segment(d, n)
    PROVE  /\ \A s \in fileSegments : s.path # p => s \in fileSegments'
           /\ \A m \in Nat : m # n /\ ProperRow(p, v, m, d) \in fileSegments =>
                                 ProperRow(p, v, m, d) \in fileSegments'
           /\ ~readLock => ProperRow(p, v, n, d) \in fileSegments'
<1> DEFINE row == SignedRow(call[t])
<1>1. row = ProperRow(p, v, n, d)
  BY DEF SignedRow, ProperRow
<1>2. row.path = p /\ row.version = v /\ row.segment = n
  BY <1>1 DEF ProperRow
<1>3. fileSegments' = IF readLock THEN fileSegments
                      ELSE {s \in fileSegments : \/ s.path # row.path
                                                 \/ s.version # row.version
                                                 \/ s.segment # row.segment} \cup {row}
  BY DEF ReleaseSign, Commit, InsertOrReplace
<1>4. \A m : ProperRow(p, v, m, d).segment = m
  BY DEF ProperRow
<1> HIDE DEF row
<1>5. \A s \in fileSegments : s.path # p => s \in fileSegments'
  BY <1>2, <1>3
<1>6. \A m \in Nat : m # n /\ ProperRow(p, v, m, d) \in fileSegments =>
                         ProperRow(p, v, m, d) \in fileSegments'
  BY <1>2, <1>3, <1>4
<1>7. ~readLock => ProperRow(p, v, n, d) \in fileSegments'
  BY <1>1, <1>3
<1> QED
  BY <1>5, <1>6, <1>7

LEMMA SignSigned ==
    ASSUME TypeOK, OneThread, Signed, NEW t \in Threads, ReleaseSign(t)
    PROVE  Signed'
<1>1. call[t].pc = "release_sign" /\ call[t].pc # "idle" /\ call[t].pc \in ReleasePC
  BY DEF ReleaseSign, At, ReleasePC
<1>2. PICK p \in Path, q \in Path, v \in Nat, n \in Nat, buf \in Content :
          /\ call[t].path = p /\ call[t].to = q /\ call[t].ver = v
          /\ call[t].seg = n /\ call[t].buf = buf
  BY <1>1, ActiveCall
<1>3. /\ disk' = disk /\ fileSystem' = fileSystem
      /\ \A x \in Path : x # p => dirty'[x] = dirty[x]
      /\ dirty'[p] = (dirty[p] \/ readLock)
  BY <1>2 DEF ReleaseSign, TypeOK
<1>4. PICK d \in Content : d = disk[p].data
  BY DEF TypeOK, DiskEntry
<1>5. /\ disk[p].kind = "reg" /\ n * SegSize <= Len(d) /\ buf = Segment(d, n)
      /\ dirty[p] \/ \A m \in Nat : m < n => ProperRow(p, v, m, d) \in fileSegments
      /\ \A r \in fileSystem : r.path = p => r.current_version = v
  <2>1. Stage("release_sign", p, q, v, n, buf)
    BY <1>1, <1>2 DEF Signed
  <2> QED
    BY <1>4, <2>1 DEF Stage, Updated, Looping
<1>6. /\ \A s \in fileSegments : s.path # p => s \in fileSegments'
      /\ \A m \in Nat : m # n /\ ProperRow(p, v, m, d) \in fileSegments =>
                            ProperRow(p, v, m, d) \in fileSegments'
      /\ ~readLock => ProperRow(p, v, n, d) \in fileSegments'
  BY <1>2, <1>5, SignRows
\* Every segment up to this one is signed, unless something was lost.
<1>7. dirty'[p] \/ \A m \in Nat : m <= n => ProperRow(p, v, m, d) \in fileSegments'
  <2>1. dirty'[p] \/ (~dirty[p] /\ ~readLock)
    BY <1>3
  <2>2. ASSUME ~dirty[p], ~readLock, NEW m \in Nat, m <= n
        PROVE  ProperRow(p, v, m, d) \in fileSegments'
    <3>1. CASE m = n
      BY <1>6, <2>2, <3>1
    <3>2. CASE m # n
      <4>1. m < n
        BY <2>2, <3>2
      <4> QED
        BY <1>5, <1>6, <2>2, <3>2, <4>1
    <3> QED
      BY <3>1, <3>2
  <2> QED
    BY <2>1, <2>2
<1>8. \A r \in fileSystem : r.path \in Path
  BY DEF TypeOK, SystemRow
<1>9. CASE Len(buf) = SegSize
  <2>1. Loop(t, "release_read", n + 1, <<>>)
    BY <1>2, <1>9 DEF ReleaseSign, NextSegment
  <2>2. /\ call'[t].pc = "release_read" /\ call'[t].path = p /\ call'[t].to = q
        /\ call'[t].ver = v /\ call'[t].seg = n + 1 /\ call'[t].buf = <<>>
    BY <1>2, <2>1 DEF Loop, TypeOK
  <2>3. (n + 1) * SegSize <= Len(d)
    BY <1>5, <1>9, SegmentLength
  <2>4. \A m \in Nat : m < n + 1 => m <= n
    OBVIOUS
  <2>5. Stage("release_read", p, q, v, n + 1, <<>>)'
    <3>1. "release_read" \notin MknodPC /\ "release_read" \notin RenamePC
      BY DEF MknodPC, RenamePC
    <3>2. disk'[p].kind = "reg" /\ (n + 1) * SegSize <= Len(disk'[p].data)
      BY <1>3, <1>4, <1>5, <2>3
    <3>3. dirty'[p] \/ \A m \in Nat : m < n + 1 => ProperRow(p, v, m, d) \in fileSegments'
      BY <1>7, <2>4
    <3>4. \A m : ProperRow(p, v, m, disk[p].data)' = ProperRow(p, v, m, d)
      BY <1>3, <1>4 DEF ProperRow, Segment
    <3>5. \A r \in fileSystem' : r.path = p => r.current_version = v
      BY <1>3, <1>5
    <3> QED
      BY <3>1, <3>2, <3>3, <3>4, <3>5 DEF Stage
  <2>6. "release_read" \in SigningPC
    BY DEF SigningPC, ReleasePC
  <2>7. \A r \in fileSystem' : (r \in fileSystem /\ Kept(r.path)) \/ Aside(r.path)'
    BY <1>1, <1>2, <1>3, <1>6, <1>8, <2>2, <2>6, ReleasingRows
  <2> QED
    BY <2>2, <2>5, <2>7, SignedBy
<1>10. CASE Len(buf) # SegSize
  <2>1. call'[t].pc = "idle"
    BY <1>2, <1>10, ReturnEffect DEF ReleaseSign
  <2>2. LastSegment(d) = n
    BY <1>5, <1>10, SegmentLength
  <2>3. \A x \in Path : Releasing(x) => x = p
    BY <1>2, AloneReleasing
  <2>4. ASSUME NEW r \in fileSystem' PROVE Covered(r)'
    <3>1. CASE r.path = p
      <4>1. dirty'[p] \/ \A m \in 0..n : ProperRow(p, v, m, d) \in fileSegments'
        BY <1>7
      <4>2. r.current_version = v /\ LastSegment(disk'[p].data) = n
        BY <1>3, <1>4, <1>5, <2>2, <3>1
      <4>3. \A m : ProperRow(p, v, m, disk[p].data)' = ProperRow(p, v, m, d)
        BY <1>3, <1>4 DEF ProperRow, Segment
      <4> QED
        BY <3>1, <4>1, <4>2, <4>3 DEF Covered, ProperRow, LastSegment
    <3>2. CASE r.path # p
      <4>1. Kept(r.path) /\ Covered(r)
        BY <1>3, <1>6, <1>8, <2>3, <3>2 DEF Kept, Signed
      <4> QED
        BY <4>1, CoveredKept
    <3> QED
      BY <3>1, <3>2
  <2>5. \A u \in Threads : u = t
    BY DEF OneThread
  <2>6. Stage(call[t].pc, call[t].path, call[t].to, call[t].ver, call[t].seg, call[t].buf)'
    BY <2>1 DEF Stage, MknodPC, RenamePC, Updated, Looping
  <2> QED
    BY <2>4, <2>5, <2>6 DEF Signed
<1> QED
  BY <1>9, <1>10

-----------------------------------------------------------------------------
(* SignedInv is inductive. *)

SignedInv == TypeOK /\ Locks /\ Signed

LEMMA NextSigned ==
    ASSUME OneThread, TypeOK, Locks, Signed, [Next]_vars
    PROVE  Signed'
<1>1. ASSUME NEW t \in Threads, Continue(t) PROVE Signed'
  BY <1>1, DirSigned, ReturnSigned, ReleaseSigned, ReadSigned, SignSigned DEF Continue
<1>2. ASSUME NEW t \in Threads, Accept(t) PROVE Signed'
  <2>1. ASSUME NEW p \in Path,
               \/ CreateSymlink(t, p) \/ OpenForWrite(t, p)
               \/ \E off \in 0..(MaxLen - 1), b \in Byte : Write(t, p, off, b)
               \/ \E n \in 0..MaxLen : Truncate(t, p, n)
               \/ ReleaseSelect(t, p) /\ call' = call
        PROVE  Signed'
    BY <2>1, WholeSigned
  <2>2. ASSUME NEW p \in Path,
               \/ MknodSelect(t, p) \/ UnlinkEntry(t, p)
               \/ ReleaseSelect(t, p) /\ call' # call
        PROVE  Signed'
    BY <2>2, StartSigned
  <2>3. ASSUME NEW p \in Path, NEW q \in Path, RenameSystem(t, p, q) PROVE Signed'
    BY <2>3, RenameSystemSigned
  <2> QED
    BY <1>2, <2>1, <2>2, <2>3 DEF Accept
<1>3. ASSUME World PROVE Signed'
  BY <1>3, WorldSigned
<1>4. ASSUME UNCHANGED vars PROVE Signed'
  BY <1>4, SignedStill DEF vars, tables, history
<1> QED
  BY <1>1, <1>2, <1>3, <1>4 DEF Next

LEMMA SignedInitial == Init => SignedInv
<1> SUFFICES ASSUME Init PROVE SignedInv
  OBVIOUS
<1>1. \A t \in Threads : call[t].pc = "idle"
  BY DEF Init, IdleCall
<1>2. Locks
  BY <1>1 DEF Locks, DirExclusive, RenameAlone, RenameDistinct,
     DirPC, MknodPC, UnlinkPC, RenamePC
<1>3. Signed
  BY <1>1 DEF Init, Signed, Stage, MknodPC, RenamePC, Updated, Looping
<1> QED
  BY <1>2, <1>3, TypeInit DEF SignedInv

LEMMA SignedNext == OneThread /\ SignedInv /\ [Next]_vars => SignedInv'
BY TypePreserved, NextLocks, NextSigned DEF SignedInv

(***************************************************************************)
(* With one worker thread, once a release is over, every segment of the    *)
(* file has a signature over its name and its bytes under the current      *)
(* version, unless a change came after the last release began or that      *)
(* release was cut short (ndnfs_release's loop).  It needs OneThread: two  *)
(* releases side by side can leave the older bytes signed.                 *)
(***************************************************************************)
THEOREM SignaturesCurrent ==
    ASSUME OneThread
    PROVE  Spec => []SignedCurrent
<1>1. SignedInv => SignedCurrent
  BY SignedImplies DEF SignedInv
<1> QED
  BY <1>1, SignedInitial, SignedNext, PTL DEF Spec

-----------------------------------------------------------------------------
(* SignedInv also tells which signatures a release may replace. *)

OldKept ==
    \A r \in fileSystem, s \in fileSegments :
        s.path = r.path /\ s.version < r.current_version /\ ~NameLocked(r.path)
            => s \in fileSegments'

LEMMA SegmentsWritten ==
    ASSUME [Next]_vars
    PROVE  \/ fileSegments' = fileSegments
           \/ \E t \in Threads : ReleaseSign(t) \/ RenameSegments(t)
<1>1. ASSUME NEW t \in Threads, Continue(t)
      PROVE  fileSegments' = fileSegments \/ ReleaseSign(t) \/ RenameSegments(t)
  BY <1>1 DEF Continue, MknodVersion, MknodRow, MknodCreate, MknodFails,
     ReleaseUpdate, ReleaseUpdateLost, ReleaseVersion, ReleaseOpen, ReleaseRead,
     ReleaseFails, UnlinkAgain, UnlinkFile, UnlinkFails,
     RenameVersions, RenameFile, RenameFails, tables
<1>2. ASSUME NEW t \in Threads, Accept(t) PROVE fileSegments' = fileSegments
  BY <1>2 DEF Accept, MknodSelect, CreateSymlink, OpenForWrite, Write, Truncate,
     ReleaseSelect, UnlinkEntry, RenameSystem, tables
<1>3. World \/ UNCHANGED vars => fileSegments' = fileSegments
  BY DEF World, Tick, ServerLocks, ServerUnlocks, Crash, vars, tables
<1> QED
  BY <1>1, <1>2, <1>3 DEF Next

LEMMA NextOldKept ==
    ASSUME OneThread, TypeOK, Signed, [Next]_vars
    PROVE  OldKept
<1>1. CASE fileSegments' = fileSegments
  BY <1>1 DEF OldKept
<1>2. CASE \E t \in Threads : ReleaseSign(t)
  <2>1. PICK t \in Threads : ReleaseSign(t)
    BY <1>2
  <2>2. call[t].pc = "release_sign" /\ call[t].pc # "idle"
    BY <2>1 DEF ReleaseSign, At
  <2>3. PICK p \in Path, v \in Nat : call[t].path = p /\ call[t].ver = v
    BY <2>2, ActiveCall
  <2>4. \A r \in fileSystem : r.path = p => r.current_version = v
    BY <2>2, <2>3 DEF Signed, Stage, Updated
  <2>5. \A s \in fileSegments : s.path # p \/ s.version # v => s \in fileSegments'
    <3> DEFINE row == SignedRow(call[t])
    <3>1. row.path = p /\ row.version = v
      BY <2>3 DEF SignedRow
    <3>2. fileSegments' = IF readLock THEN fileSegments
                          ELSE {s \in fileSegments : \/ s.path # row.path
                                                     \/ s.version # row.version
                                                     \/ s.segment # row.segment} \cup {row}
      BY <2>1 DEF ReleaseSign, Commit, InsertOrReplace
    <3> HIDE DEF row
    <3> QED
      BY <3>1, <3>2
  <2>6. \A s \in fileSegments : s.version \in Nat
    BY DEF TypeOK, SegmentRow
  <2> QED
    BY <2>4, <2>5, <2>6 DEF OldKept
<1>3. CASE \E t \in Threads : RenameSegments(t)
  <2>1. PICK t \in Threads : RenameSegments(t)
    BY <1>3
  <2>2. call[t].pc \in DirPC
    BY <2>1 DEF RenameSegments, At, DirPC, RenamePC
  <2>3. NameLocked(call[t].path)
    BY <2>2 DEF NameLocked
  <2>4. \A s \in fileSegments : s.path # call[t].path => s \in fileSegments'
    BY <2>1 DEF RenameSegments, Commit, UpdatePath
  <2> QED
    BY <2>3, <2>4 DEF OldKept
<1> QED
  BY <1>1, <1>2, <1>3, SegmentsWritten

(***************************************************************************)
(* With one worker thread, no step replaces a signature of a version that  *)
(* is no longer current (ndnfs_release signs the version it has put into   *)
(* the row), except a rename of the name.                                  *)
(***************************************************************************)
THEOREM OldSignaturesStay ==
    ASSUME OneThread
    PROVE  Spec => OldSignaturesKept
<1>1. Spec => []SignedInv
  BY SignedInitial, SignedNext, PTL DEF Spec
<1>2. SignedInv /\ [Next]_vars => [OldKept]_vars
  BY NextOldKept DEF SignedInv
<1>3. Spec => [][OldKept]_vars
  BY <1>1, <1>2, PTL DEF Spec
<1> QED
  BY <1>3 DEF OldSignaturesKept, OldKept

-----------------------------------------------------------------------------
(***************************************************************************)
(* CurrentIsLatest says nothing of the version a handler is about to       *)
(* record, nor of a rename that has moved the row and not the versions.    *)
(* LatestInv bounds every version by the clock, so that a handler that     *)
(* takes the time finds none beyond it, and follows the handler from then. *)
(***************************************************************************)

Collided(p) == "collide" \in blemish[p]

UpTo(p, v) == \A w \in fileVersions : w.path = p => w.version <= v

Ahead(pc, p, q, v) ==
    /\ pc \in MknodPC \cup ReleasePC => v <= clock
    /\ pc \in MknodPC \cup ReleasePC => UpTo(p, v)
    /\ pc \in {"mknod_version", "mknod_row"} => ~HasRow(p)
    /\ pc = "rename_versions" =>
          Collided(q) \/ \A r \in fileSystem : r.path = q => UpTo(p, r.current_version)

RowsLatest == \A r \in fileSystem : Collided(r.path) \/ UpTo(r.path, r.current_version)

Latest ==
    /\ \A w \in fileVersions : w.version <= clock
    /\ RowsLatest
    /\ \A t \in Threads : Ahead(call[t].pc, call[t].path, call[t].to, call[t].ver)

LatestInv == SignedInv /\ Latest

LEMMA LatestImplies == Latest => CurrentIsLatest
BY DEF Latest, RowsLatest, Collided, UpTo, CurrentIsLatest, Excused

LEMMA LatestBy ==
    ASSUME OneThread, NEW t \in Threads, NEW pc, NEW p, NEW q, NEW v,
           call'[t].pc = pc, call'[t].path = p, call'[t].to = q, call'[t].ver = v,
           Ahead(pc, p, q, v)', RowsLatest',
           \A w \in fileVersions' : w.version <= clock'
    PROVE  Latest'
<1>1. \A u \in Threads : u = t
  BY DEF OneThread
<1>2. Ahead(call[t].pc, call[t].path, call[t].to, call[t].ver)'
  BY DEF Ahead, UpTo, HasRow, Collided
<1> QED
  BY <1>1, <1>2 DEF Latest

\* A step that records no version, moves none and changes no row.
LEMMA LatestQuiet ==
    ASSUME TypeOK, Latest, [Next]_vars,
           fileVersions' = fileVersions, fileSystem' \subseteq fileSystem
    PROVE  /\ RowsLatest'
           /\ \A w \in fileVersions' : w.version <= clock'
           /\ \A x, v : UpTo(x, v)' <=> UpTo(x, v)
           /\ \A x : HasRow(x)' => HasRow(x)
<1>1. clock <= clock' /\ clock \in Nat /\ clock' \in Nat
  <2>1. clock' = clock \/ clock' = clock + 1
    <3>1. ASSUME NEW t \in Threads, Continue(t) PROVE clock' = clock
      BY <3>1 DEF Continue, MknodVersion, MknodRow, MknodCreate, MknodFails,
         ReleaseUpdate, ReleaseUpdateLost, ReleaseVersion, ReleaseOpen, ReleaseRead,
         ReleaseSign, ReleaseFails, UnlinkAgain, UnlinkFile, UnlinkFails,
         RenameVersions, RenameSegments, RenameFile, RenameFails
    <3>2. ASSUME NEW t \in Threads, Accept(t) PROVE clock' = clock
      BY <3>2 DEF Accept, MknodSelect, CreateSymlink, OpenForWrite, Write, Truncate,
         ReleaseSelect, UnlinkEntry, RenameSystem
    <3>3. World \/ UNCHANGED vars => clock' = clock \/ clock' = clock + 1
      BY DEF World, Tick, ServerLocks, ServerUnlocks, Crash, vars
    <3> QED
      BY <3>1, <3>2, <3>3 DEF Next
  <2> QED
    BY <2>1 DEF TypeOK
<1>2. \A w \in fileVersions : w.version \in Nat
  BY DEF TypeOK, VersionRow
<1>3. \A w \in fileVersions' : w.version <= clock'
  BY <1>1, <1>2 DEF Latest
<1>4. \A x, v : UpTo(x, v)' <=> UpTo(x, v)
  BY DEF UpTo
<1>5. ASSUME NEW r \in fileSystem' PROVE (Collided(r.path) \/ UpTo(r.path, r.current_version))'
  <2>1. r \in fileSystem /\ r.path \in Path
    BY DEF TypeOK, SystemRow
  <2>2. Collided(r.path) => Collided(r.path)'
    BY <2>1, BlemishStays DEF Collided
  <2> QED
    BY <1>4, <2>1, <2>2 DEF Latest, RowsLatest
<1>6. RowsLatest'
  BY <1>5 DEF RowsLatest
<1>7. \A x : HasRow(x)' => HasRow(x)
  BY DEF HasRow
<1> QED
  BY <1>3, <1>4, <1>6, <1>7

-----------------------------------------------------------------------------
(* The statements that record a version, or put one into a row *)

LEMMA RecordLatest ==
    ASSUME TypeOK, OneThread, Signed, Latest, NEW t \in Threads,
           MknodVersion(t) \/ ReleaseVersion(t)
    PROVE  Latest'
<1>1. PICK pc \in {"mknod_row", "release_open"} :
          /\ Goto(t, pc) /\ call[t].pc # "idle"
          /\ pc = "mknod_row" => call[t].pc = "mknod_version"
          /\ pc = "release_open" => call[t].pc = "release_version"
  BY DEF MknodVersion, ReleaseVersion, At
<1>2. PICK p \in Path, q \in Path, v \in Nat :
          call[t].path = p /\ call[t].to = q /\ call[t].ver = v
  BY <1>1, ActiveCall
<1>3. call'[t].pc = pc /\ call'[t].path = p /\ call'[t].to = q /\ call'[t].ver = v
  BY <1>1, <1>2, GotoEffect
<1>4. Ahead(call[t].pc, p, q, v)
  BY <1>2 DEF Latest
<1>5. /\ v <= clock /\ UpTo(p, v)
      /\ pc = "mknod_row" => ~HasRow(p)
  BY <1>1, <1>4 DEF Ahead, MknodPC, ReleasePC
<1>6. \A r \in fileSystem : r.path = p => r.current_version = v
  <2>1. CASE pc = "mknod_row"
    BY <1>5, <2>1 DEF HasRow
  <2>2. CASE pc = "release_open"
    BY <1>1, <1>2, <2>2 DEF Signed, Stage, Updated
  <2> QED
    BY <2>1, <2>2
<1>7. fileSystem' = fileSystem /\ clock' = clock
  BY DEF MknodVersion, ReleaseVersion
<1>8. ASSUME NEW w \in fileVersions' PROVE w \in fileVersions \/ (w.path = p /\ w.version = v)
  BY <1>2 DEF MknodVersion, ReleaseVersion, Commit
<1>9. \A w \in fileVersions' : w.version <= clock'
  BY <1>5, <1>7, <1>8 DEF Latest
<1>10. UpTo(p, v)' /\ \A x, m : x # p /\ UpTo(x, m) => UpTo(x, m)'
  BY <1>5, <1>8 DEF UpTo
<1>11. \A x \in Path : Collided(x) => Collided(x)'
  <2>1. \E faults : Mark({p}, faults)
    BY <1>2 DEF MknodVersion, ReleaseVersion
  <2> QED
    BY <2>1, MarkGrows DEF Collided
<1>12. RowsLatest'
  <2>1. ASSUME NEW r \in fileSystem PROVE Collided(r.path)' \/ UpTo(r.path, r.current_version)'
    <3>1. r.path \in Path /\ (Collided(r.path) \/ UpTo(r.path, r.current_version))
      BY DEF TypeOK, SystemRow, Latest, RowsLatest
    <3>2. CASE r.path = p
      BY <1>6, <1>10, <3>2
    <3>3. CASE r.path # p
      BY <1>10, <1>11, <3>1, <3>3
    <3> QED
      BY <3>2, <3>3
  <2> QED
    BY <1>7, <2>1 DEF RowsLatest, UpTo, Collided
<1>13. Ahead(pc, p, q, v)'
  BY <1>5, <1>7, <1>10 DEF Ahead, HasRow
<1> QED
  BY <1>3, <1>9, <1>12, <1>13, LatestBy

LEMMA PutLatest ==
    ASSUME TypeOK, OneThread, Latest, NEW t \in Threads,
           MknodRow(t) \/ ReleaseUpdate(t)
    PROVE  Latest'
<1>1. PICK pc \in {"mknod_create", "release_version"} :
          /\ Goto(t, pc) /\ call[t].pc # "idle"
          /\ call[t].pc \in {"mknod_row", "release_update"}
  BY DEF MknodRow, ReleaseUpdate, At
<1>2. PICK p \in Path, q \in Path, v \in Nat :
          call[t].path = p /\ call[t].to = q /\ call[t].ver = v
  BY <1>1, ActiveCall
<1>3. call'[t].pc = pc /\ call'[t].path = p /\ call'[t].to = q /\ call'[t].ver = v
  BY <1>1, <1>2, GotoEffect
<1>4. Ahead(call[t].pc, p, q, v)
  BY <1>2 DEF Latest
<1>5. v <= clock /\ UpTo(p, v)
  BY <1>1, <1>4 DEF Ahead, MknodPC, ReleasePC
<1>6. fileVersions' = fileVersions /\ clock' = clock
  BY DEF MknodRow, ReleaseUpdate
<1>7. ASSUME NEW r \in fileSystem'
      PROVE  r \in fileSystem \/ (r.path = p /\ r.current_version = v)
  <2>1. CASE MknodRow(t)
    BY <1>2, <2>1 DEF MknodRow, Commit
  <2>2. CASE ReleaseUpdate(t)
    <3>1. PICK o \in fileSystem :
              r = IF o.path = p THEN [o EXCEPT !.current_version = v] ELSE o
      BY <1>2, <2>2 DEF ReleaseUpdate
    <3>2. /\ [o EXCEPT !.current_version = v].path = o.path
          /\ [o EXCEPT !.current_version = v].current_version = v
      BY DEF TypeOK, SystemRow
    <3> QED
      BY <3>1, <3>2
  <2> QED
    BY <2>1, <2>2
<1>8. \A x, m : UpTo(x, m)' <=> UpTo(x, m)
  BY <1>6 DEF UpTo
<1>9. \A x \in Path : Collided(x) => Collided(x)'
  <2>1. blemish' = blemish \/ \E faults : Mark({p}, faults)
    BY <1>2 DEF MknodRow, ReleaseUpdate, history
  <2> QED
    BY <2>1, MarkGrows DEF Collided
<1>10. RowsLatest'
  <2>1. ASSUME NEW r \in fileSystem' PROVE Collided(r.path)' \/ UpTo(r.path, r.current_version)'
    <3>1. CASE r \in fileSystem
      <4>1. r.path \in Path /\ (Collided(r.path) \/ UpTo(r.path, r.current_version))
        BY <3>1 DEF TypeOK, SystemRow, Latest, RowsLatest
      <4> QED
        BY <1>8, <1>9, <4>1
    <3>2. CASE r.path = p /\ r.current_version = v
      BY <1>5, <1>8, <3>2
    <3> QED
      BY <1>7, <3>1, <3>2
  <2> QED
    BY <2>1 DEF RowsLatest, UpTo, Collided
<1>11. Ahead(pc, p, q, v)'
  BY <1>5, <1>6, <1>8 DEF Ahead
<1>12. \A w \in fileVersions' : w.version <= clock'
  BY <1>6 DEF Latest
<1> QED
  BY <1>3, <1>10, <1>11, <1>12, LatestBy

-----------------------------------------------------------------------------
(* A rename: the row first, then the versions *)

LEMMA RenameRowLatest ==
    ASSUME TypeOK, OneThread, Latest, NEW t \in Threads, NEW p \in Path, NEW q \in Path,
           RenameSystem(t, p, q)
    PROVE  Latest'
<1>1. /\ Begin(t, "rename_versions", p, q)
      /\ fileVersions' = fileVersions /\ clock' = clock
      /\ fileSystem' = Commit(fileSystem, UpdatePath(fileSystem, p, q, SystemClash(p, q)))
  BY DEF RenameSystem
<1>2. PICK v : v = clock
  OBVIOUS
<1>3. /\ call'[t].pc = "rename_versions" /\ call'[t].path = p /\ call'[t].to = q
      /\ call'[t].ver = v
  BY <1>1, <1>2 DEF Begin, TypeOK
<1>4. /\ \A x \in Path : Collided(x) => Collided(x)'
      /\ Collided(p) \/ Known(q) => Collided(q)'
  BY DEF RenameSystem, Mark, Collided, TypeOK
<1>5. \A x, m : UpTo(x, m)' <=> UpTo(x, m)
  BY <1>1 DEF UpTo
\* A row that is not as it was has come from p.
<1>6. ASSUME NEW r \in fileSystem'
      PROVE  \/ r \in fileSystem
             \/ /\ r.path = q
                /\ \E o \in fileSystem : o.path = p /\ o.current_version = r.current_version
  <2>1. CASE r \in fileSystem
    BY <2>1
  <2>2. CASE r \notin fileSystem
    <3>1. PICK o \in fileSystem : o.path = p /\ r = [o EXCEPT !.path = q]
      BY <1>1, <2>2 DEF Commit, UpdatePath
    <3>2. r.path = q /\ o.current_version = r.current_version
      BY <3>1 DEF TypeOK, SystemRow
    <3> QED
      BY <3>1, <3>2
  <2> QED
    BY <2>1, <2>2
<1>7. \A r \in fileSystem : r.path \in Path /\ (Collided(r.path) \/ UpTo(r.path, r.current_version))
  BY DEF TypeOK, SystemRow, Latest, RowsLatest
\* Nothing was known of q, or q has collided.
<1>8. \/ Collided(q)'
      \/ /\ \A r \in fileSystem : r.path # q
         /\ \A m : UpTo(q, m)
  BY <1>4 DEF Known, HasRow, UpTo
<1>9. RowsLatest'
  <2>1. ASSUME NEW r \in fileSystem' PROVE Collided(r.path)' \/ UpTo(r.path, r.current_version)'
    <3>1. CASE r \in fileSystem
      BY <1>4, <1>5, <1>7, <3>1
    <3>2. CASE r.path = q
      BY <1>5, <1>8, <3>2 DEF Collided
    <3> QED
      BY <1>6, <3>1, <3>2
  <2> QED
    BY <2>1 DEF RowsLatest, UpTo, Collided
<1>10. Ahead("rename_versions", p, q, v)'
  <2>1. ASSUME NEW r \in fileSystem', r.path = q, ~Collided(q)'
        PROVE  UpTo(p, r.current_version)'
    <3>1. PICK o \in fileSystem : o.path = p /\ o.current_version = r.current_version
      BY <1>6, <1>8, <2>1
    <3>2. UpTo(p, r.current_version)
      BY <1>4, <1>7, <2>1, <3>1
    <3> QED
      BY <1>5, <3>2
  <2> QED
    BY <2>1 DEF Ahead, MknodPC, ReleasePC, UpTo, Collided
<1>11. \A w \in fileVersions' : w.version <= clock'
  BY <1>1 DEF Latest
<1> QED
  BY <1>3, <1>9, <1>10, <1>11, LatestBy

LEMMA RenameVersionsLatest ==
    ASSUME TypeOK, OneThread, Latest, NEW t \in Threads, RenameVersions(t)
    PROVE  Latest'
<1>1. Goto(t, "rename_segments") /\ call[t].pc = "rename_versions" /\ call[t].pc # "idle"
  BY DEF RenameVersions, At
<1>2. PICK p \in Path, q \in Path, v \in Nat :
          call[t].path = p /\ call[t].to = q /\ call[t].ver = v
  BY <1>1, ActiveCall
<1>3. /\ call'[t].pc = "rename_segments" /\ call'[t].path = p /\ call'[t].to = q
      /\ call'[t].ver = v
  BY <1>1, <1>2, GotoEffect
<1>4. /\ fileSystem' = fileSystem /\ clock' = clock
      /\ fileVersions' = Commit(fileVersions,
             UpdatePath(fileVersions, p, q, VersionClash(p, q)))
      /\ Mark({p, q}, Lost)
  BY <1>2 DEF RenameVersions
<1>5. \A x \in Path : Collided(x) => Collided(x)'
  BY <1>4, MarkGrows DEF Collided
<1>6. ASSUME NEW w \in fileVersions'
      PROVE  \/ w \in fileVersions
             \/ /\ w.path = q
                /\ \E o \in fileVersions : o.path = p /\ o.version = w.version
  <2>1. CASE w \in fileVersions
    BY <2>1
  <2>2. CASE w \notin fileVersions
    <3>1. PICK o \in fileVersions : o.path = p /\ w = [o EXCEPT !.path = q]
      BY <1>4, <2>2 DEF Commit, UpdatePath
    <3>2. w.path = q /\ o.version = w.version
      BY <3>1 DEF TypeOK, VersionRow
    <3> QED
      BY <3>1, <3>2
  <2> QED
    BY <2>1, <2>2
<1>7. \A w \in fileVersions' : w.version <= clock'
  BY <1>4, <1>6 DEF Latest
<1>8. \A x, m : x # q /\ UpTo(x, m) => UpTo(x, m)'
  BY <1>6 DEF UpTo
<1>9. \A m : UpTo(p, m) /\ UpTo(q, m) => UpTo(q, m)'
  BY <1>6 DEF UpTo
<1>10. Collided(q) \/ \A r \in fileSystem : r.path = q => UpTo(p, r.current_version)
  <2>1. Ahead("rename_versions", p, q, v)
    BY <1>1, <1>2 DEF Latest
  <2> QED
    BY <2>1 DEF Ahead
<1>11. RowsLatest'
  <2>1. ASSUME NEW r \in fileSystem PROVE Collided(r.path)' \/ UpTo(r.path, r.current_version)'
    <3>1. r.path \in Path /\ (Collided(r.path) \/ UpTo(r.path, r.current_version))
      BY DEF TypeOK, SystemRow, Latest, RowsLatest
    <3>2. CASE r.path = q
      <4>1. Collided(q)' \/ (UpTo(p, r.current_version) /\ UpTo(q, r.current_version))
        BY <1>5, <1>10, <3>1, <3>2
      <4> QED
        BY <1>9, <3>2, <4>1 DEF Collided
    <3>3. CASE r.path # q
      BY <1>5, <1>8, <3>1, <3>3
    <3> QED
      BY <3>2, <3>3
  <2> QED
    BY <1>4, <2>1 DEF RowsLatest, UpTo, Collided
<1>12. Ahead("rename_segments", p, q, v)'
  BY DEF Ahead, MknodPC, ReleasePC
<1> QED
  BY <1>3, <1>7, <1>11, <1>12, LatestBy

-----------------------------------------------------------------------------
(* LatestInv is inductive. *)

LEMMA OtherLatest ==
    ASSUME TypeOK, OneThread, Latest, [Next]_vars, NEW t \in Threads,
           fileVersions' = fileVersions, fileSystem' \subseteq fileSystem, clock' = clock,
           \/ call'[t].pc = "idle"
           \/ /\ Continue(t)
              /\ \/ UnlinkAgain(t) \/ RenameSegments(t) \/ ReleaseOpen(t)
                 \/ ReleaseRead(t) \/ ReleaseSign(t)
    PROVE  Latest'
<1>1. /\ RowsLatest'
      /\ \A w \in fileVersions' : w.version <= clock'
      /\ \A x, v : UpTo(x, v)' <=> UpTo(x, v)
  BY LatestQuiet
<1>2. \A u \in Threads : u = t
  BY DEF OneThread
<1>3. CASE call'[t].pc = "idle"
  <2>1. Ahead(call[t].pc, call[t].path, call[t].to, call[t].ver)'
    BY <1>3 DEF Ahead, MknodPC, ReleasePC
  <2> QED
    BY <1>1, <1>2, <2>1 DEF Latest
<1>4. CASE call'[t].pc # "idle"
  <2>1. PICK pc \in {"unlink_file", "rename_file", "release_read", "release_sign"} :
            /\ Goto(t, pc) \/ \E seg, buf : Loop(t, pc, seg, buf)
            /\ call[t].pc # "idle"
            /\ pc \in {"release_read", "release_sign"} => call[t].pc \in ReleasePC
    BY <1>4, ReturnEffect DEF UnlinkAgain, RenameSegments, ReleaseOpen, ReleaseRead,
       ReleaseSign, At, ReleasePC
  <2>2. PICK p \in Path, q \in Path, v \in Nat :
            call[t].path = p /\ call[t].to = q /\ call[t].ver = v
    BY <2>1, ActiveCall
  <2>3. call'[t].pc = pc /\ call'[t].path = p /\ call'[t].to = q /\ call'[t].ver = v
    BY <2>1, <2>2, GotoEffect, LoopEffect
  <2>4. Ahead(call[t].pc, p, q, v)
    BY <2>2 DEF Latest
  <2>5. Ahead(pc, p, q, v)'
    BY <1>1, <2>1, <2>4 DEF Ahead, MknodPC, ReleasePC
  <2> QED
    BY <1>1, <2>3, <2>5, LatestBy
<1> QED
  BY <1>3, <1>4

\* No handler moves.
LEMMA LatestStill ==
    ASSUME TypeOK, Latest, [Next]_vars,
           fileVersions' = fileVersions, fileSystem' = fileSystem, call' = call,
           clock' = clock \/ clock' = clock + 1
    PROVE  Latest'
<1>1. /\ RowsLatest'
      /\ \A w \in fileVersions' : w.version <= clock'
      /\ \A x, v : UpTo(x, v)' <=> UpTo(x, v)
  BY LatestQuiet
<1>2. ASSUME NEW t \in Threads
      PROVE  Ahead(call[t].pc, call[t].path, call[t].to, call[t].ver)'
  <2>1. CASE call[t].pc = "idle"
    BY <2>1 DEF Ahead, MknodPC, ReleasePC
  <2>2. CASE call[t].pc # "idle"
    <3> PICK pc : pc = call[t].pc
      OBVIOUS
    <3>1. PICK p \in Path, q \in Path, v \in Nat :
              call[t].path = p /\ call[t].to = q /\ call[t].ver = v
      BY <2>2, ActiveCall
    <3>2. Ahead(pc, p, q, v)
      BY <3>1 DEF Latest
    <3>3. Collided(q) => Collided(q)'
      BY BlemishStays DEF Collided
    <3>4. v <= clock => v <= clock'
      BY DEF TypeOK
    <3>5. Ahead(pc, p, q, v)'
      BY <1>1, <3>2, <3>3, <3>4 DEF Ahead, HasRow
    <3> QED
      BY <3>1, <3>5 DEF Ahead, UpTo, HasRow, Collided
  <2> QED
    BY <2>1, <2>2
<1> QED
  BY <1>1, <1>2 DEF Latest

LEMMA StartLatest ==
    ASSUME TypeOK, OneThread, Latest, [Next]_vars, NEW t \in Threads, NEW p \in Path,
           \/ MknodSelect(t, p) \/ UnlinkEntry(t, p)
           \/ ReleaseSelect(t, p) /\ call' # call
    PROVE  Latest'
<1>1. PICK pc \in {"mknod_version", "unlink_again", "release_update"} :
          /\ Begin(t, pc, p, p)
          /\ pc = "mknod_version" => MknodSelect(t, p)
  BY DEF MknodSelect, UnlinkEntry, ReleaseSelect
<1>2. PICK v : v = clock
  OBVIOUS
<1>3. call'[t].pc = pc /\ call'[t].path = p /\ call'[t].to = p /\ call'[t].ver = v
  BY <1>1, <1>2 DEF Begin, TypeOK
<1>4. fileSystem' \subseteq fileSystem /\ fileVersions' = fileVersions /\ clock' = clock
  BY DEF MknodSelect, UnlinkEntry, ReleaseSelect, DeleteRow, Commit, tables
<1>5. /\ RowsLatest'
      /\ \A w \in fileVersions' : w.version <= clock'
      /\ \A x, m : UpTo(x, m)' <=> UpTo(x, m)
      /\ HasRow(p)' => HasRow(p)
  BY <1>4, LatestQuiet
<1>6. UpTo(p, v) /\ v <= clock
  BY <1>2 DEF Latest, UpTo, TypeOK
<1>7. pc = "mknod_version" => ~HasRow(p)
  BY <1>1 DEF MknodSelect
<1>8. Ahead(pc, p, p, v)'
  BY <1>4, <1>5, <1>6, <1>7 DEF Ahead
<1> QED
  BY <1>3, <1>5, <1>8, LatestBy

LEMMA NextLatest ==
    ASSUME TypeOK, OneThread, Signed, Latest, [Next]_vars
    PROVE  Latest'
<1>1. ASSUME NEW t \in Threads, Continue(t) PROVE Latest'
  <2>1. CASE \/ MknodVersion(t) \/ ReleaseVersion(t) \/ MknodRow(t)
             \/ ReleaseUpdate(t) \/ RenameVersions(t)
    BY <2>1, RecordLatest, PutLatest, RenameVersionsLatest
  <2>2. CASE \/ UnlinkAgain(t) \/ RenameSegments(t) \/ ReleaseOpen(t)
             \/ ReleaseRead(t) \/ ReleaseSign(t)
    <3>1. fileVersions' = fileVersions /\ fileSystem' \subseteq fileSystem /\ clock' = clock
      BY <2>2 DEF UnlinkAgain, RenameSegments, ReleaseOpen, ReleaseRead, ReleaseSign,
         DeleteRow, Commit, tables
    <3> QED
      BY <1>1, <2>2, <3>1, OtherLatest
  <2>3. CASE \/ MknodCreate(t) \/ MknodFails(t) \/ ReleaseUpdateLost(t)
             \/ ReleaseFails(t) \/ UnlinkFile(t) \/ UnlinkFails(t)
             \/ RenameFile(t) \/ RenameFails(t)
    <3>1. Return(t) /\ fileVersions' = fileVersions /\ fileSystem' = fileSystem
          /\ clock' = clock
      BY <2>3 DEF MknodCreate, MknodFails, ReleaseUpdateLost, ReleaseFails,
         UnlinkFile, UnlinkFails, RenameFile, RenameFails, tables
    <3>2. call'[t].pc = "idle"
      BY <3>1, ReturnEffect
    <3> QED
      BY <3>1, <3>2, OtherLatest
  <2> QED
    BY <1>1, <2>1, <2>2, <2>3 DEF Continue
<1>2. ASSUME NEW t \in Threads, Accept(t) PROVE Latest'
  <2>1. ASSUME NEW p \in Path,
               \/ CreateSymlink(t, p) \/ OpenForWrite(t, p)
               \/ \E off \in 0..(MaxLen - 1), b \in Byte : Write(t, p, off, b)
               \/ \E n \in 0..MaxLen : Truncate(t, p, n)
               \/ ReleaseSelect(t, p) /\ call' = call
        PROVE  Latest'
    <3>1. fileVersions' = fileVersions /\ fileSystem' = fileSystem /\ call' = call
          /\ clock' = clock
      BY <2>1 DEF CreateSymlink, OpenForWrite, Write, Truncate, ReleaseSelect, tables
    <3> QED
      BY <3>1, LatestStill
  <2>2. ASSUME NEW p \in Path,
               \/ MknodSelect(t, p) \/ UnlinkEntry(t, p)
               \/ ReleaseSelect(t, p) /\ call' # call
        PROVE  Latest'
    BY <2>2, StartLatest
  <2>3. ASSUME NEW p \in Path, NEW q \in Path, RenameSystem(t, p, q) PROVE Latest'
    BY <2>3, RenameRowLatest
  <2> QED
    BY <1>2, <2>1, <2>2, <2>3 DEF Accept
<1>3. CASE Tick \/ ServerLocks \/ ServerUnlocks \/ UNCHANGED vars
  <2>1. /\ fileVersions' = fileVersions /\ fileSystem' = fileSystem /\ call' = call
        /\ clock' = clock \/ clock' = clock + 1
    BY <1>3 DEF Tick, ServerLocks, ServerUnlocks, vars, tables
  <2> QED
    BY <2>1, LatestStill
<1>4. CASE Crash
  <2>1. /\ fileVersions' = fileVersions /\ fileSystem' = fileSystem
        /\ \A t \in Threads : call'[t].pc = "idle"
    BY <1>4 DEF Crash, tables, IdleCall
  <2>2. /\ RowsLatest'
        /\ \A w \in fileVersions' : w.version <= clock'
    BY <2>1, LatestQuiet
  <2>3. \A t \in Threads : Ahead(call[t].pc, call[t].path, call[t].to, call[t].ver)'
    BY <2>1 DEF Ahead, MknodPC, ReleasePC
  <2> QED
    BY <2>2, <2>3 DEF Latest
<1> QED
  BY <1>1, <1>2, <1>3, <1>4 DEF Next, World

(***************************************************************************)
(* With one worker thread, the current version of a file is the latest of  *)
(* its history, unless it was renamed onto a name some table knew:         *)
(* ndnfs_mknod and ndnfs_release record the version they make current, and *)
(* no lost statement, crash or failed call leaves a later one behind.      *)
(***************************************************************************)
THEOREM CurrentStaysLatest ==
    ASSUME OneThread
    PROVE  Spec => []CurrentIsLatest
<1>1. Init => LatestInv
  <2>1. Init => Latest
    BY DEF Init, IdleCall, Latest, RowsLatest, Ahead, MknodPC, ReleasePC
  <2> QED
    BY <2>1, SignedInitial DEF LatestInv
<1>2. LatestInv /\ [Next]_vars => LatestInv'
  BY SignedNext, NextLatest DEF LatestInv, SignedInv
<1>3. LatestInv => CurrentIsLatest
  BY LatestImplies DEF LatestInv
<1> QED
  BY <1>1, <1>2, <1>3, PTL DEF Spec
=============================================================================
