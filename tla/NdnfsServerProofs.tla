------------------------- MODULE NdnfsServerProofs -------------------------
(***************************************************************************)
(* The server beside the file-system process: it does to that process what *)
(* Ndnfs allows for, so that what is proved of Ndnfs holds with it running;*)
(* it drops its lock however a callback returns; and with one FUSE thread  *)
(* what it answers about a settled version is true of the file.            *)
(***************************************************************************)
EXTENDS NdnfsServer, StoreProofs

-----------------------------------------------------------------------------
(* Every step of the two processes is a step of Ndnfs, or none of its own. *)

LEMMA Locking ==
    ASSUME Lock, UNCHANGED fsVars
    PROVE  ServerLocks
  BY ServerAssumption DEF Lock, fsVars, ServerLocks

LEMMA Unlocking ==
    ASSUME TypeOK, Unlock, UNCHANGED fsVars
    PROVE  [Next]_vars
<1>1. CASE readLock
  BY <1>1 DEF Unlock, fsVars, ServerUnlocks, Next, World
<1>2. CASE readLock = FALSE
  BY <1>2 DEF Unlock, fsVars, vars, tables, history
<1> QED
  BY <1>1, <1>2 DEF TypeOK

LEMMA ServerStepIsSeen ==
    ASSUME TypeOK, ServerStep
    PROVE  [Next]_vars
<1>1. CASE \/ \E s \in fileSegments : OnSegmentInterest(s)
           \/ \E r \in fileSystem, v \in 0..MaxClock : OnVersionInterest(r, v)
           \/ \E r \in fileSystem : OnInfoInterest(r)
           \/ \E s \in fileSegments : SelectSegment(s)
  <2>1. Lock /\ UNCHANGED fsVars
    BY <1>1 DEF OnSegmentInterest, OnVersionInterest, OnInfoInterest, SelectSegment
  <2> QED
    BY <2>1, Locking DEF Next, World
<1>2. CASE FinalizeRow \/ FinalizeSegment \/ FinalizeVersion
  <2>1. Unlock /\ UNCHANGED fsVars
    BY <1>2 DEF FinalizeRow, FinalizeSegment, FinalizeVersion
  <2> QED
    BY <2>1, Unlocking
<1>3. CASE SelectFails \/ Stat \/ Open \/ Read \/ Reply
  <2>1. UNCHANGED <<fsVars, readLock>>
    BY <1>3 DEF SelectFails, Stat, Open, Read, Reply
  <2> QED
    BY <2>1 DEF fsVars, vars, tables, history
<1>4. CASE SelectVersion
  <2>1. UNCHANGED fsVars /\ (Lock \/ UNCHANGED readLock)
    BY <1>4 DEF SelectVersion
  <2>2. CASE Lock
    BY <2>1, <2>2, Locking DEF Next, World
  <2>3. CASE UNCHANGED readLock
    BY <2>1, <2>3 DEF fsVars, vars, tables, history
  <2> QED
    BY <2>1, <2>2, <2>3
<1> QED
  BY <1>1, <1>2, <1>3, <1>4 DEF ServerStep, OnInterest, Callback

LEMMA FileSystemStepIsSeen ==
    ASSUME FileSystemStep
    PROVE  [Next]_vars
<1>1. \/ Tick \/ Crash \/ UNCHANGED vars
      \/ \E t \in Threads : Continue(t) \/ Accept(t)
  BY DEF FileSystemStep, Death, Restart
<1> QED
  BY <1>1 DEF Next, World

(***************************************************************************)
(* The two processes together implement the file-system process with its   *)
(* server reduced to a lock that comes and goes: whatever interest the     *)
(* callback serves and wherever it returns, the file system sees a SHARED  *)
(* lock taken and dropped, and nothing else of it.                         *)
(***************************************************************************)
THEOREM ServerImplementsNdnfs == ServerSpec => Spec
<1>1. ServerInit => Init
  BY DEF ServerInit
<1>2. TypeOK /\ [ServerNext]_allVars => [Next]_vars
  <2> SUFFICES ASSUME TypeOK, [ServerNext]_allVars PROVE [Next]_vars
    OBVIOUS
  <2>1. CASE FileSystemStep
    BY <2>1, FileSystemStepIsSeen
  <2>2. CASE ServerStep
    BY <2>2, ServerStepIsSeen
  <2>3. CASE UNCHANGED allVars
    BY <2>3 DEF allVars
  <2> QED
    BY <2>1, <2>2, <2>3 DEF ServerNext
<1> QED
  BY <1>1, <1>2, TypeInit, TypePreserved, PTL DEF ServerSpec, Spec

\* With one FUSE thread, files are what module Store says with the server running, too:
\* its answers change nothing Store can see, and a statement of a handler
\* that its lock refuses is a fault of Store (Lock, sqlite3_step in file.cc).
THEOREM ServerImplementsStore ==
    ASSUME OneThread
    PROVE  ServerSpec => ImplementsStore
  BY ServerImplementsNdnfs, StoreImplemented, PTL

\* The version sendFileMeta looks for is recorded, with the exceptions of
\* VersionRecorded, when the server runs beside the handlers.
THEOREM ServerVersionsRecorded == ServerSpec => []VersionRecorded
  BY ServerImplementsNdnfs, VersionsRecorded, PTL

\* So is the version of every signature sendFileContent finds.
THEOREM ServerSegmentVersionsRecorded == ServerSpec => []SegmentVersionRecorded
  BY ServerImplementsNdnfs, SegmentVersionsRecorded, PTL

-----------------------------------------------------------------------------
(* The lock *)

LEMMA FileSystemKeepsLock ==
    ASSUME FileSystemStep
    PROVE  /\ readLock' = readLock
           /\ serve' = serve \/ Doing("read")
<1>1. CASE Tick /\ UNCHANGED serve
  BY <1>1 DEF Tick
<1>2. CASE Death \/ Restart
  BY <1>2 DEF Death, Restart, Crash, vars
<1>3. ASSUME NEW t \in Threads, Continue(t)
      PROVE  readLock' = readLock
  BY <1>3 DEF Continue, MknodVersion, MknodRow, MknodCreate, MknodFails, ReleaseUpdate,
              ReleaseUpdateLost, ReleaseVersion, ReleaseOpen, ReleaseRead, ReleaseSign,
              ReleaseFails, UnlinkAgain, UnlinkFile, UnlinkFails, RenameVersions,
              RenameSegments, RenameFile, RenameFails, history
<1>4. ASSUME NEW t \in Threads, Accept(t)
      PROVE  readLock' = readLock
  BY <1>4 DEF Accept, MknodSelect, CreateSymlink, OpenForWrite, Write, Truncate,
              ReleaseSelect, UnlinkEntry, RenameSystem
<1>5. ASSUME NEW t \in Threads, Follow(t)
      PROVE  serve' = serve \/ Doing("read")
  BY <1>5 DEF Follow
<1> QED
  BY <1>1, <1>2, <1>3, <1>4, <1>5 DEF FileSystemStep

LEMMA LockPreserved ==
    ASSUME LockReleased, [ServerNext]_allVars
    PROVE  LockReleased'
<1>1. CASE FileSystemStep
  <2>1. readLock' => serve.pc \in Finalizing
    BY <1>1, FileSystemKeepsLock DEF LockReleased
  <2>2. serve.pc \in Finalizing => serve' = serve
    BY <1>1, FileSystemKeepsLock DEF Doing, Finalizing
  <2> QED
    BY <2>1, <2>2 DEF LockReleased
<1>2. CASE ServerStep
  <2>1. CASE \/ \E s \in fileSegments : OnSegmentInterest(s)
             \/ \E r \in fileSystem, v \in 0..MaxClock : OnVersionInterest(r, v)
             \/ \E r \in fileSystem : OnInfoInterest(r)
    BY <2>1 DEF OnSegmentInterest, OnVersionInterest, OnInfoInterest, Starts, Request,
                LockReleased, Finalizing
  <2>2. CASE FinalizeRow \/ FinalizeSegment \/ FinalizeVersion
    BY <2>2 DEF FinalizeRow, FinalizeSegment, FinalizeVersion, Unlock, LockReleased
  <2>3. CASE \E s \in fileSegments : SelectSegment(s)
    BY <2>3 DEF SelectSegment, Proceed, Locals, LockReleased, Finalizing
  <2>4. CASE SelectVersion
    <3>1. CASE HasVersion(serve.path, serve.ver)
      BY <2>4, <3>1 DEF SelectVersion, Proceeds, Proceed, Locals, LockReleased, Finalizing
    <3>2. CASE ~HasVersion(serve.path, serve.ver)
      <4>1. ~readLock
        BY <2>4 DEF SelectVersion, Doing, LockReleased, Finalizing
      <4> QED
        BY <2>4, <3>2, <4>1 DEF SelectVersion, LockReleased
    <3> QED
      BY <3>1, <3>2
  <2>5. CASE SelectFails \/ Stat \/ Open \/ Read \/ Reply
    BY <2>5 DEF SelectFails, Stat, Open, Read, Reply, Doing, LockReleased, Finalizing
  <2> QED
    BY <1>2, <2>1, <2>2, <2>3, <2>4, <2>5 DEF ServerStep, OnInterest, Callback
<1>3. CASE UNCHANGED allVars
  BY <1>3 DEF allVars, vars, serverVars, LockReleased
<1> QED
  BY <1>1, <1>2, <1>3 DEF ServerNext

\* The database is locked only while a callback stands between sqlite3_step and
\* sqlite3_finalize, whichever way the callback returns.
THEOREM LocksReleased == ServerSpec => []LockReleased
<1>1. ServerInit => LockReleased
  BY DEF ServerInit, Init, LockReleased
<1> QED
  BY <1>1, LockPreserved, PTL DEF ServerSpec
-----------------------------------------------------------------------------
(***************************************************************************)
(* What the callback holds of the name it serves, as long as nothing of    *)
(* that name has changed under it.                                         *)
(***************************************************************************)

\* The locals of a callback at pc fit the tables and the tree.
Holds(pc, kind, p, node, v, n, sig, total, sized, data) ==
    /\ node = p
    /\ pc \in {"select_version", "finalize_version"} => kind # "content"
    /\ pc \in {"finalize_segment", "stat", "open", "read", "reply"}
          /\ kind = "content" /\ sig # Garbage
             => \E s \in fileSegments : /\ s.path = p /\ s.version = v
                                        /\ s.segment = n /\ s.signature = sig
    /\ pc \in {"open", "read", "reply"} /\ disk[p].kind = "reg" /\ sized
             => total = TotalSegments(disk[p].data)
    /\ pc = "read" => disk[p].kind = "reg"
    /\ pc = "reply" /\ kind = "content" => data = Segment(disk[p].data, n)

Honest ==
    serve.pc # "idle" /\ ~touched =>
        Holds(serve.pc, serve.kind, serve.path, serve.node, serve.ver, serve.seg,
              serve.sig, serve.total, serve.sized, serve.data)

\* The primary key of file_segments.
KeysOnce ==
    \A r, s \in fileSegments :
        r.path = s.path /\ r.version = s.version /\ r.segment = s.segment => r = s

LEMMA NextKeys ==
    ASSUME TypeOK, KeysOnce, [Next]_vars
    PROVE  KeysOnce'
<1>1. CASE fileSegments' = fileSegments
  BY <1>1 DEF KeysOnce
<1>2. CASE \E t \in Threads : ReleaseSign(t)
  <2>1. PICK t \in Threads : ReleaseSign(t)
    BY <1>2
  <2> DEFINE row == SignedRow(call[t])
  <2>2. fileSegments' = IF readLock THEN fileSegments
                        ELSE {s \in fileSegments : \/ s.path # row.path
                                                   \/ s.version # row.version
                                                   \/ s.segment # row.segment} \cup {row}
    BY <2>1 DEF ReleaseSign, Commit, InsertOrReplace
  <2> HIDE DEF row
  <2> QED
    BY <2>2 DEF KeysOnce
<1>3. CASE \E t \in Threads : RenameSegments(t)
  <2>1. PICK t \in Threads : RenameSegments(t)
    BY <1>3
  <2> DEFINE p == call[t].path
             q == call[t].to
             moved(r) == IF r.path = p THEN [r EXCEPT !.path = q] ELSE r
  <2>2. \/ fileSegments' = fileSegments
        \/ /\ ~SegmentClash(p, q)
           /\ fileSegments' = {moved(r) : r \in fileSegments}
    BY <2>1 DEF RenameSegments, Commit, UpdatePath
  <2> HIDE DEF p, q
  <2>3. ASSUME NEW r \in fileSegments, NEW s \in fileSegments, ~SegmentClash(p, q),
               moved(r).path = moved(s).path, moved(r).version = moved(s).version,
               moved(r).segment = moved(s).segment
        PROVE  moved(r) = moved(s)
    <3>1. r \in SegmentRow /\ s \in SegmentRow
      BY DEF TypeOK
    <3>2. r.version = s.version /\ r.segment = s.segment
      BY <2>3, <3>1 DEF SegmentRow
    <3>3. (r.path = p) <=> (s.path = p)
      BY <2>3, <3>1, <3>2 DEF SegmentRow, SegmentClash
    <3>4. r.path = s.path
      BY <2>3, <3>1, <3>3 DEF SegmentRow
    <3> QED
      BY <3>2, <3>4 DEF KeysOnce
  <2> HIDE DEF moved
  <2> QED
    BY <2>2, <2>3 DEF KeysOnce
<1> QED
  BY <1>1, <1>2, <1>3, SegmentsWritten
-----------------------------------------------------------------------------
(* Types *)

LEMMA TotalType ==
    ASSUME NEW d \in Content
    PROVE  LastSegment(d) \in Nat /\ TotalSegments(d) \in Nat
<1>1. Len(d) \in Nat
  BY DEF Content
<1> QED
  BY <1>1, SegSizeAssumption DEF LastSegment, TotalSegments

LEMMA LocalsType ==
    ASSUME serve \in Serve, NEW pc \in ServePC, NEW node \in Path,
           NEW sig \in Signature \cup {Garbage}, NEW total \in Int, NEW sized \in BOOLEAN,
           NEW data \in Content, Locals(pc, node, sig, total, sized, data)
    PROVE  serve' \in Serve
BY DEF Locals, Serve

LEMMA ServingType ==
    ASSUME ServerTypeOK, serve.pc # "idle"
    PROVE  /\ serve \in Serve
           /\ serve.path \in Path /\ serve.node \in Path
           /\ serve.ver \in Nat /\ serve.seg \in Nat
           /\ serve.total \in Int /\ serve.sized \in BOOLEAN
           /\ serve.sig \in Signature \cup {Garbage} /\ serve.data \in Content
<1>1. serve \in Serve
  BY DEF ServerTypeOK, NoServe
<1> QED
  BY <1>1 DEF Serve

LEMMA DiskType ==
    ASSUME TypeOK, NEW p \in Path
    PROVE  disk[p].data \in Content
BY DEF TypeOK, DiskEntry

LEMMA OnInterestType ==
    ASSUME TypeOK, ServerTypeOK, OnInterest
    PROVE  ServerTypeOK'
<1>1. <<>> \in Content /\ 0 \in Nat
  BY DEF Content
<1>2. ASSUME NEW pc \in ServePC, NEW kind \in {"content", "info"}, NEW p \in Path,
             NEW v \in Nat, NEW n \in Nat, NEW sig \in Signature,
             serve' = Request(pc, kind, p, v, n, sig)
      PROVE  serve' \in Serve
  BY <1>1, <1>2 DEF Request, Serve
<1>3. ASSUME NEW p \in Path PROVE NoSignature(p) \in Signature
  BY <1>1 DEF NoSignature, Signature
<1>4. ASSUME NEW s \in fileSegments, OnSegmentInterest(s)
      PROVE  ServerTypeOK'
  <2>1. s.path \in Path /\ s.version \in Nat /\ s.segment \in Nat /\ s.signature \in Signature
    BY DEF TypeOK, SegmentRow
  <2>2. /\ serve' = Request("finalize_segment", "content", s.path, s.version, s.segment,
                            s.signature)
        /\ touched' = FALSE /\ mounted' = mounted
    BY <1>4 DEF OnSegmentInterest, Starts
  <2>3. serve' \in Serve
    BY <1>2, <2>1, <2>2 DEF ServePC, Finalizing
  <2> QED
    BY <2>2, <2>3 DEF ServerTypeOK
<1>5. ASSUME NEW r \in fileSystem,
             \/ \E v \in 0..MaxClock : OnVersionInterest(r, v)
             \/ OnInfoInterest(r)
      PROVE  ServerTypeOK'
  <2>1. r.path \in Path /\ r.current_version \in Nat
    BY DEF TypeOK, SystemRow
  <2>2. PICK kind \in {"content", "info"}, v \in Nat :
            /\ serve' = Request("finalize_row", kind, r.path, v, 0, NoSignature(r.path))
            /\ touched' = FALSE /\ mounted' = mounted
    BY <1>5, <2>1, BoundAssumption DEF OnVersionInterest, OnInfoInterest, Starts, FirstSegment
  <2>3. serve' \in Serve
    BY <1>1, <1>2, <1>3, <2>1, <2>2 DEF ServePC, Finalizing
  <2> QED
    BY <2>2, <2>3 DEF ServerTypeOK
<1> QED
  BY <1>4, <1>5 DEF OnInterest

LEMMA CallbackType ==
    ASSUME TypeOK, ServerTypeOK, Callback
    PROVE  ServerTypeOK'
<1>1. serve.pc # "idle"
  BY DEF Callback, FinalizeRow, SelectSegment, SelectVersion, SelectFails,
     FinalizeSegment, FinalizeVersion, Stat, Open, Read, Reply, Doing
<1>2. /\ serve \in Serve
      /\ serve.path \in Path /\ serve.node \in Path
      /\ serve.seg \in Nat /\ serve.total \in Int /\ serve.sized \in BOOLEAN
      /\ serve.sig \in Signature \cup {Garbage} /\ serve.data \in Content
  BY <1>1, ServingType
<1>3. ASSUME Done PROVE ServerTypeOK'
  BY <1>3 DEF Done, ServerTypeOK
<1>4. ASSUME NEW pc \in ServePC, NEW sig \in Signature \cup {Garbage},
             NEW total \in Int, NEW sized \in BOOLEAN, NEW data \in Content,
             Proceed(pc, sig, total, sized, data)
      PROVE  ServerTypeOK'
  <2>1. serve' \in Serve
    BY <1>2, <1>4, LocalsType DEF Proceed
  <2> QED
    BY <1>4, <2>1 DEF Proceed, ServerTypeOK
<1>5. ASSUME NEW pc \in ServePC, Proceeds(pc) PROVE ServerTypeOK'
  BY <1>2, <1>4, <1>5 DEF Proceeds
<1>6. CASE FinalizeRow \/ FinalizeVersion \/ SelectVersion \/ SelectFails \/ Open \/ Reply
  <2>1. Done \/ \E pc \in ServePC : Proceeds(pc)
    BY <1>6 DEF FinalizeRow, FinalizeVersion, SelectVersion, SelectFails, Open, Reply,
       ServePC, Finalizing
  <2> QED
    BY <1>3, <1>5, <2>1
<1>7. CASE \E s \in fileSegments : SelectSegment(s)
  <2>1. PICK s \in fileSegments : SelectSegment(s)
    BY <1>7
  <2>2. s.signature \in Signature
    BY DEF TypeOK, SegmentRow
  <2>3. Proceed("finalize_segment", s.signature, serve.total, serve.sized, serve.data)
    BY <2>1 DEF SelectSegment
  <2> QED
    BY <1>2, <1>4, <2>2, <2>3 DEF ServePC, Finalizing
<1>8. CASE FinalizeSegment
  <2>1. PICK sig \in {serve.sig, Garbage} :
            Proceed("stat", sig, serve.total, serve.sized, serve.data)
    BY <1>8 DEF FinalizeSegment
  <2> QED
    BY <1>2, <1>4, <2>1 DEF ServePC
<1>9. CASE Stat
  <2>1. PICK n, sized :
            /\ Measured(n, sized)
            /\ \/ n = TotalSegments(disk[serve.path].data) /\ sized = TRUE
               \/ n \in -MaxTotal .. MaxTotal /\ sized = FALSE
    BY <1>9 DEF Stat
  <2>2. n \in Int
    BY <1>2, <2>1, DiskType, TotalType, MaxTotalAssumption
  <2> QED
    BY <1>2, <1>4, <2>1, <2>2 DEF Measured, ServePC
<1>10. CASE Read
  <2>1. ReadSegment \in Content
    BY <1>2, DiskType, SegmentType DEF ReadSegment
  <2>2. Done \/ Proceed("reply", serve.sig, serve.total, serve.sized, ReadSegment)
    BY <1>10 DEF Read
  <2> QED
    BY <1>2, <1>3, <1>4, <2>1, <2>2 DEF ServePC
<1> QED
  BY <1>6, <1>7, <1>8, <1>9, <1>10 DEF Callback

LEMMA FileSystemType ==
    ASSUME TypeOK, ServerTypeOK, FileSystemStep
    PROVE  ServerTypeOK'
<1>1. touched' \in BOOLEAN /\ mounted' \in BOOLEAN
  BY DEF FileSystemStep, Touch, Death, Restart, ServerTypeOK
<1>2. serve' = serve \/ serve' = NoServe
      \/ \E t \in Threads : /\ Doing("read") /\ At(t, "rename_file")
                            /\ Locals("read", call[t].to, serve.sig, serve.total, serve.sized, serve.data)
  BY DEF FileSystemStep, Death, Restart, Follow
<1>3. ASSUME NEW t \in Threads, Doing("read"), At(t, "rename_file"),
             Locals("read", call[t].to, serve.sig, serve.total, serve.sized, serve.data)
      PROVE  serve' \in Serve
  <2>1. call[t].to \in Path
    BY <1>3, ActiveCall DEF At
  <2> QED
    BY <1>3, <2>1, ServingType, LocalsType DEF Doing, ServePC
<1> QED
  BY <1>1, <1>2, <1>3 DEF ServerTypeOK

LEMMA ServerTypes ==
    ASSUME TypeOK, ServerTypeOK, [ServerNext]_allVars
    PROVE  ServerTypeOK'
<1>1. CASE UNCHANGED allVars
  BY <1>1 DEF allVars, serverVars, ServerTypeOK
<1> QED
  BY <1>1, OnInterestType, CallbackType, FileSystemType DEF ServerNext, ServerStep
-----------------------------------------------------------------------------
(* The steps of the callback *)

LEMMA ProceedHonest ==
    ASSUME UNCHANGED fsVars,
           NEW pc, NEW sig, NEW total, NEW sized, NEW data,
           Proceed(pc, sig, total, sized, data),
           ~touched => Holds(pc, serve.kind, serve.path, serve.node, serve.ver, serve.seg,
                             sig, total, sized, data)
    PROVE  Honest'
<1> SUFFICES ASSUME ~touched' PROVE Honest'
  BY DEF Honest
<1>1. /\ serve'.pc = pc /\ serve'.node = serve.node /\ serve'.sig = sig
      /\ serve'.total = total /\ serve'.sized = sized /\ serve'.data = data
      /\ serve'.kind = serve.kind /\ serve'.path = serve.path
      /\ serve'.ver = serve.ver /\ serve'.seg = serve.seg
  BY DEF Proceed, Locals
<1>2. Holds(pc, serve.kind, serve.path, serve.node, serve.ver, serve.seg,
            sig, total, sized, data)
  BY DEF Proceed
<1>3. disk' = disk /\ fileSegments' = fileSegments
  BY DEF fsVars, tables
<1> QED
  BY <1>1, <1>2, <1>3 DEF Honest, Holds

LEMMA DoneHonest == ASSUME Done PROVE Honest'
BY DEF Done, NoServe, Honest

LEMMA OnInterestHonest ==
    ASSUME OnInterest
    PROVE  Honest'
<1>1. CASE \E s \in fileSegments : OnSegmentInterest(s)
  <2>1. PICK s \in fileSegments : OnSegmentInterest(s)
    BY <1>1
  <2>2. s \in fileSegments'
    BY <2>1 DEF OnSegmentInterest, fsVars, tables
  <2>3. serve' = Request("finalize_segment", "content", s.path, s.version, s.segment,
                         s.signature)
    BY <2>1 DEF OnSegmentInterest, Starts
  <2> QED
    BY <2>2, <2>3 DEF Request, Honest, Holds
<1>2. CASE \/ \E r \in fileSystem, v \in 0..MaxClock : OnVersionInterest(r, v)
           \/ \E r \in fileSystem : OnInfoInterest(r)
  <2>1. /\ serve'.pc = "finalize_row"
        /\ serve'.node = serve'.path
    BY <1>2 DEF OnVersionInterest, OnInfoInterest, Starts, Request
  <2> QED
    BY <2>1 DEF Honest, Holds
<1> QED
  BY <1>1, <1>2 DEF OnInterest

LEMMA CallbackHonest ==
    ASSUME Honest, Callback
    PROVE  Honest'
<1>1. UNCHANGED fsVars /\ serve.pc # "idle"
  BY DEF Callback, FinalizeRow, SelectSegment, SelectVersion, SelectFails,
     FinalizeSegment, FinalizeVersion, Stat, Open, Read, Reply, Doing
<1>2. CASE FinalizeRow \/ FinalizeVersion \/ SelectVersion \/ SelectFails
           \/ Open \/ Reply
  <2>1. \/ Done
        \/ \E pc \in ServePC :
              /\ Proceeds(pc)
              /\ \/ pc = "select_segment"
                 \/ pc = "select_version" /\ serve.kind # "content"
                 \/ pc \in {"finalize_version", "stat"}
                       /\ serve.pc \in {"select_version", "finalize_version"}
                 \/ pc = "read" /\ serve.pc = "open" /\ disk[serve.path].kind = "reg"
    BY <1>2 DEF FinalizeRow, FinalizeVersion, SelectVersion, SelectFails, Open, Reply,
       Doing, ServePC, Finalizing
  <2>2. CASE Done
    BY <2>2, DoneHonest
  <2>3. CASE ~Done
    <3>1. PICK pc \in ServePC :
              /\ Proceeds(pc)
              /\ \/ pc = "select_segment"
                 \/ pc = "select_version" /\ serve.kind # "content"
                 \/ pc \in {"finalize_version", "stat"}
                       /\ serve.pc \in {"select_version", "finalize_version"}
                 \/ pc = "read" /\ serve.pc = "open" /\ disk[serve.path].kind = "reg"
      BY <2>1, <2>3
    <3>2. ~touched => Holds(pc, serve.kind, serve.path, serve.node, serve.ver, serve.seg,
                            serve.sig, serve.total, serve.sized, serve.data)
      BY <1>1, <3>1 DEF Honest, Holds
    <3> QED
      BY <1>1, <3>1, <3>2, ProceedHonest DEF Proceeds
  <2> QED
    BY <2>2, <2>3
<1>3. CASE \E s \in fileSegments : SelectSegment(s)
  <2>1. PICK s \in fileSegments : SelectSegment(s)
    BY <1>3
  <2>2. s.path = serve.path /\ s.version = serve.ver /\ s.segment = serve.seg
    BY <2>1 DEF SelectSegment
  <2>3. ~touched => Holds("finalize_segment", serve.kind, serve.path, serve.node,
                          serve.ver, serve.seg, s.signature, serve.total, serve.sized, serve.data)
    BY <1>1, <2>2 DEF Honest, Holds
  <2> QED
    BY <1>1, <2>1, <2>3, ProceedHonest DEF SelectSegment
<1>4. CASE FinalizeSegment
  <2>1. PICK sig \in {serve.sig, Garbage} :
            Proceed("stat", sig, serve.total, serve.sized, serve.data)
    BY <1>4 DEF FinalizeSegment
  <2>2. ~touched => Holds("stat", serve.kind, serve.path, serve.node, serve.ver,
                          serve.seg, sig, serve.total, serve.sized, serve.data)
    BY <1>4 DEF FinalizeSegment, Doing, Honest, Holds
  <2> QED
    BY <1>1, <2>1, <2>2, ProceedHonest
<1>5. CASE Stat
  <2>1. PICK n, sized :
            /\ Measured(n, sized)
            /\ disk[serve.path].kind = "reg" /\ sized
                  => n = TotalSegments(disk[serve.path].data)
    BY <1>5 DEF Stat
  <2>2. ~touched => Holds(IF serve.kind = "content" THEN "open" ELSE "reply",
                          serve.kind, serve.path, serve.node, serve.ver,
                          serve.seg, serve.sig, n, sized, serve.data)
    BY <1>5, <2>1 DEF Stat, Doing, Honest, Holds
  <2> QED
    BY <1>1, <2>1, <2>2, ProceedHonest DEF Measured
<1>6. CASE Read
  <2>1. CASE Done
    BY <2>1, DoneHonest
  <2>2. CASE Proceed("reply", serve.sig, serve.total, serve.sized, ReadSegment)
    <3>1. ~touched => Holds("reply", serve.kind, serve.path, serve.node, serve.ver,
                            serve.seg, serve.sig, serve.total, serve.sized, ReadSegment)
      BY <1>6 DEF Read, Doing, Honest, Holds, ReadSegment
    <3> QED
      BY <1>1, <2>2, <3>1, ProceedHonest
  <2> QED
    BY <1>6, <2>1, <2>2 DEF Read
<1> QED
  BY <1>2, <1>3, <1>4, <1>5, <1>6 DEF Callback
-----------------------------------------------------------------------------
(* The steps of the file system: what touches the name is noted. *)

LEMMA Untouched ==
    ASSUME Touch, ~touched', serve'.pc # "idle", NEW p, p = serve.path
    PROVE  /\ ~touched
           /\ disk'[p] = disk[p]
           /\ \A s \in fileSegments : s.path = p => s \in fileSegments'
<1>1. ~touched /\ View(p)' = View(p)
  BY DEF Touch
<1>2. /\ disk'[p] = disk[p]
      /\ {s \in fileSegments' : s.path = p} = {s \in fileSegments : s.path = p}
  BY <1>1 DEF View
<1> QED
  BY <1>1, <1>2

LEMMA AcceptIdle == ASSUME NEW t \in Threads, Accept(t) PROVE Idle(t)
BY DEF Accept, MknodSelect, CreateSymlink, OpenForWrite, Write, Truncate, ReleaseSelect,
   UnlinkEntry, RenameSystem, Begin

\* A descriptor that follows its file leaves the name served behind: a change of it.
LEMMA FollowTouches ==
    ASSUME TypeOK, ServerTypeOK, Honest, NEW t \in Threads, Continue(t) \/ Accept(t),
           Follow(t), Touch, ~touched', serve'.pc # "idle"
    PROVE  serve' = serve
<1> SUFFICES ASSUME Doing("read"), At(t, "rename_file"), call[t].path = serve.node,
                    disk' # disk,
                    Locals("read", call[t].to, serve.sig, serve.total, serve.sized, serve.data)
             PROVE  FALSE
  BY DEF Follow
<1>1. serve.pc # "idle"
  BY DEF Doing
<1>2. PICK p \in Path : p = serve.path
  BY <1>1, ServingType
<1>3. ~touched /\ disk'[p] = disk[p]
  BY <1>2, Untouched
<1>4. serve.node = p /\ disk[p].kind = "reg"
  BY <1>1, <1>2, <1>3 DEF Honest, Holds, Doing
<1>5. Continue(t)
  BY AcceptIdle DEF At, Idle
<1>6. RenameFile(t) \/ RenameFails(t)
  BY <1>5 DEF At, Continue, MknodVersion, MknodRow, MknodCreate, MknodFails,
     ReleaseUpdate, ReleaseUpdateLost, ReleaseVersion, ReleaseOpen, ReleaseRead,
     ReleaseSign, ReleaseFails, UnlinkAgain, UnlinkFile, UnlinkFails,
     RenameVersions, RenameSegments
<1>7. RenameFile(t)
  BY <1>6 DEF RenameFails
<1>8. disk'[p] = Absent
  <2>1. disk' = [disk EXCEPT ![call[t].to] = disk[call[t].path], ![call[t].path] = Absent]
    BY <1>7 DEF RenameFile
  <2>2. call[t].path = p
    BY <1>4
  <2> QED
    BY <2>1, <2>2 DEF TypeOK
<1> QED
  BY <1>3, <1>4, <1>8 DEF Absent

LEMMA FileSystemHonest ==
    ASSUME TypeOK, ServerTypeOK, Honest, FileSystemStep
    PROVE  Honest'
<1> SUFFICES ASSUME serve'.pc # "idle", ~touched' PROVE Honest'
  BY DEF Honest
<1>1. Touch
  BY DEF FileSystemStep
<1>2. serve' = serve
  <2>1. CASE Death \/ Restart
    BY <2>1 DEF Death, Restart, NoServe
  <2>2. CASE \E t \in Threads : (Continue(t) \/ Accept(t)) /\ Follow(t)
    BY <1>1, <2>2, FollowTouches
  <2> QED
    BY <2>1, <2>2 DEF FileSystemStep
<1>3. serve.pc # "idle"
  BY <1>2
<1>4. PICK p \in Path : p = serve.path
  BY <1>3, ServingType
<1>5. /\ ~touched
      /\ disk'[p] = disk[p]
      /\ \A s \in fileSegments : s.path = p => s \in fileSegments'
  BY <1>1, <1>4, Untouched
<1>6. Holds(serve.pc, serve.kind, p, serve.node, serve.ver, serve.seg,
            serve.sig, serve.total, serve.sized, serve.data)
  BY <1>3, <1>4, <1>5 DEF Honest
<1> QED
  BY <1>2, <1>4, <1>5, <1>6 DEF Honest, Holds

-----------------------------------------------------------------------------
(* What the reply says of the file *)

LEMMA SegmentNumber ==
    ASSUME NEW d \in Content, NEW n \in Nat, Segment(d, n) # <<>>
    PROVE  n \in 0..LastSegment(d)
<1> DEFINE k == LastSegment(d)
<1>1. Len(d) \in Nat /\ SegSize \in Nat \ {0} /\ n * SegSize \in Nat
  BY SegSizeAssumption, Product DEF Content
<1>2. k \in Nat /\ Len(d) < k * SegSize + SegSize
  <2>1. Len(d) \div SegSize \in Nat /\ Len(d) % SegSize \in 0..(SegSize - 1)
    BY <1>1
  <2>2. Len(d) = (Len(d) \div SegSize) * SegSize + (Len(d) % SegSize)
    BY <1>1
  <2>3. (Len(d) \div SegSize) * SegSize \in Nat
    BY <1>1, <2>1, Product
  <2> QED
    BY <1>1, <2>1, <2>2, <2>3 DEF LastSegment
<1>3. n * SegSize <= Len(d)
  <2> DEFINE lo == n * SegSize
             hi == IF (n + 1) * SegSize <= Len(d) THEN (n + 1) * SegSize ELSE Len(d)
  <2>1. (n + 1) * SegSize = lo + SegSize
    BY <1>1, Product
  <2>2. hi \in Nat /\ hi <= Len(d)
    BY <1>1, <2>1
  <2>3. Segment(d, n) = SubSeq(d, lo + 1, hi)
    BY DEF Segment
  <2> HIDE DEF lo, hi
  <2>4. lo \in Nat
    BY <1>1 DEF lo
  <2>5. lo + 1 > hi => SubSeq(d, lo + 1, hi) = <<>>
    BY <2>2, <2>4 DEF Content
  <2>6. lo < hi
    BY <2>2, <2>3, <2>4, <2>5
  <2> QED
    BY <1>1, <2>2, <2>4, <2>6 DEF lo
<1> HIDE DEF k
<1>4. k < n => k * SegSize + SegSize <= n * SegSize
  BY <1>1, <1>2, Product
<1>5. k * SegSize \in Nat
  BY <1>1, <1>2, Product
<1>6. n <= k
  BY <1>1, <1>2, <1>3, <1>4, <1>5
<1> QED
  BY <1>2, <1>6 DEF k

LEMMA SegmentsFill ==
    ASSUME NEW d \in Content
    PROVE  Len(d) <= TotalSegments(d) * SegSize
<1> DEFINE k == Len(d) \div SegSize
<1>1. Len(d) \in Nat /\ SegSize \in Nat \ {0}
  BY SegSizeAssumption DEF Content
<1>2. k \in Nat /\ Len(d) % SegSize \in 0..(SegSize - 1)
  BY <1>1
<1>3. Len(d) = k * SegSize + (Len(d) % SegSize)
  BY <1>1
<1> HIDE DEF k
<1>4. k * SegSize \in Nat /\ (k + 1) * SegSize = k * SegSize + SegSize
  BY <1>1, <1>2, Product
<1>5. Len(d) <= (k + 1) * SegSize
  BY <1>1, <1>2, <1>3, <1>4
<1> QED
  BY <1>5 DEF k, TotalSegments, LastSegment
-----------------------------------------------------------------------------
(* The invariant of the two processes, and what it says of an answer. *)

ServerInv == SignedInv /\ ServerTypeOK /\ KeysOnce /\ Honest

LEMMA ServerInitial == ServerInit => ServerInv
<1> SUFFICES ASSUME ServerInit PROVE ServerInv
  OBVIOUS
<1>1. SignedInv
  BY SignedInitial DEF ServerInit
<1>2. ServerTypeOK /\ Honest /\ KeysOnce
  BY DEF ServerInit, Init, NoServe, ServerTypeOK, Honest, KeysOnce
<1> QED
  BY <1>1, <1>2 DEF ServerInv

LEMMA StepIsSeen ==
    ASSUME TypeOK, [ServerNext]_allVars
    PROVE  [Next]_vars
<1>1. CASE UNCHANGED allVars
  BY <1>1 DEF allVars
<1> QED
  BY <1>1, FileSystemStepIsSeen, ServerStepIsSeen DEF ServerNext

LEMMA ServerStill ==
    ASSUME Honest, UNCHANGED allVars
    PROVE  Honest'
<1>1. serve' = serve /\ touched' = touched /\ disk' = disk /\ fileSegments' = fileSegments
  BY DEF allVars, serverVars, vars
<1> QED
  BY <1>1 DEF Honest, Holds

LEMMA ServerInvariant ==
    ASSUME OneThread, ServerInv, [ServerNext]_allVars
    PROVE  ServerInv'
<1>1. TypeOK /\ ServerTypeOK /\ KeysOnce /\ Honest
  BY DEF ServerInv, SignedInv
<1>2. [Next]_vars
  BY <1>1, StepIsSeen
<1>3. SignedInv'
  BY <1>2, SignedNext DEF ServerInv
<1>4. ServerTypeOK'
  BY <1>1, ServerTypes
<1>5. KeysOnce'
  BY <1>1, <1>2, NextKeys
<1>6. Honest'
  BY <1>1, ServerStill, FileSystemHonest, OnInterestHonest, CallbackHonest
     DEF ServerNext, ServerStep
<1> QED
  BY <1>3, <1>4, <1>5, <1>6 DEF ServerInv

\* The rows of a settled version are those of the file.
LEMMA SettledRows ==
    ASSUME ServerInv, Settled, NEW p \in Path, NEW v \in Nat,
           p = serve.path, v = serve.ver
    PROVE  \A n \in 0..LastSegment(disk[p].data) :
               ProperRow(p, v, n, disk[p].data) \in fileSegments
<1>1. PICK r \in fileSystem : r.path = p /\ r.current_version = v
  BY DEF Settled
<1>2. disk[p].kind = "reg" /\ ~dirty[p] /\ ~Releasing(p)
  BY DEF Settled
<1>3. Covered(r)
  BY DEF ServerInv, SignedInv, Signed
<1> QED
  BY <1>1, <1>2, <1>3 DEF Covered

LEMMA AnswerGenuine == ServerInv => ContentGenuine
<1> SUFFICES ASSUME ServerInv, Settled, serve.kind = "content", serve.data # <<>>,
                    serve.sig # Garbage
             PROVE  serve.sig = [path |-> serve.path, content |-> serve.data]
  BY DEF ContentGenuine
<1>1. serve.pc = "reply" /\ ~touched
  BY DEF Settled, Doing
<1>2. PICK p \in Path, v \in Nat, n \in Nat :
          serve.path = p /\ serve.ver = v /\ serve.seg = n
  BY <1>1, ServingType DEF ServerInv
<1> DEFINE d == disk[p].data
<1>3. Holds("reply", "content", p, serve.node, v, n, serve.sig, serve.total, serve.sized, serve.data)
  BY <1>1, <1>2 DEF ServerInv, Honest
<1>4. serve.data = Segment(d, n)
  BY <1>3 DEF Holds
<1>5. d \in Content
  BY DiskType DEF ServerInv, SignedInv
<1>6. n \in 0..LastSegment(d)
  BY <1>4, <1>5, SegmentNumber
<1>7. ProperRow(p, v, n, d) \in fileSegments
  BY <1>2, <1>6, SettledRows
<1>8. PICK s \in fileSegments : /\ s.path = p /\ s.version = v /\ s.segment = n
                                /\ s.signature = serve.sig
  BY <1>3 DEF Holds
<1> HIDE DEF d
<1>9. s = ProperRow(p, v, n, d)
  <2> DEFINE r == ProperRow(p, v, n, d)
  <2>1. r.path = p /\ r.version = v /\ r.segment = n
    BY DEF ProperRow
  <2>2. r \in fileSegments
    BY <1>7
  <2> HIDE DEF r
  <2>3. s = r
    BY <1>8, <2>1, <2>2 DEF ServerInv, KeysOnce
  <2> QED
    BY <2>3 DEF r
<1>10. s.signature = [path |-> p, content |-> Segment(d, n)]
  BY <1>9 DEF ProperRow
<1> QED
  BY <1>2, <1>4, <1>8, <1>10

LEMMA AnswerAnnounces == ServerInv => AnnouncedSegmentsSigned
<1> SUFFICES ASSUME ServerInv, Settled, serve.sized
             PROVE  /\ serve.total > 0
                    /\ Len(disk[serve.path].data) <= serve.total * SegSize
                    /\ \A n \in 0..(serve.total - 1) :
                          \E s \in fileSegments : /\ s.path = serve.path
                                                  /\ s.version = serve.ver
                                                  /\ s.segment = n
  BY DEF AnnouncedSegmentsSigned
<1>1. serve.pc = "reply" /\ ~touched /\ disk[serve.path].kind = "reg"
  BY DEF Settled, Doing
<1>2. PICK p \in Path, v \in Nat : serve.path = p /\ serve.ver = v
  BY <1>1, ServingType DEF ServerInv
<1> DEFINE d == disk[p].data
<1>3. serve.total = TotalSegments(d)
  <2>1. Holds("reply", serve.kind, p, serve.node, v, serve.seg,
              serve.sig, serve.total, serve.sized, serve.data)
    BY <1>1, <1>2 DEF ServerInv, Honest
  <2> QED
    BY <1>1, <1>2, <2>1 DEF Holds
<1>4. d \in Content
  BY DiskType DEF ServerInv, SignedInv
<1>5. serve.total > 0 /\ Len(d) <= serve.total * SegSize
  <2>1. LastSegment(d) \in Nat
    BY <1>4, TotalType
  <2> QED
    BY <1>3, <1>4, <2>1, SegmentsFill DEF TotalSegments
<1>6. ASSUME NEW n \in 0..(serve.total - 1)
      PROVE  \E s \in fileSegments : s.path = p /\ s.version = v /\ s.segment = n
  <2>1. n \in 0..LastSegment(d)
    BY <1>3, <1>4, <1>6, TotalType DEF TotalSegments
  <2>2. ProperRow(p, v, n, d) \in fileSegments
    BY <1>2, <2>1, SettledRows
  <2> HIDE DEF d
  <2>3. /\ ProperRow(p, v, n, d).path = p /\ ProperRow(p, v, n, d).version = v
        /\ ProperRow(p, v, n, d).segment = n
    BY DEF ProperRow
  <2> QED
    BY <2>2, <2>3
<1> QED
  BY <1>2, <1>5, <1>6

\* The locals of the callback keep their types, whatever the file system does to the
\* name between two of its statements, and a stat that fails makes of the total.
THEOREM ServerTypeCorrect == ServerSpec => []ServerTypeOK
<1>1. ServerInit => TypeOK /\ ServerTypeOK
  <2>1. ServerInit => ServerTypeOK
    BY DEF ServerInit, ServerTypeOK
  <2> QED
    BY <2>1, TypeInit DEF ServerInit
<1>2. TypeOK /\ ServerTypeOK /\ [ServerNext]_allVars => (TypeOK /\ ServerTypeOK)'
  BY StepIsSeen, TypePreserved, ServerTypes
<1> QED
  BY <1>1, <1>2, PTL DEF ServerSpec

(***************************************************************************)
(* With one FUSE thread, a segment of a settled version goes out under a   *)
(* signature over its own name and bytes, although sendFileContent reads   *)
(* signature, size and bytes at different moments from two stores, for     *)
(* files of any size and whatever is renamed, removed or written meanwhile.*)
(***************************************************************************)
THEOREM AnswersAreGenuine ==
    ASSUME OneThread
    PROVE  ServerSpec => []ContentGenuine
BY ServerInitial, ServerInvariant, AnswerGenuine, PTL DEF ServerSpec

(***************************************************************************)
(* With one FUSE thread, the total that readFileSize makes of a file's     *)
(* size, once its stat has told it, covers the file and promises no segment*)
(* that ndnfs_release has not signed.                                      *)
(***************************************************************************)
THEOREM AnnouncedAreSigned ==
    ASSUME OneThread
    PROVE  ServerSpec => []AnnouncedSegmentsSigned
BY ServerInitial, ServerInvariant, AnswerAnnounces, PTL DEF ServerSpec
=============================================================================
