---------------------------- MODULE StoreProofs ----------------------------
(***************************************************************************)
(* With one FUSE thread, Ndnfs implements Store, for any names, contents   *)
(* and faults.                                                             *)
(*                                                                         *)
(* The invariants of the other modules say what a handler has established  *)
(* when it stands at a statement; Handlers adds what the statements leave  *)
(* to be seen when it returns.  Most steps change nothing Store can see, or*)
(* damage the names of the handler (StepStill); mknod, the changes of      *)
(* content, release, unlink and rename have one step each that does.       *)
(***************************************************************************)
EXTENDS NdnfsStore, NdnfsEntryProofs, NdnfsContentProofs

Clean(p) == blemish[p] = {}

\* What the handler at pc, on p or on p and q with version v, has done to the tables.
Leaves(pc, p, q, v) ==
    /\ pc = "mknod_create" => \A r \in fileSystem : r.path = p => r.current_version = v
    /\ pc \in ReleasePC => HasRow(p)
    /\ pc \in RenamePC /\ Clean(q) => Clean(p)
    /\ pc \in {"rename_segments", "rename_file"} /\ Clean(p) =>
          \A w \in fileVersions : w.path # p
    /\ pc = "rename_file" /\ Clean(p) => \A s \in fileSegments : s.path # p

Handlers ==
    /\ readLock => Faults # {}
    /\ \A t \in Threads : Leaves(call[t].pc, call[t].path, call[t].to, call[t].ver)

StoreInv == VersionInv /\ Entries /\ Signed /\ Latest /\ Handlers

-----------------------------------------------------------------------------
(* Handlers is inductive *)

\* Only faults and collisions of renames leave a mark.
LEMMA OnlyFaults ==
    ASSUME TypeOK, readLock => Faults # {}, [Next]_vars,
           ~\E t \in Threads : \E p, q \in Path : RenameSystem(t, p, q)
    PROVE  Faults # {} \/ blemish' = blemish
<1> SUFFICES ASSUME Faults = {} PROVE blemish' = blemish
  OBVIOUS
<1>1. ~readLock /\ Lost = {}
  BY DEF Lost
<1>2. \A ps : Mark(ps, {}) => blemish' = blemish
  BY DEF Mark, TypeOK
<1>3. ASSUME NEW t \in Threads, Continue(t) PROVE blemish' = blemish
  <2>1. CASE \/ MknodVersion(t) \/ MknodRow(t) \/ ReleaseVersion(t) \/ UnlinkAgain(t)
             \/ RenameVersions(t) \/ RenameSegments(t) \/ ReleaseSign(t)
    BY <1>1, <1>2, <2>1 DEF MknodVersion, MknodRow, ReleaseVersion, UnlinkAgain,
       RenameVersions, RenameSegments, ReleaseSign
  <2>2. CASE \/ MknodCreate(t) \/ ReleaseUpdate(t) \/ ReleaseUpdateLost(t)
             \/ ReleaseOpen(t) \/ ReleaseRead(t) \/ ReleaseFails(t)
             \/ UnlinkFile(t) \/ RenameFile(t)
    BY <2>2 DEF MknodCreate, ReleaseUpdate, ReleaseUpdateLost, ReleaseOpen,
       ReleaseRead, ReleaseFails, UnlinkFile, RenameFile, history
  <2> QED
    BY <1>3, <2>1, <2>2 DEF Continue, MknodFails, UnlinkFails, RenameFails
<1>4. ASSUME NEW t \in Threads, Accept(t) PROVE blemish' = blemish
  BY <1>1, <1>2, <1>4 DEF Accept, MknodSelect, CreateSymlink, OpenForWrite, Write, Truncate,
     ReleaseSelect, UnlinkEntry, history
<1> QED
  BY <1>3, <1>4 DEF Next, World, Tick, ServerLocks, ServerUnlocks, Crash, vars, history

LEMMA HandlersBy ==
    ASSUME OneThread, NEW t \in Threads, NEW pc, NEW p, NEW q, NEW v,
           call'[t].pc = pc, call'[t].path = p, call'[t].to = q, call'[t].ver = v,
           Leaves(pc, p, q, v)', Handlers, readLock' = readLock
    PROVE  Handlers'
<1>1. \A u \in Threads : u = t
  BY DEF OneThread
<1>2. Leaves(call[t].pc, call[t].path, call[t].to, call[t].ver)'
  BY DEF Leaves, HasRow, Clean
<1> QED
  BY <1>1, <1>2 DEF Handlers

LEMMA HandlersIdle ==
    ASSUME OneThread, NEW t \in Threads, call'[t].pc = "idle", Handlers, readLock' = readLock
    PROVE  Handlers'
<1>1. \A u \in Threads : u = t
  BY DEF OneThread
<1>2. Leaves(call[t].pc, call[t].path, call[t].to, call[t].ver)'
  BY DEF Leaves, ReleasePC, RenamePC
<1> QED
  BY <1>1, <1>2 DEF Handlers

LEMMA HandlersStill ==
    ASSUME Handlers, UNCHANGED <<tables, call, blemish>>, readLock' => Faults # {}
    PROVE  Handlers'
<1>1. UNCHANGED <<fileSystem, fileVersions, fileSegments>>
  BY DEF tables
<1>2. ASSUME NEW t \in Threads
      PROVE  Leaves(call[t].pc, call[t].path, call[t].to, call[t].ver)'
  <2>1. Leaves(call[t].pc, call[t].path, call[t].to, call[t].ver)
    BY DEF Handlers
  <2> QED
    BY <1>1, <2>1 DEF Leaves, HasRow, Clean
<1> QED
  BY <1>2 DEF Handlers

LEMMA AcceptHandlers ==
    ASSUME TypeOK, OneThread, Handlers, NEW t \in Threads, Accept(t)
    PROVE  Handlers'
<1>1. ASSUME NEW p \in Path, NEW q \in Path, Begin(t, "rename_versions", p, q),
             readLock' = readLock, Clean(q)' => Clean(p)'
      PROVE  Handlers'
  <2>1. PICK v : call'[t].ver = v
    OBVIOUS
  <2>2. Leaves("rename_versions", p, q, v)'
    BY <1>1 DEF Leaves, ReleasePC, RenamePC
  <2> QED
    BY <1>1, <2>1, <2>2, BeginEffect, HandlersBy
<1>2. ASSUME NEW p \in Path, MknodSelect(t, p) \/ UnlinkEntry(t, p) PROVE Handlers'
  <2>1. PICK pc \in {"mknod_version", "unlink_again"} : Begin(t, pc, p, p)
    BY <1>2 DEF MknodSelect, UnlinkEntry
  <2>2. PICK v : call'[t].ver = v
    OBVIOUS
  <2>3. Leaves(pc, p, p, v)' /\ readLock' = readLock
    BY <1>2 DEF Leaves, ReleasePC, RenamePC, MknodSelect, UnlinkEntry
  <2> QED
    BY <2>1, <2>2, <2>3, BeginEffect, HandlersBy
<1>3. ASSUME NEW p \in Path, ReleaseSelect(t, p), HasRow(p) PROVE Handlers'
  <2>1. Begin(t, "release_update", p, p) /\ fileSystem' = fileSystem /\ readLock' = readLock
    BY <1>3 DEF ReleaseSelect, tables
  <2>2. PICK v : call'[t].ver = v
    OBVIOUS
  <2>3. Leaves("release_update", p, p, v)'
    BY <1>3, <2>1 DEF Leaves, HasRow
  <2> QED
    BY <2>1, <2>2, <2>3, BeginEffect, HandlersBy
<1>4. ASSUME NEW p \in Path,
             \/ CreateSymlink(t, p) \/ OpenForWrite(t, p)
             \/ \E off \in 0..(MaxLen - 1), b \in Byte : Write(t, p, off, b)
             \/ \E n \in 0..MaxLen : Truncate(t, p, n)
             \/ ReleaseSelect(t, p) /\ ~HasRow(p)
      PROVE  Handlers'
  <2>1. UNCHANGED <<tables, call, blemish, readLock>>
    BY <1>4 DEF CreateSymlink, OpenForWrite, Write, Truncate, ReleaseSelect, history
  <2> QED
    BY <2>1, HandlersStill DEF Handlers
<1>5. ASSUME NEW p \in Path, NEW q \in Path, RenameSystem(t, p, q) PROVE Handlers'
  <2>1. Clean(q)' => Clean(p)'
    BY <1>5, MarkGrows DEF RenameSystem, Mark, Clean, TypeOK
  <2> QED
    BY <1>1, <1>5, <2>1 DEF RenameSystem
<1> QED
  BY <1>2, <1>3, <1>4, <1>5 DEF Accept

LEMMA WorldHandlers ==
    ASSUME OneThread, Handlers, World
    PROVE  Handlers'
<1>1. CASE Tick \/ ServerLocks \/ ServerUnlocks
  <2>1. UNCHANGED <<tables, call, blemish>> /\ (readLock' => Faults # {})
    BY <1>1 DEF Tick, ServerLocks, ServerUnlocks, history, Handlers
  <2> QED
    BY <2>1, HandlersStill
<1>2. CASE Crash
  <2>1. readLock' = readLock /\ \A t \in Threads : call'[t].pc = "idle"
    BY <1>2 DEF Crash, IdleCall
  <2>2. ASSUME NEW t \in Threads
        PROVE  Leaves(call[t].pc, call[t].path, call[t].to, call[t].ver)'
    BY <2>1 DEF Leaves, ReleasePC, RenamePC
  <2> QED
    BY <2>1, <2>2 DEF Handlers
<1> QED
  BY <1>1, <1>2 DEF World

LEMMA ReleaseHandlers ==
    ASSUME TypeOK, OneThread, Handlers, NEW t \in Threads,
           \/ ReleaseUpdate(t) \/ ReleaseUpdateLost(t) \/ ReleaseVersion(t)
           \/ ReleaseOpen(t) \/ ReleaseRead(t) \/ ReleaseSign(t) \/ ReleaseFails(t)
    PROVE  Handlers'
<1>1. call[t].pc \in ReleasePC /\ call[t].pc # "idle" /\ readLock' = readLock
  BY DEF ReleaseUpdate, ReleaseUpdateLost, ReleaseVersion, ReleaseOpen, ReleaseRead,
     ReleaseSign, ReleaseFails, At, ReleasePC
<1>2. PICK p \in Path, q \in Path, v \in Nat :
          call[t].path = p /\ call[t].to = q /\ call[t].ver = v
  BY <1>1, ActiveCall
<1>3. HasRow(p)
  BY <1>1, <1>2 DEF Handlers, Leaves
<1>4. HasRow(p)'
  <2>1. CASE ReleaseUpdate(t)
    <3>1. fileSystem' = {IF r.path = p THEN [r EXCEPT !.current_version = v] ELSE r :
                             r \in fileSystem}
      BY <1>2, <2>1 DEF ReleaseUpdate
    <3>2. \A r \in fileSystem : [r EXCEPT !.current_version = v].path = r.path
      BY DEF TypeOK, SystemRow
    <3> QED
      BY <1>3, <3>1, <3>2 DEF HasRow
  <2>2. CASE fileSystem' = fileSystem
    BY <1>3, <2>2 DEF HasRow
  <2> QED
    BY <2>1, <2>2 DEF ReleaseUpdateLost, ReleaseVersion, ReleaseOpen, ReleaseRead,
       ReleaseSign, ReleaseFails, tables
<1>5. ASSUME NEW pc \in ReleasePC, call'[t].pc = pc, call'[t].path = p, call'[t].to = q,
             call'[t].ver = v
      PROVE  Handlers'
  <2>1. Leaves(pc, p, q, v)'
    BY <1>4 DEF Leaves, ReleasePC, RenamePC
  <2> QED
    BY <1>1, <1>5, <2>1, HandlersBy
<1>6. CASE \E pc \in ReleasePC : Goto(t, pc)
  BY <1>1, <1>2, <1>5, <1>6, GotoEffect
<1>7. CASE \E pc \in ReleasePC : \E seg, buf : Loop(t, pc, seg, buf)
  BY <1>2, <1>5, <1>7, LoopEffect
<1>8. CASE Return(t)
  BY <1>1, <1>8, ReturnEffect, HandlersIdle
<1> QED
  BY <1>6, <1>7, <1>8 DEF ReleaseUpdate, ReleaseUpdateLost, ReleaseVersion, ReleaseOpen,
     ReleaseRead, ReleaseSign, ReleaseFails, ReleasePC

\* What an UPDATE of a path leaves under the old name: nothing, if no row stood in its way.
LEMMA PathMoved ==
    ASSUME NEW table, NEW p, NEW q, p # q, NEW T, table \subseteq T,
           \A r \in T : [r EXCEPT !.path = q].path = q
    PROVE  \A r \in UpdatePath(table, p, q, FALSE) : r.path # p
BY DEF UpdatePath

LEMMA DirHandlers ==
    ASSUME VersionInv, Latest, OneThread, Handlers, NEW t \in Threads, [Next]_vars,
           \/ MknodVersion(t) \/ MknodRow(t) \/ UnlinkAgain(t)
           \/ RenameVersions(t) \/ RenameSegments(t)
    PROVE  Handlers'
<1>1. PICK pc \in {"mknod_row", "mknod_create", "unlink_file", "rename_segments",
                   "rename_file"} :
          /\ Goto(t, pc) /\ call[t].pc # "idle"
          /\ pc = "mknod_create" => MknodRow(t)
          /\ pc = "rename_segments" => RenameVersions(t)
          /\ pc = "rename_file" => RenameSegments(t)
  BY DEF MknodVersion, MknodRow, UnlinkAgain, RenameVersions, RenameSegments, At
<1>2. PICK p \in Path, q \in Path, v \in Nat :
          call[t].path = p /\ call[t].to = q /\ call[t].ver = v
  BY <1>1, ActiveCall DEF VersionInv
<1>3. call'[t].pc = pc /\ call'[t].path = p /\ call'[t].to = q /\ call'[t].ver = v
  BY <1>1, <1>2, GotoEffect DEF VersionInv
<1>4. readLock' = readLock
  BY DEF MknodVersion, MknodRow, UnlinkAgain, RenameVersions, RenameSegments
<1>5. Clean(p)' => Clean(p)
  BY BlemishStays DEF Clean, VersionInv
<1>r. pc \in RenamePC => (Clean(q)' => Clean(p)')
  <2> SUFFICES ASSUME pc \in {"rename_segments", "rename_file"}, Clean(q)' PROVE Clean(p)'
    BY <1>1 DEF RenamePC
  <2>1. Mark({p, q}, Lost) /\ call[t].pc \in RenamePC
    BY <1>1, <1>2 DEF RenameVersions, RenameSegments, At, RenamePC
  <2>2. Clean(q) /\ Lost = {}
    BY <2>1, MarkGrows DEF Clean, VersionInv
  <2>3. Clean(p)
    BY <1>2, <2>1, <2>2 DEF Handlers, Leaves
  <2> QED
    BY <2>1, <2>2, <2>3 DEF Mark, Clean
<1>6. CASE pc \in {"mknod_row", "unlink_file"}
  <2>1. Leaves(pc, p, q, v)'
    BY <1>6 DEF Leaves, ReleasePC, RenamePC
  <2> QED
    BY <1>3, <1>4, <2>1, HandlersBy
<1>7. CASE pc = "mknod_create"
  <2>1. ~HasRow(p)
    BY <1>1, <1>2, <1>7 DEF Latest, Ahead, MknodRow, At
  <2>2. \A r \in fileSystem' : r \in fileSystem \/ r.current_version = v
    BY <1>1, <1>2, <1>7, <2>1 DEF MknodRow, Commit
  <2>3. Leaves(pc, p, q, v)'
    BY <1>7, <2>1, <2>2 DEF Leaves, ReleasePC, RenamePC, HasRow
  <2> QED
    BY <1>3, <1>4, <2>3, HandlersBy
<1>8. CASE pc = "rename_segments"
  <2>1. call[t].pc = "rename_versions" /\ p # q
    BY <1>1, <1>2, <1>8 DEF RenameVersions, At, VersionInv, RenameDistinct, RenamePC
  <2>2. ASSUME Clean(p)' PROVE \A w \in fileVersions' : w.path # p
    <3>1. Mark({p, q}, Lost)
      BY <1>1, <1>2, <1>8 DEF RenameVersions
    <3>2. ~readLock
      BY <2>2, <3>1, MarkGrows DEF Clean, Lost, VersionInv
    <3>3. ~Parted(p)
      BY <1>5, <2>2 DEF Parted, Excused, Clean
    <3>4. \A w \in fileVersions : w.path # q
      BY <1>2, <2>1, <3>3 DEF VersionInv, RenameReady, RenameVersionsReady, At
    <3>5. fileVersions' = UpdatePath(fileVersions, p, q, FALSE)
      BY <1>1, <1>2, <1>8, <3>2, <3>4 DEF RenameVersions, Commit, VersionClash, UpdatePath
    <3>6. \A r \in VersionRow : [r EXCEPT !.path = q].path = q
      BY DEF VersionRow
    <3>7. fileVersions \subseteq VersionRow
      BY DEF VersionInv, TypeOK
    <3> QED
      BY <2>1, <3>5, <3>6, <3>7, PathMoved
  <2>3. Leaves(pc, p, q, v)'
    BY <1>8, <1>r, <2>2 DEF Leaves, ReleasePC, RenamePC
  <2> QED
    BY <1>3, <1>4, <2>3, HandlersBy
<1>9. CASE pc = "rename_file"
  <2>1. call[t].pc = "rename_segments" /\ p # q /\ fileVersions' = fileVersions
    BY <1>1, <1>2, <1>9 DEF RenameSegments, At, VersionInv, RenameDistinct, RenamePC
  <2>2. ASSUME Clean(p)' PROVE \A s \in fileSegments' : s.path # p
    <3>1. Mark({p, q}, Lost)
      BY <1>1, <1>2, <1>9 DEF RenameSegments
    <3>2. ~readLock
      BY <2>2, <3>1, MarkGrows DEF Clean, Lost, VersionInv
    <3>3. ~Parted(p)
      BY <1>5, <2>2 DEF Parted, Excused, Clean
    <3>4. \A s \in fileSegments : s.path # q
      BY <1>2, <2>1, <3>3 DEF VersionInv, RenameReady, RenameSegmentsReady, At
    <3>5. fileSegments' = UpdatePath(fileSegments, p, q, FALSE)
      BY <1>1, <1>2, <1>9, <3>2, <3>4 DEF RenameSegments, Commit, SegmentClash, UpdatePath
    <3>6. \A r \in SegmentRow : [r EXCEPT !.path = q].path = q
      BY DEF SegmentRow
    <3>7. fileSegments \subseteq SegmentRow
      BY DEF VersionInv, TypeOK
    <3> QED
      BY <2>1, <3>5, <3>6, <3>7, PathMoved
  <2>3. Clean(p) => \A w \in fileVersions : w.path # p
    BY <1>2, <2>1 DEF Handlers, Leaves
  <2>4. Leaves(pc, p, q, v)'
    BY <1>5, <1>9, <1>r, <2>1, <2>2, <2>3 DEF Leaves, ReleasePC, RenamePC
  <2> QED
    BY <1>3, <1>4, <2>4, HandlersBy
<1> QED
  BY <1>6, <1>7, <1>8, <1>9

LEMMA ReturnHandlers ==
    ASSUME TypeOK, OneThread, Handlers, NEW t \in Threads,
           \/ MknodCreate(t) \/ MknodFails(t) \/ UnlinkFile(t) \/ UnlinkFails(t)
           \/ RenameFile(t) \/ RenameFails(t)
    PROVE  Handlers'
<1>1. Return(t) /\ readLock' = readLock
  BY DEF MknodCreate, MknodFails, UnlinkFile, UnlinkFails, RenameFile, RenameFails
<1> QED
  BY <1>1, ReturnEffect, HandlersIdle

LEMMA NextHandlers ==
    ASSUME VersionInv, Latest, OneThread, Handlers, [Next]_vars
    PROVE  Handlers'
<1>0. TypeOK
  BY DEF VersionInv
<1>1. ASSUME UNCHANGED vars PROVE Handlers'
  <2>1. UNCHANGED <<tables, call, blemish, readLock>>
    BY <1>1 DEF vars, tables
  <2> QED
    BY <2>1, HandlersStill DEF Handlers
<1>2. ASSUME NEW t \in Threads, Continue(t) PROVE Handlers'
  BY <1>0, <1>2, DirHandlers, ReturnHandlers, ReleaseHandlers DEF Continue
<1> QED
  BY <1>0, <1>1, <1>2, AcceptHandlers, WorldHandlers DEF Next

LEMMA StoreInvariant ==
    ASSUME OneThread
    PROVE  Spec => []StoreInv
<1>1. Init => Latest /\ Handlers
  <2> SUFFICES ASSUME Init PROVE Latest /\ Handlers
    OBVIOUS
  <2>1. \A t \in Threads : call[t].pc = "idle"
    BY DEF Init, IdleCall
  <2>2. Latest
    BY <2>1 DEF Init, Latest, RowsLatest, Ahead, MknodPC, ReleasePC
  <2>3. Handlers
    BY <2>1 DEF Init, Handlers, Leaves, ReleasePC, RenamePC
  <2> QED
    BY <2>2, <2>3
<1>2. Init => StoreInv
  BY <1>1, VersionInit, EntryInit, SignedInitial DEF StoreInv, EntryInv, SignedInv
<1>3. StoreInv /\ [Next]_vars => Latest' /\ Handlers' /\ Entries' /\ Signed'
  BY NextLatest, NextHandlers, NextEntries, NextSigned DEF StoreInv, VersionInv, Locks, SignedInv
<1>4. StoreInv /\ Latest' /\ Handlers' /\ Entries' /\ Signed' /\ VersionInv' => StoreInv'
  BY DEF StoreInv
<1> QED
  BY <1>2, <1>3, <1>4, VersionInvariant, PTL DEF Spec

-----------------------------------------------------------------------------
(***************************************************************************)
(* What a name looks like, by where the one thread stands.  The facts hold *)
(* in any state, so they hold of the primed one.                           *)
(***************************************************************************)

Under(table, own) == {r \in table : r.path \in own}
Currents(own)  == {r.current_version : r \in Under(fileSystem, own)}
Recordeds(own) == {w.version : w \in Under(fileVersions, own)}
Storeds(own)   ==
    {[version |-> s.version, segment |-> s.segment, signature |-> s.signature] :
        s \in Under(fileSegments, own)}

Needed(x, current, entry) ==
    UNION {Signatures(x, v, e.data) : v \in current, e \in entry}

\* A name with this entry whose rows lie under the names in own; made and recorded are
\* the versions a handler has yet to put into file_system and file_versions.
Picture(entry, own, made, recorded, signed) ==
    LET current == Currents(own) \cup made IN
    [entry    |-> entry,
     current  |-> current,
     versions |-> Recordeds(own) \cup made \cup recorded,
     signed   |-> signed,
     old      |-> {s \in Storeds(own) : s.version \notin current}]

Lying(x) == {disk[x]} \ {Absent}

Seen(x, recorded, signing) ==
    Picture(Lying(x), {x}, {}, recorded,
            IF dirty[x] THEN {}
            ELSE IF signing THEN Needed(x, Currents({x}), Lying(x))
            ELSE Needed(x, Currents({x}), Lying(x)) \cap Storeds({x}))

Whole(x)    == Seen(x, {}, FALSE)
Coming(x, v) == Picture({Regular(<<>>)}, {x}, {v}, {}, {})
GoneFrom(x) == Picture({}, {x}, {}, {}, {})
Arriving(x, from) == Picture(Lying(from), {x, from}, {}, {}, {})

\* No handler of t concerns what x looks like.
Apart(t, x) ==
    /\ call[t].pc \in DirPC => x \notin {call[t].path, call[t].to}
    /\ call[t].pc \in ReleasePC => x # call[t].path

Signing == {"release_open", "release_read", "release_sign"}

Sight(t, x) ==
    LET c == call[t] IN
    /\ Apart(t, x) => Shown(x) = Whole(x)
    /\ \A v : c.pc \in MknodPC /\ c.path = x /\ c.to = x /\ c.ver = v =>
                Shown(x) = Coming(x, v)
    /\ c.pc \in UnlinkPC /\ c.path = x /\ c.to = x => Shown(x) = GoneFrom(x)
    /\ c.pc = "release_update" /\ c.path = x => Shown(x) = Whole(x)
    /\ \A v : c.pc = "release_version" /\ c.path = x /\ c.ver = v =>
                Shown(x) = Seen(x, {v}, TRUE)
    /\ c.pc \in Signing /\ c.path = x => Shown(x) = Seen(x, {}, TRUE)
    /\ \A p, q : c.pc \in RenamePC /\ c.path = p /\ c.to = q /\ {p, q} \subseteq Path /\ p # q =>
                   /\ x = p => Shown(x) = Nothing
                   /\ x = q => Shown(x) = Arriving(x, p)

\* Whose the locks, the rows and the versions under way are.
AloneOn(t, x) ==
    LET c == call[t] IN
    /\ Making(x) = IF c.pc \in MknodPC /\ c.path = x THEN {t} ELSE {}
    /\ Recording(x) = IF c.pc = "release_version" /\ c.path = x THEN {t} ELSE {}
    /\ \A q, r : Renaming(q, r) <=> c.pc \in RenamePC /\ c.path = q /\ c.to = r
    /\ NameLocked(x) <=> c.pc \in DirPC /\ x \in {c.path, c.to}
    /\ Releasing(x) <=> c.pc \in SigningPC /\ c.path = x

LEMMA Alone ==
    ASSUME OneThread, NEW t \in Threads, NEW x
    PROVE  AloneOn(t, x)
<1>1. \A u : u \in Threads <=> u = t
  BY DEF OneThread
<1> QED
  BY <1>1 DEF AloneOn, Making, Recording, Renaming, NameLocked, Releasing

MadeBy(x)     == {call[t].ver : t \in Making(x)}
RecordedBy(x) == {call[t].ver : t \in Recording(x)}

LEMMA ShownIsPicture ==
    ASSUME NEW x
    PROVE  Shown(x) = Picture(Entry(x), Owned(x), MadeBy(x), RecordedBy(x), Complete(x))
<1>1. /\ Rows(fileSystem, x) = Under(fileSystem, Owned(x))
      /\ Rows(fileVersions, x) = Under(fileVersions, Owned(x))
      /\ Rows(fileSegments, x) = Under(fileSegments, Owned(x))
  BY DEF Rows, Under
<1>2. Current(x) = Currents(Owned(x)) \cup MadeBy(x)
  BY <1>1 DEF Current, Currents, MadeBy
<1>3. Versions(x) = Recordeds(Owned(x)) \cup MadeBy(x) \cup RecordedBy(x)
  <2>1. {call[t].ver : t \in Making(x) \cup Recording(x)} = MadeBy(x) \cup RecordedBy(x)
    BY DEF MadeBy, RecordedBy
  <2> QED
    BY <1>1, <2>1 DEF Versions, Recordeds
<1>4. Stored(x) = Storeds(Owned(x))
  BY <1>1 DEF Stored, Storeds
<1> QED
  BY <1>2, <1>3, <1>4 DEF Shown, Picture

LEMMA SightAny ==
    ASSUME OneThread, NEW t \in Threads, NEW x \in Path
    PROVE  Sight(t, x)
<1> DEFINE c == call[t]
<1> USE DEF DirPC, MknodPC, UnlinkPC, RenamePC, ReleasePC, SigningPC
<1>0. AloneOn(t, x)
  BY Alone
<1>1. {call[u].ver : u \in {}} = {} /\ {call[u].ver : u \in {t}} = {c.ver}
  OBVIOUS
<1>2. {Regular(<<>>) : u \in {}} = {} /\ {Regular(<<>>) : u \in {t}} = {Regular(<<>>)}
  OBVIOUS
<1>3. ASSUME Apart(t, x) PROVE Shown(x) = Whole(x)
  <2>1. Owned(x) = {x} /\ Places(x) = {x} /\ Making(x) = {} /\ Recording(x) = {}
    BY <1>0, <1>3 DEF AloneOn, Apart, Owned, Places
  <2>2. Entry(x) = Lying(x)
    BY <1>2, <2>1 DEF Entry, Lying
  <2>3. ~NameLocked(x) /\ ~Releasing(x)
    BY <1>0, <1>3 DEF AloneOn, Apart
  <2>4. Complete(x) = IF dirty[x] THEN {}
                      ELSE Needed(x, Currents({x}), Lying(x)) \cap Storeds({x})
    <3>1. Current(x) = Currents({x}) /\ Stored(x) = Storeds({x})
      BY <1>1, <2>1 DEF Current, Stored, Currents, Storeds, Rows, Under
    <3> QED
      BY <2>2, <2>3, <3>1 DEF Complete, Needed
  <2>5. MadeBy(x) = {} /\ RecordedBy(x) = {}
    BY <2>1 DEF MadeBy, RecordedBy
  <2> QED
    BY <2>1, <2>2, <2>4, <2>5, ShownIsPicture DEF Whole, Seen
<1>4. ASSUME c.pc \in MknodPC, c.path = x, c.to = x PROVE Shown(x) = Coming(x, c.ver)
  <2>1. Owned(x) = {x} /\ Places(x) = {} /\ Making(x) = {t} /\ Recording(x) = {}
    BY <1>0, <1>4 DEF AloneOn, Owned, Places
  <2>2. Entry(x) = {Regular(<<>>)}
    BY <1>2, <2>1 DEF Entry
  <2>3. Complete(x) = {}
    BY <1>0, <1>4 DEF AloneOn, Complete
  <2>4. MadeBy(x) = {c.ver} /\ RecordedBy(x) = {}
    BY <2>1 DEF MadeBy, RecordedBy
  <2> QED
    BY <2>1, <2>2, <2>3, <2>4, ShownIsPicture DEF Coming
<1>5. ASSUME c.pc \in UnlinkPC, c.path = x, c.to = x PROVE Shown(x) = GoneFrom(x)
  <2>1. Owned(x) = {x} /\ Places(x) = {} /\ Making(x) = {} /\ Recording(x) = {}
    BY <1>0, <1>5 DEF AloneOn, Owned, Places
  <2>2. Entry(x) = {}
    BY <1>2, <2>1 DEF Entry
  <2>3. Complete(x) = {}
    BY <1>0, <1>5 DEF AloneOn, Complete
  <2>4. MadeBy(x) = {} /\ RecordedBy(x) = {}
    BY <2>1 DEF MadeBy, RecordedBy
  <2> QED
    BY <2>1, <2>2, <2>3, <2>4, ShownIsPicture DEF GoneFrom
<1>6. ASSUME c.pc \in ReleasePC, c.path = x, NEW recorded, NEW signing \in BOOLEAN,
             recorded = IF c.pc = "release_version" THEN {c.ver} ELSE {},
             signing <=> c.pc \in SigningPC
      PROVE  Shown(x) = Seen(x, recorded, signing)
  <2>1. /\ Owned(x) = {x} /\ Places(x) = {x} /\ Making(x) = {}
        /\ Recording(x) = IF c.pc = "release_version" THEN {t} ELSE {}
    BY <1>0, <1>6 DEF AloneOn, Owned, Places
  <2>2. Entry(x) = Lying(x)
    BY <1>2, <2>1 DEF Entry, Lying
  <2>3. ~NameLocked(x) /\ (Releasing(x) <=> c.pc \in SigningPC)
    BY <1>0, <1>6 DEF AloneOn
  <2>4. Complete(x) = IF dirty[x] THEN {}
                      ELSE IF signing THEN Needed(x, Currents({x}), Lying(x))
                      ELSE Needed(x, Currents({x}), Lying(x)) \cap Storeds({x})
    <3>1. Current(x) = Currents({x}) /\ Stored(x) = Storeds({x})
      BY <1>1, <2>1 DEF Current, Stored, Currents, Storeds, Rows, Under
    <3> QED
      BY <1>6, <2>2, <2>3, <3>1 DEF Complete, Needed
  <2>5. RecordedBy(x) = recorded
    BY <1>6, <2>1 DEF RecordedBy
  <2>6. MadeBy(x) = {}
    BY <2>1 DEF MadeBy, RecordedBy
  <2> QED
    BY <2>1, <2>2, <2>4, <2>5, <2>6, ShownIsPicture DEF Seen
<1>7. ASSUME c.pc \in RenamePC, c.to \in Path, c.path # c.to, c.path = x
      PROVE  Shown(x) = Nothing
  <2>1. Owned(x) = {} /\ Places(x) = {} /\ Making(x) = {} /\ Recording(x) = {}
    BY <1>0, <1>7 DEF AloneOn, Owned, Places
  <2>2. Entry(x) = {}
    BY <1>2, <2>1 DEF Entry
  <2>3. Complete(x) = {}
    BY <1>0, <1>7 DEF AloneOn, Complete
  <2>6. MadeBy(x) = {} /\ RecordedBy(x) = {}
    BY <2>1 DEF MadeBy, RecordedBy
  <2>4. Shown(x) = Picture({}, {}, {}, {}, {})
    BY <2>1, <2>2, <2>3, <2>6, ShownIsPicture
  <2>5. Currents({}) = {} /\ Recordeds({}) = {} /\ Storeds({}) = {}
    BY DEF Currents, Recordeds, Storeds, Under
  <2> QED
    BY <2>4, <2>5 DEF Picture, Nothing
<1>8. ASSUME c.pc \in RenamePC, c.path \in Path, c.path # c.to, c.to = x
      PROVE  Shown(x) = Arriving(x, c.path)
  <2>1. Owned(x) = {x, c.path} /\ Places(x) = {c.path} /\ Making(x) = {} /\ Recording(x) = {}
    BY <1>0, <1>8 DEF AloneOn, Owned, Places
  <2>2. Entry(x) = Lying(c.path)
    BY <1>2, <2>1 DEF Entry, Lying
  <2>3. Complete(x) = {}
    BY <1>0, <1>8 DEF AloneOn, Complete
  <2>4. MadeBy(x) = {} /\ RecordedBy(x) = {}
    BY <2>1 DEF MadeBy, RecordedBy
  <2> QED
    BY <2>1, <2>2, <2>3, <2>4, ShownIsPicture DEF Arriving
<1>9. ASSUME c.pc = "release_update", c.path = x PROVE Shown(x) = Whole(x)
  <2>1. Shown(x) = Seen(x, {}, FALSE)
    BY <1>6, <1>9
  <2> QED
    BY <2>1 DEF Whole
<1>10. ASSUME c.pc = "release_version", c.path = x PROVE Shown(x) = Seen(x, {c.ver}, TRUE)
  BY <1>6, <1>10
<1>11. ASSUME c.pc \in Signing, c.path = x PROVE Shown(x) = Seen(x, {}, TRUE)
  BY <1>6, <1>11 DEF Signing
<1> QED
  BY <1>3, <1>4, <1>5, <1>7, <1>8, <1>9, <1>10, <1>11 DEF Sight

LEMMA SightNext ==
    ASSUME OneThread, NEW t \in Threads, NEW x \in Path
    PROVE  Sight(t, x)'
<1>1. OneThread => \A u \in Threads : \A y \in Path : Sight(u, y)
  BY SightAny
<1>2. (\A u \in Threads : \A y \in Path : Sight(u, y))'
  BY <1>1, PTL
<1> QED
  BY <1>2

-----------------------------------------------------------------------------
(* A name whose rows, file and mark a step leaves alone looks as it did. *)

SameRows(x) ==
    /\ Under(fileSystem', {x}) = Under(fileSystem, {x})
    /\ Under(fileVersions', {x}) = Under(fileVersions, {x})
    /\ Under(fileSegments', {x}) = Under(fileSegments, {x})

LEMMA SameParts ==
    ASSUME NEW x, SameRows(x)
    PROVE  /\ Currents({x})' = Currents({x})
           /\ Recordeds({x})' = Recordeds({x})
           /\ Storeds({x})' = Storeds({x})
BY DEF SameRows, Currents, Recordeds, Storeds, Under

LEMMA SameNeeded ==
    ASSUME NEW x, disk'[x] = disk[x], Currents({x})' = Currents({x})
    PROVE  /\ Lying(x)' = Lying(x)
           /\ Needed(x, Currents({x}), Lying(x))' = Needed(x, Currents({x}), Lying(x))
<1>1. Lying(x)' = Lying(x)
  BY DEF Lying, Absent
<1>2. \A C, E, D, F : C = D /\ E = F => Needed(x, C, E) = Needed(x, D, F)
  OBVIOUS
<1>3. Needed(x, Currents({x}), Lying(x))' = Needed(x, Currents({x})', Lying(x)')
  OBVIOUS
<1> QED
  BY <1>1, <1>2, <1>3

LEMMA SameSeen ==
    ASSUME NEW x, SameRows(x), disk'[x] = disk[x], dirty'[x] = dirty[x],
           NEW CONSTANT recorded, NEW CONSTANT signing
    PROVE  Seen(x, recorded, signing)' = Seen(x, recorded, signing)
BY SameParts, SameNeeded DEF Seen, Picture

LEMMA FrameShown ==
    ASSUME OneThread, NEW t \in Threads, NEW x \in Path, Apart(t, x), Apart(t, x)',
           SameRows(x), disk'[x] = disk[x], dirty'[x] = dirty[x]
    PROVE  Shown(x)' = Shown(x)
<1>1. Shown(x) = Whole(x)
  BY SightAny DEF Sight
<1>2. Shown(x)' = Whole(x)'
  BY SightNext DEF Sight
<1> QED
  BY <1>1, <1>2, SameSeen DEF Whole

-----------------------------------------------------------------------------
(* What the steps are to Store. *)

Unseen == \A x \in Path : Clean(x)' => Shown(x)' = Shown(x)

\* Nothing Store can see changes, or a fault damages the names that are marked now.
LEMMA StepStill ==
    ASSUME TypeOK, [Next]_vars, Faults # {} \/ blemish' = blemish, Unseen
    PROVE  [S!Next]_(S!vars)
<1>1. ASSUME NEW x \in Path, Clean(x)' PROVE Clean(x) /\ Shown(x)' = Shown(x)
  BY <1>1, BlemishStays DEF Clean, Unseen
<1>2. CASE blemish' = blemish
  <2>1. UNCHANGED S!vars
    BY <1>1, <1>2 DEF S!vars, Clean, Nothing
  <2> QED
    BY <2>1
<1>3. CASE Faults # {}
  <2>0. PICK ps : ps = {x \in Path : blemish'[x] # {}}
    OBVIOUS
  <2>1. S!Damage(ps)
    <3>1. \A x \in Path : blemish[x] # {} => blemish'[x] # {}
      BY BlemishStays
    <3>2. {x \in Path : blemish'[x] # {}} = {x \in Path : blemish[x] # {}} \cup ps
      BY <2>0, <3>1
    <3>3. [x \in Path |-> IF blemish'[x] = {} THEN Shown(x)' ELSE Nothing'] =
              [x \in Path |-> IF x \in ps THEN Nothing
                              ELSE [y \in Path |-> IF blemish[y] = {} THEN Shown(y)
                                                   ELSE Nothing][x]]
      BY <1>1, <2>0 DEF Clean, Nothing
    <3> QED
      BY <3>2, <3>3 DEF S!Damage, Nothing, S!Nothing
  <2>2. ps \in SUBSET Path
    BY <2>0
  <2>3. S!Fault
    BY <1>3, <2>1, <2>2 DEF S!Fault
  <2> QED
    BY <2>3, Zenon DEF S!Next
<1> QED
  BY <1>2, <1>3

\* One name becomes n, with the signatures of its versions that are not current.
LEMMA StepBecome ==
    ASSUME NEW p \in Path, NEW n, NEW K, Clean(p), blemish' = blemish,
           \A x \in Path : x # p /\ Clean(x) => Shown(x)' = Shown(x),
           Shown(p)' = [n EXCEPT !.old = Shown(p)'.old],
           Shown(p)'.current = n.current,
           Shown(p).old = {s \in K : s.version \notin Shown(p).current},
           Shown(p)'.old = {s \in K : s.version \notin n.current},
           \A s \in Shown(p).signed : s \in K \/ s.version \in n.current
    PROVE  S!Become(p, n)
<1> DEFINE N == [x \in Path |-> IF blemish[x] = {} THEN Shown(x) ELSE Nothing]
           M == [x \in Path |-> IF blemish'[x] = {} THEN Shown(x)' ELSE Nothing]
<1>1. N[p] = Shown(p) /\ M[p] = Shown(p)'
  BY DEF Clean
<1>2. M = [N EXCEPT ![p] = [n EXCEPT !.old = M[p].old]]
  <2>1. \A x \in Path : x # p => M[x] = N[x]
    BY DEF Clean
  <2> QED
    BY <1>1, <2>1
<1>3. N' = M
  BY DEF Nothing
<1>4. /\ {s \in N[p].old \cup N[p].signed : s.version \notin n.current} \subseteq M[p].old
      /\ \A s \in M[p].old : /\ s.version \notin n.current
                             /\ s \in N[p].old \/ s.version \in N[p].current
  BY <1>1
<1>5. p \notin {x \in Path : blemish[x] # {}}
  BY DEF Clean
<1> HIDE DEF M
<1> QED
  BY <1>2, <1>3, <1>4, <1>5 DEF S!Become

-----------------------------------------------------------------------------
(* A handler that goes on leaves the names alone that are not its own. *)

LEMMA ApartStays ==
    ASSUME TypeOK, NEW t \in Threads, Continue(t), NEW x, Apart(t, x)
    PROVE  Apart(t, x)'
<1>1. Moves(t)
  BY ContinueMoves
<1>2. CASE call'[t] = IdleCall
  BY <1>2 DEF Apart, IdleCall, DirPC, MknodPC, UnlinkPC, RenamePC, ReleasePC
<1>3. CASE call'[t] # IdleCall
  BY <1>1, <1>3 DEF Moves, Apart, DirPC, MknodPC, UnlinkPC, RenamePC, ReleasePC
<1> QED
  BY <1>2, <1>3

LEMMA ContinueRows ==
    ASSUME TypeOK, NEW t \in Threads, Continue(t), NEW x \in Path, Apart(t, x)
    PROVE  SameRows(x) /\ disk'[x] = disk[x] /\ dirty'[x] = dirty[x]
<1> DEFINE c == call[t]
<1>0. c.pc # "idle" /\ c \in Call /\ c.path \in Path /\ c.to \in Path
  <2>1. c.pc # "idle"
    BY DEF Continue, MknodVersion, MknodRow, MknodCreate, MknodFails,
       ReleaseUpdate, ReleaseUpdateLost, ReleaseVersion, ReleaseOpen, ReleaseRead,
       ReleaseSign, ReleaseFails, UnlinkAgain, UnlinkFile, UnlinkFails,
       RenameVersions, RenameSegments, RenameFile, RenameFails, At
  <2> QED
    BY <2>1, ActiveCall
<1>1. x # c.path /\ (c.pc \in RenamePC => x # c.to)
  BY <1>0 DEF Apart, Call, DirPC
<1>2. CASE \/ MknodCreate(t) \/ MknodFails(t) \/ ReleaseUpdateLost(t) \/ ReleaseOpen(t)
           \/ ReleaseRead(t) \/ ReleaseFails(t) \/ UnlinkFile(t) \/ UnlinkFails(t)
           \/ RenameFails(t)
  <2>1. UNCHANGED <<fileSystem, fileVersions, fileSegments>>
    BY <1>2 DEF MknodCreate, MknodFails, ReleaseUpdateLost, ReleaseOpen, ReleaseRead,
       ReleaseFails, UnlinkFile, UnlinkFails, RenameFails, tables
  <2>2. disk'[x] = disk[x] /\ dirty'[x] = dirty[x]
    BY <1>1, <1>2 DEF MknodCreate, MknodFails, ReleaseUpdateLost, ReleaseOpen, ReleaseRead,
       ReleaseFails, UnlinkFile, UnlinkFails, RenameFails, tables, history, Dirty, TypeOK
  <2> QED
    BY <2>1, <2>2 DEF SameRows
<1>3. CASE RenameFile(t)
  <2>1. c.pc \in RenamePC
    BY <1>3 DEF RenameFile, At, RenamePC
  <2> QED
    BY <1>1, <1>3, <2>1 DEF RenameFile, tables, history, SameRows, TypeOK
<1>4. CASE MknodVersion(t) \/ ReleaseVersion(t)
  <2>1. UNCHANGED <<fileSystem, fileSegments, disk, dirty>>
    BY <1>4 DEF MknodVersion, ReleaseVersion
  <2>2. fileVersions' = fileVersions \/
        fileVersions' = fileVersions \cup {[path |-> c.path, version |-> c.ver]}
    BY <1>4 DEF MknodVersion, ReleaseVersion, Commit
  <2> QED
    BY <1>1, <2>1, <2>2 DEF SameRows, Under
<1>5. CASE MknodRow(t)
  <2>1. UNCHANGED <<fileVersions, fileSegments, disk, dirty>>
    BY <1>5 DEF MknodRow
  <2>2. fileSystem' = fileSystem \/
        fileSystem' = fileSystem \cup {[path |-> c.path, current_version |-> c.ver,
                                        ready_signed |-> "NOT_READY"]}
    BY <1>5 DEF MknodRow, Commit
  <2> QED
    BY <1>1, <2>1, <2>2 DEF SameRows, Under
<1>6. CASE ReleaseUpdate(t)
  <2>1. \A r \in fileSystem : [r EXCEPT !.current_version = c.ver].path = r.path
    BY DEF TypeOK, SystemRow
  <2>2. Under(fileSystem', {x}) = Under(fileSystem, {x})
    <3>1. fileSystem' = {IF r.path = c.path THEN [r EXCEPT !.current_version = c.ver]
                         ELSE r : r \in fileSystem}
      BY <1>6 DEF ReleaseUpdate
    <3>2. \A r : r \in fileSystem' /\ r.path = x <=> r \in fileSystem /\ r.path = x
      BY <1>1, <2>1, <3>1
    <3> QED
      BY <3>2 DEF Under
  <2> QED
    BY <1>1, <1>6, <2>2 DEF ReleaseUpdate, SameRows, TypeOK
<1>7. CASE ReleaseSign(t)
  <2>1. SignedRow(c).path = c.path
    BY DEF SignedRow
  <2>2. \A row : row.path # x =>
            Under(InsertOrReplace(fileSegments, row), {x}) = Under(fileSegments, {x})
    BY DEF InsertOrReplace, Under
  <2>3. Under(fileSegments', {x}) = Under(fileSegments, {x})
    BY <1>1, <1>7, <2>1, <2>2 DEF ReleaseSign, Commit
  <2> QED
    BY <1>1, <1>7, <2>3 DEF ReleaseSign, SameRows, TypeOK
<1>8. CASE UnlinkAgain(t)
  <2>1. Under(fileSystem', {x}) = Under(fileSystem, {x})
    BY <1>1, <1>8 DEF UnlinkAgain, DeleteRow, Commit, Under
  <2> QED
    BY <1>8, <2>1 DEF UnlinkAgain, SameRows
<1>9. CASE RenameVersions(t)
  <2>1. c.pc \in RenamePC
    BY <1>9 DEF RenameVersions, At, RenamePC
  <2>2. \A r \in fileVersions : [r EXCEPT !.path = c.to].path = c.to
    BY DEF TypeOK, VersionRow
  <2>3. \/ fileVersions' = fileVersions
        \/ fileVersions' = {IF r.path = c.path THEN [r EXCEPT !.path = c.to] ELSE r :
                               r \in fileVersions}
    BY <1>9 DEF RenameVersions, Commit, UpdatePath
  <2>4. \A r : r \in fileVersions' /\ r.path = x <=> r \in fileVersions /\ r.path = x
    <3>1. c.path # x /\ c.to # x
      BY <1>1, <2>1
    <3>2. ASSUME fileVersions' = {IF r.path = c.path THEN [r EXCEPT !.path = c.to] ELSE r :
                                    r \in fileVersions}
          PROVE  \A r : r \in fileVersions' /\ r.path = x <=> r \in fileVersions /\ r.path = x
      BY <2>2, <3>1, <3>2
    <3> QED
      BY <2>3, <3>2
  <2>5. Under(fileVersions', {x}) = Under(fileVersions, {x})
    BY <2>4 DEF Under
  <2> QED
    BY <1>9, <2>5 DEF RenameVersions, SameRows
<1>10. CASE RenameSegments(t)
  <2>1. c.pc \in RenamePC
    BY <1>10 DEF RenameSegments, At, RenamePC
  <2>2. \A r \in fileSegments : [r EXCEPT !.path = c.to].path = c.to
    BY DEF TypeOK, SegmentRow
  <2>3. \/ fileSegments' = fileSegments
        \/ fileSegments' = {IF r.path = c.path THEN [r EXCEPT !.path = c.to] ELSE r :
                               r \in fileSegments}
    BY <1>10 DEF RenameSegments, Commit, UpdatePath
  <2>4. \A r : r \in fileSegments' /\ r.path = x <=> r \in fileSegments /\ r.path = x
    <3>1. c.path # x /\ c.to # x
      BY <1>1, <2>1
    <3>2. ASSUME fileSegments' = {IF r.path = c.path THEN [r EXCEPT !.path = c.to] ELSE r :
                                    r \in fileSegments}
          PROVE  \A r : r \in fileSegments' /\ r.path = x <=> r \in fileSegments /\ r.path = x
      BY <2>2, <3>1, <3>2
    <3> QED
      BY <2>3, <3>2
  <2>5. Under(fileSegments', {x}) = Under(fileSegments, {x})
    BY <2>4 DEF Under
  <2> QED
    BY <1>10, <2>5 DEF RenameSegments, SameRows
<1> QED
  BY <1>2, <1>3, <1>4, <1>5, <1>6, <1>7, <1>8, <1>9, <1>10 DEF Continue

LEMMA ContinueApart ==
    ASSUME TypeOK, OneThread, NEW t \in Threads, Continue(t)
    PROVE  \A x \in Path : Apart(t, x) => Shown(x)' = Shown(x)
BY ApartStays, ContinueRows, FrameShown

LEMMA NotLost ==
    ASSUME TypeOK, NEW ps, NEW p \in Path, p \in ps, Mark(ps, Lost), Clean(p)'
    PROVE  ~readLock
BY MarkGrows DEF Lost, Clean

LEMMA Damaged ==
    ASSUME TypeOK, NEW ps, NEW p \in Path, p \in ps, Mark(ps, {"io"})
    PROVE  ~Clean(p)'
BY MarkGrows DEF Clean

-----------------------------------------------------------------------------
(* mknod, once it has begun *)

LEMMA MknodUnseen ==
    ASSUME StoreInv, OneThread, [Next]_vars, NEW t \in Threads, Continue(t),
           MknodVersion(t) \/ MknodRow(t) \/ MknodCreate(t) \/ MknodFails(t)
    PROVE  Unseen
<1>0. TypeOK /\ VersionInv
  BY DEF StoreInv, VersionInv
<1>1. call[t].pc \in MknodPC /\ call[t].pc # "idle"
  BY DEF MknodVersion, MknodRow, MknodCreate, MknodFails, At, MknodPC
<1>2. PICK p \in Path, v \in Nat : call[t].path = p /\ call[t].to = p /\ call[t].ver = v
  BY <1>0, <1>1, ActiveCall DEF StoreInv, Entries, Ready
<1>3. \A x \in Path : x # p => Shown(x)' = Shown(x)
  BY <1>0, <1>1, <1>2, ContinueApart DEF Apart, MknodPC, ReleasePC
<1>4. Shown(p) = Coming(p, v)
  BY <1>1, <1>2, SightAny DEF Sight
<1>5. ASSUME Clean(p)', MknodVersion(t) PROVE Shown(p)' = Shown(p)
  <2>1. call'[t].pc = "mknod_row" /\ call'[t].path = p /\ call'[t].to = p /\ call'[t].ver = v
    BY <1>0, <1>1, <1>2, <1>5, GotoEffect DEF MknodVersion
  <2>2. Shown(p)' = Coming(p, v)'
    BY <2>1, SightNext DEF Sight, MknodPC
  <2>3. ~readLock
    BY <1>0, <1>2, <1>5, NotLost DEF MknodVersion
  <2>4. /\ fileVersions' = fileVersions \cup {[path |-> p, version |-> v]}
        /\ UNCHANGED <<fileSystem, fileSegments>>
    BY <1>2, <1>5, <2>3 DEF MknodVersion, Commit
  <2>5. Recordeds({p})' \cup {v} = Recordeds({p}) \cup {v}
    BY <2>4 DEF Recordeds, Under
  <2>6. Currents({p})' = Currents({p}) /\ Storeds({p})' = Storeds({p})
    BY <2>4 DEF Currents, Storeds, Under
  <2> QED
    BY <1>4, <2>2, <2>5, <2>6 DEF Coming, Picture, Regular
<1>6. ASSUME Clean(p)', MknodRow(t) PROVE Shown(p)' = Shown(p)
  <2>1. call'[t].pc = "mknod_create" /\ call'[t].path = p /\ call'[t].to = p /\ call'[t].ver = v
    BY <1>0, <1>1, <1>2, <1>6, GotoEffect DEF MknodRow
  <2>2. Shown(p)' = Coming(p, v)'
    BY <2>1, SightNext DEF Sight, MknodPC
  <2>3. ~readLock
    BY <1>0, <1>2, <1>6, NotLost DEF MknodRow
  <2>4. /\ fileSystem' = IF HasRow(p) THEN fileSystem
                         ELSE fileSystem \cup {[path |-> p, current_version |-> v,
                                                ready_signed |-> "NOT_READY"]}
        /\ UNCHANGED <<fileVersions, fileSegments>>
    BY <1>2, <1>6, <2>3 DEF MknodRow, Commit
  <2>5. Currents({p})' \cup {v} = Currents({p}) \cup {v}
    BY <2>4 DEF Currents, Under
  <2>6. Recordeds({p})' = Recordeds({p}) /\ Storeds({p})' = Storeds({p})
    BY <2>4 DEF Recordeds, Storeds, Under
  <2> QED
    BY <1>4, <2>2, <2>5, <2>6 DEF Coming, Picture, Regular
<1>7. ASSUME Clean(p)', MknodCreate(t) PROVE Shown(p)' = Shown(p)
  <2>1. Shown(p)' = Whole(p)'
    <3>1. call'[t].pc = "idle"
      BY <1>0, <1>7, ReturnEffect DEF MknodCreate
    <3>2. Apart(t, p)'
      BY <3>1 DEF Apart, DirPC, MknodPC, UnlinkPC, RenamePC, ReleasePC
    <3> QED
      BY <3>2, SightNext DEF Sight
  <2>2. call[t].pc = "mknod_create" /\ Clean(p)
    BY <1>7 DEF MknodCreate, At, Clean
  <2>3. disk'[p] = Regular(<<>>) /\ dirty'[p]
    BY <1>0, <1>2, <1>7 DEF MknodCreate, Dirty, TypeOK
  <2>4. UNCHANGED <<fileSystem, fileVersions, fileSegments>>
    BY <1>7 DEF MknodCreate, tables
  <2>5. /\ Currents({p})' = Currents({p}) /\ Recordeds({p})' = Recordeds({p})
        /\ Storeds({p})' = Storeds({p})
    BY <2>4 DEF Currents, Recordeds, Storeds, Under
  <2>6. PICK r \in fileSystem : r.path = p
    <3>1. Ready("mknod_create", p, p)
      BY <1>2, <2>2 DEF StoreInv, Entries
    <3> QED
      BY <2>2, <3>1 DEF Ready, Made, Hidden, Excused, Clean, HasRow
  <2>7. \A s \in fileSystem : s.path = p => s.current_version = v
    BY <1>2, <2>2 DEF StoreInv, Handlers, Leaves
  <2>8. Currents({p}) = {v}
    BY <2>6, <2>7 DEF Currents, Under
  <2>9. v \in Recordeds({p})
    <3>1. HasVersion(p, v)
      <4>1. /\ \A u \in Threads : u = t
            /\ ~Excused(p, {"busy", "crash", "collide"})
        BY <2>2 DEF OneThread, Excused, Clean
      <4> QED
        BY <2>2, <2>6, <2>7, <4>1 DEF StoreInv, VersionInv, VersionRecorded, At
    <3> QED
      BY <3>1 DEF HasVersion, Recordeds, Under
  <2>10. Lying(p)' = {Regular(<<>>)}
    BY <2>3 DEF Lying, Regular, Absent
  <2> QED
    BY <1>4, <2>1, <2>3, <2>5, <2>8, <2>9, <2>10 DEF Whole, Seen, Coming, Picture, Regular
<1>8. ASSUME Clean(p)', MknodFails(t) PROVE FALSE
  BY <1>0, <1>2, <1>8, Damaged DEF MknodFails
<1> QED
  BY <1>3, <1>5, <1>6, <1>7, <1>8 DEF Unseen

-----------------------------------------------------------------------------
(* release, after its UPDATE *)

LEMMA ApartIdle ==
    ASSUME NEW t, NEW x, call[t].pc = "idle"
    PROVE  Apart(t, x)
BY DEF Apart, DirPC, MknodPC, UnlinkPC, RenamePC, ReleasePC

LEMMA ReturnWhole ==
    ASSUME TypeOK, OneThread, NEW t \in Threads, NEW x \in Path, Return(t)
    PROVE  Shown(x)' = Whole(x)'
<1>1. call'[t].pc = "idle"
  BY ReturnEffect
<1>2. Apart(t, x)'
  BY <1>1 DEF Apart, DirPC, MknodPC, UnlinkPC, RenamePC, ReleasePC
<1> QED
  BY <1>2, SightNext DEF Sight

\* The row of the file a release is signing, and what its version needs.
LEMMA NeededRow ==
    ASSUME TypeOK, NEW p \in Path, NEW v \in Nat, NEW d, disk[p] = d, d.kind = "reg",
           HasRow(p), \A r \in fileSystem : r.path = p => r.current_version = v
    PROVE  /\ Currents({p}) = {v}
           /\ Lying(p) = {d}
           /\ Needed(p, Currents({p}), Lying(p)) = Signatures(p, v, d.data)
<1>1. Currents({p}) = {v}
  BY DEF HasRow, Currents, Under
<1>2. Lying(p) = {d}
  BY DEF Lying, Absent
<1>3. Needed(p, {v}, {d}) = Signatures(p, v, d.data)
  BY DEF Needed
<1> QED
  BY <1>1, <1>2, <1>3

LEMMA SigningUnseen ==
    ASSUME StoreInv, OneThread, [Next]_vars, NEW t \in Threads, Continue(t),
           \/ ReleaseUpdateLost(t) \/ ReleaseVersion(t) \/ ReleaseOpen(t) \/ ReleaseRead(t)
    PROVE  Unseen
<1>0. TypeOK
  BY DEF StoreInv, VersionInv
<1>1. call[t].pc \in ReleasePC /\ call[t].pc # "idle"
  BY DEF ReleaseUpdateLost, ReleaseVersion, ReleaseOpen, ReleaseRead, At, ReleasePC
<1>2. PICK p \in Path, v \in Nat : call[t].path = p /\ call[t].ver = v
  BY <1>0, <1>1, ActiveCall
<1>3. \A x \in Path : x # p => Shown(x)' = Shown(x)
  BY <1>0, <1>1, <1>2, ContinueApart DEF Apart, DirPC, MknodPC, UnlinkPC, RenamePC, ReleasePC
<1>4. ASSUME ReleaseUpdateLost(t) PROVE Shown(p)' = Shown(p)
  <2>1. Shown(p)' = Whole(p)'
    BY <1>0, <1>4, ReturnWhole DEF ReleaseUpdateLost
  <2>2. Shown(p) = Whole(p)
    BY <1>2, <1>4, SightAny DEF Sight, ReleaseUpdateLost, At
  <2>3. SameRows(p) /\ disk'[p] = disk[p] /\ dirty'[p] = dirty[p]
    BY <1>4 DEF ReleaseUpdateLost, SameRows, tables, history
  <2> QED
    BY <2>1, <2>2, <2>3, SameSeen DEF Whole
<1>5. ASSUME ReleaseOpen(t) \/ ReleaseRead(t) PROVE Shown(p)' = Shown(p)
  <2>1. call'[t].pc \in Signing /\ call'[t].path = p
    BY <1>0, <1>1, <1>2, <1>5, GotoEffect, LoopEffect DEF ReleaseOpen, ReleaseRead, Signing
  <2>2. Shown(p)' = Seen(p, {}, TRUE)'
    BY <2>1, SightNext DEF Sight, Signing
  <2>3. Shown(p) = Seen(p, {}, TRUE)
    BY <1>2, <1>5, SightAny DEF Sight, ReleaseOpen, ReleaseRead, At, Signing
  <2>4. SameRows(p) /\ disk'[p] = disk[p] /\ dirty'[p] = dirty[p]
    BY <1>5 DEF ReleaseOpen, ReleaseRead, SameRows, tables, history
  <2> QED
    BY <2>2, <2>3, <2>4, SameSeen
<1>6. ASSUME Clean(p)', ReleaseVersion(t) PROVE Shown(p)' = Shown(p)
  <2>1. call'[t].pc = "release_open" /\ call'[t].path = p
    BY <1>0, <1>1, <1>2, <1>6, GotoEffect DEF ReleaseVersion
  <2>2. Shown(p)' = Seen(p, {}, TRUE)'
    BY <2>1, SightNext DEF Sight, Signing
  <2>3. Shown(p) = Seen(p, {v}, TRUE)
    BY <1>2, <1>6, SightAny DEF Sight, ReleaseVersion, At
  <2>4. ~readLock
    BY <1>0, <1>2, <1>6, NotLost DEF ReleaseVersion
  <2>5. /\ fileVersions' = fileVersions \cup {[path |-> p, version |-> v]}
        /\ UNCHANGED <<fileSystem, fileSegments, disk, dirty>>
    BY <1>2, <1>6, <2>4 DEF ReleaseVersion, Commit
  <2>6. Recordeds({p})' = Recordeds({p}) \cup {v}
    <3>1. PICK row : row = [path |-> p, version |-> v]
      OBVIOUS
    <3>2. row.path = p /\ row.version = v
      BY <3>1
    <3>3. Under(fileVersions', {p}) = Under(fileVersions, {p}) \cup {row}
      BY <2>5, <3>1, <3>2 DEF Under
    <3> QED
      BY <3>2, <3>3 DEF Recordeds, Under
  <2>7. Currents({p})' = Currents({p}) /\ Storeds({p})' = Storeds({p})
    BY <2>5 DEF Currents, Storeds, Under
  <2>8. Needed(p, Currents({p}), Lying(p))' = Needed(p, Currents({p}), Lying(p))
        /\ Lying(p)' = Lying(p)
    BY <2>5, <2>7, SameNeeded
  <2> QED
    BY <2>2, <2>3, <2>5, <2>6, <2>7, <2>8 DEF Seen, Picture
<1> QED
  BY <1>3, <1>4, <1>5, <1>6 DEF Unseen

\* What a signature in the table is to Store.
StoredAs(s) == [version |-> s.version, segment |-> s.segment, signature |-> s.signature]

LEMMA StoredRow ==
    ASSUME NEW p, NEW v, NEW n, NEW d, ProperRow(p, v, n, d) \in fileSegments
    PROVE  [version |-> v, segment |-> n,
            signature |-> [path |-> p, content |-> Segment(d, n)]] \in Storeds({p})
<1>1. PICK s \in fileSegments : s = ProperRow(p, v, n, d)
  OBVIOUS
<1>2. /\ s.path = p /\ s.version = v /\ s.segment = n
      /\ s.signature = [path |-> p, content |-> Segment(d, n)]
  BY <1>1 DEF ProperRow
<1>3. s \in Under(fileSegments, {p})
  BY <1>2 DEF Under
<1> QED
  BY <1>2, <1>3 DEF Storeds

RowsStored ==
    \A p, v, n, d : ProperRow(p, v, n, d) \in fileSegments =>
        [version |-> v, segment |-> n,
         signature |-> [path |-> p, content |-> Segment(d, n)]] \in Storeds({p})

LEMMA StoredRowNext == RowsStored'
<1>1. RowsStored
  BY StoredRow DEF RowsStored
<1> QED
  BY <1>1, PTL

SignedOf(x, signing) ==
    IF dirty[x] THEN {}
    ELSE IF signing THEN Needed(x, Currents({x}), Lying(x))
    ELSE Needed(x, Currents({x}), Lying(x)) \cap Storeds({x})

OldOf(x) == {s \in Storeds({x}) : s.version \notin Currents({x})}

SeenAs(x, recorded, signing) ==
    [entry    |-> Lying(x),
     current  |-> Currents({x}),
     versions |-> Recordeds({x}) \cup recorded,
     signed   |-> SignedOf(x, signing),
     old      |-> OldOf(x)]

LEMMA SeenIs ==
    ASSUME NEW x, NEW recorded, NEW signing
    PROVE  Seen(x, recorded, signing) = SeenAs(x, recorded, signing)
BY DEF Seen, SeenAs, SignedOf, OldOf, Picture

LEMMA SeenIsNext ==
    (\A x, recorded, signing : Seen(x, recorded, signing) = SeenAs(x, recorded, signing))'
<1>1. \A x, recorded, signing : Seen(x, recorded, signing) = SeenAs(x, recorded, signing)
  BY SeenIs
<1> QED
  BY <1>1, PTL

LEMMA SignUnseen ==
    ASSUME StoreInv, OneThread, [Next]_vars, NEW t \in Threads, ReleaseSign(t)
    PROVE  Unseen
<1>0. TypeOK /\ Signed /\ Continue(t)
  BY DEF StoreInv, VersionInv, Continue
<1>1. call[t].pc = "release_sign" /\ call[t].pc \in ReleasePC /\ call[t].pc # "idle"
  BY DEF ReleaseSign, At, ReleasePC
<1>2. PICK p \in Path, v \in Nat, n \in Nat :
          call[t].path = p /\ call[t].ver = v /\ call[t].seg = n
  BY <1>0, <1>1, ActiveCall
<1>3. \A x \in Path : x # p => Shown(x)' = Shown(x)
  BY <1>0, <1>1, <1>2, ContinueApart DEF Apart, DirPC, MknodPC, UnlinkPC, RenamePC
<1>4. SUFFICES ASSUME Clean(p)' PROVE Shown(p)' = Shown(p)
  BY <1>3 DEF Unseen
<1>5. ~readLock
  BY <1>0, <1>2, <1>4, MarkGrows DEF ReleaseSign, Clean
<1>6. UNCHANGED <<fileSystem, fileVersions, disk>> /\ dirty'[p] = dirty[p]
  BY <1>0, <1>2, <1>5 DEF ReleaseSign, TypeOK
<1>7. PICK row : row.path = p /\ row.version = v /\ fileSegments' = InsertOrReplace(fileSegments, row)
  BY <1>2, <1>5 DEF ReleaseSign, SignedRow, Commit
<1>8. PICK d : disk[p] = d /\ d.kind = "reg"
  BY <1>1, <1>0, <1>2 DEF Signed, Stage, Looping
<1>9. HasRow(p) /\ \A r \in fileSystem : r.path = p => r.current_version = v
  BY <1>0, <1>1, <1>2 DEF Signed, Stage, Updated, StoreInv, Handlers, Leaves
<1>10. /\ Currents({p}) = {v} /\ Lying(p) = {d}
       /\ Needed(p, Currents({p}), Lying(p)) = Signatures(p, v, d.data)
  BY <1>0, <1>8, <1>9, NeededRow
<1>11. /\ Currents({p})' = Currents({p}) /\ Recordeds({p})' = Recordeds({p})
  BY <1>6 DEF Currents, Recordeds, Under
<1>12. /\ Lying(p)' = Lying(p)
       /\ Needed(p, Currents({p}), Lying(p))' = Needed(p, Currents({p}), Lying(p))
  BY <1>6, <1>11, SameNeeded
<1>13. {s \in Storeds({p})' : s.version \notin {v}} = {s \in Storeds({p}) : s.version \notin {v}}
  <2>1. \A s : s.path = p /\ s.version # v => (s \in fileSegments' <=> s \in fileSegments)
    BY <1>7 DEF InsertOrReplace
  <2>2. \A e : e \in Storeds({p})' /\ e.version # v <=>
               \E s \in fileSegments' : s.path = p /\ s.version # v /\ e = StoredAs(s)
    BY DEF Storeds, Under, StoredAs
  <2>3. \A e : e \in Storeds({p}) /\ e.version # v <=>
               \E s \in fileSegments : s.path = p /\ s.version # v /\ e = StoredAs(s)
    BY DEF Storeds, Under, StoredAs
  <2> QED
    BY <2>1, <2>2, <2>3
<1>14. OldOf(p)' = OldOf(p)
  BY <1>10, <1>11, <1>13 DEF OldOf
<1>15. Shown(p) = SeenAs(p, {}, TRUE)
  BY <1>1, <1>2, SightAny, SeenIs DEF Sight, Signing
<1>16. CASE ~Return(t)
  <2>1. call'[t].pc \in Signing /\ call'[t].path = p
    BY <1>0, <1>2, <1>16, LoopEffect DEF ReleaseSign, Signing
  <2>2. Shown(p)' = Seen(p, {}, TRUE)'
    BY <2>1, SightNext DEF Sight, Signing
  <2> QED
    BY <1>6, <1>11, <1>12, <1>15, <1>14, <2>2, SeenIsNext DEF SeenAs, SignedOf
<1>17. CASE Return(t)
  <2>1. Shown(p)' = Whole(p)'
    BY <1>0, <1>17, ReturnWhole
  <2>2. ASSUME ~dirty[p] PROVE Signatures(p, v, d.data) \subseteq Storeds({p})'
    <3>1. Signed'
      BY NextSigned DEF StoreInv, VersionInv, Locks, SignedInv
    <3>2. PICK r \in fileSystem : r.path = p /\ r.current_version = v
      BY <1>9 DEF HasRow
    <3>3. ~Releasing(p)'
      <4>1. call'[t].pc = "idle"
        BY <1>0, <1>17, ReturnEffect
      <4> QED
        BY <4>1, AloneReleasing DEF SigningPC, ReleasePC
    <3>4. \A m \in 0..LastSegment(d.data) : ProperRow(p, v, m, d.data) \in fileSegments'
      BY <1>6, <1>8, <2>2, <3>1, <3>2, <3>3 DEF Signed, Covered, ProperRow, Segment, LastSegment
    <3>5. \A m \in 0..LastSegment(d.data) :
              [version |-> v, segment |-> m,
               signature |-> [path |-> p, content |-> Segment(d.data, m)]] \in Storeds({p})'
      BY <3>4, StoredRowNext DEF RowsStored, ProperRow, Segment
    <3> QED
      BY <3>5 DEF Signatures
  <2> QED
    <3>1. SignedOf(p, FALSE)' = SignedOf(p, TRUE)
      BY <1>6, <1>10, <1>12, <2>2 DEF SignedOf
    <3>2. Shown(p)' = SeenAs(p, {}, FALSE)'
      BY <2>1, SeenIsNext DEF Whole
    <3> QED
      BY <1>11, <1>12, <1>15, <1>14, <3>1, <3>2 DEF SeenAs
<1> QED
  BY <1>16, <1>17

-----------------------------------------------------------------------------
(* The actions of Store on one name, in terms of what is seen of it. *)

NameNow(p) == [x \in Path |-> IF blemish[x] = {} THEN Shown(x) ELSE Nothing][p]

LEMMA NameClean == ASSUME NEW p \in Path, Clean(p) PROVE NameNow(p) = Shown(p)
BY DEF NameNow, Clean

LEMMA NameCleanNext ==
    ASSUME NEW p \in Path, Clean(p)'
    PROVE  ([x \in Path |-> IF blemish[x] = {} THEN Shown(x) ELSE Nothing]')[p] = Shown(p)'
BY DEF Clean

Face(entry, current, versions, signed, old) ==
    [entry |-> entry, current |-> current, versions |-> versions, signed |-> signed, old |-> old]

LEMMA FaceParts ==
    ASSUME NEW e, NEW c, NEW v, NEW s, NEW o
    PROVE  /\ Face(e, c, v, s, o).entry = e /\ Face(e, c, v, s, o).current = c
           /\ Face(e, c, v, s, o).versions = v /\ Face(e, c, v, s, o).signed = s
           /\ Face(e, c, v, s, o).old = o
           /\ \A o2 : [Face(e, c, v, s, o) EXCEPT !.old = o2] = Face(e, c, v, s, o2)
BY DEF Face

\* The one name p turns from m to n; its signatures under both are K.
Turns(p, m, n) ==
    /\ Clean(p) /\ blemish' = blemish
    /\ \A x \in Path : x # p /\ Clean(x) => Shown(x)' = Shown(x)
    /\ Shown(p) = m /\ Shown(p)' = n
    /\ \E K : /\ m.old = {r \in K : r.version \notin m.current}
              /\ n.old = {r \in K : r.version \notin n.current}
              /\ \A r \in m.signed : r \in K \/ r.version \in n.current

LEMMA FaceBecomes ==
    ASSUME NEW p \in Path, NEW e, NEW c, NEW v, NEW s, NEW o,
           NEW e2, NEW c2, NEW v2, NEW s2, NEW o2, NEW n,
           Turns(p, Face(e, c, v, s, o), Face(e2, c2, v2, s2, o2)),
           n = Face(e2, c2, v2, s2, o)
    PROVE  S!Become(p, n)
<1>0. Shown(p) = Face(e, c, v, s, o) /\ Shown(p)' = Face(e2, c2, v2, s2, o2)
  BY DEF Turns
<1>1. /\ Face(e, c, v, s, o).current = c /\ Face(e, c, v, s, o).signed = s
      /\ Face(e, c, v, s, o).old = o /\ Face(e2, c2, v2, s2, o2).current = c2
      /\ Face(e2, c2, v2, s2, o2).old = o2
  BY FaceParts
<1>2. PICK K : /\ o = {r \in K : r.version \notin c}
               /\ o2 = {r \in K : r.version \notin c2}
               /\ \A r \in s : r \in K \/ r.version \in c2
  BY <1>1 DEF Turns
<1>3. Shown(p)' = [n EXCEPT !.old = Shown(p)'.old]
  BY <1>0, FaceParts
<1>4. /\ Shown(p)'.current = c2 /\ n.current = c2 /\ Shown(p).old = o /\ Shown(p)'.old = o2
      /\ Shown(p).current = c /\ Shown(p).signed = s
  BY <1>0, FaceParts
<1>5. /\ Shown(p).old = {r \in K : r.version \notin Shown(p).current}
      /\ Shown(p)'.old = {r \in K : r.version \notin n.current}
  BY <1>2, <1>4
<1>6. /\ Clean(p) /\ blemish' = blemish
      /\ \A x \in Path : x # p /\ Clean(x) => Shown(x)' = Shown(x)
  BY DEF Turns
<1>7. Shown(p)'.current = n.current
  BY <1>4
<1>8. \A r \in Shown(p).signed : r \in K \/ r.version \in n.current
  BY <1>2, <1>4
<1> QED
  BY ONLY <1>3, <1>5, <1>6, <1>7, <1>8, p \in Path, StepBecome

LEMMA CreateStep ==
    ASSUME NEW p \in Path, NEW now, NEW e2, NEW v, NEW s, NEW o, NEW o2,
           e2 = {[kind |-> "reg", data |-> <<>>]}, \A w \in v : w <= now,
           Turns(p, Face({}, {}, v, s, o), Face(e2, {now}, v \cup {now}, s, o2))
    PROVE  S!Next
<1>1. PICK n : n = Face(e2, {now}, v \cup {now}, s, o)
  OBVIOUS
<1>2. S!Become(p, n)
  BY <1>1, FaceBecomes
<1>3. NameNow(p) = Face({}, {}, v, s, o)
  BY NameClean DEF Turns
<1>4. PICK m : m = NameNow(p) /\ m = Face({}, {}, v, s, o)
  BY <1>3
<1>5. n = [m EXCEPT !.entry = e2, !.current = {now}, !.versions = @ \cup {now}]
  <2>1. PICK m1 : m1 = [m EXCEPT !.entry = e2]
    OBVIOUS
  <2>2. m1 = Face(e2, {}, v, s, o)
    BY ONLY <1>4, <2>1 DEF Face
  <2>3. PICK m2 : m2 = [m1 EXCEPT !.current = {now}]
    OBVIOUS
  <2>4. m2 = Face(e2, {now}, v, s, o)
    BY <2>2, <2>3 DEF Face
  <2>5. PICK m3 : m3 = [m2 EXCEPT !.versions = v \cup {now}]
    OBVIOUS
  <2>6. m3 = Face(e2, {now}, v \cup {now}, s, o)
    BY <2>4, <2>5 DEF Face
  <2>7. m.versions = v
    BY <1>4 DEF Face
  <2> QED
    BY <1>1, <2>1, <2>3, <2>5, <2>6, <2>7
<1>6. n = [NameNow(p) EXCEPT !.entry = {[kind |-> "reg", data |-> <<>>]},
                             !.current = {now}, !.versions = @ \cup {now}]
  BY <1>4, <1>5
<1>7. NameNow(p).entry = {} /\ NameNow(p).current = {} /\ NameNow(p).versions = v
  BY <1>3, FaceParts
<1>8. S!Create(p, now)
  BY <1>2, <1>6, <1>7 DEF S!Create, NameNow, S!Become
<1>9. Shown(p)'.current = {now} /\ Clean(p)'
  BY FaceParts DEF Turns, Clean
<1> QED
  BY <1>8, <1>9, NameCleanNext DEF S!Next

LEMMA LinkStep ==
    ASSUME NEW p \in Path, NEW e2, NEW c, NEW v, NEW s, NEW o, NEW o2,
           e2 = {[kind |-> "link", data |-> <<>>]},
           Turns(p, Face({}, c, v, s, o), Face(e2, c, v, s, o2))
    PROVE  S!Next
<1>1. PICK n : n = Face(e2, c, v, s, o)
  OBVIOUS
<1>2. S!Become(p, n)
  BY <1>1, FaceBecomes
<1>3. NameNow(p) = Face({}, c, v, s, o)
  BY NameClean DEF Turns
<1>4. PICK m : m = NameNow(p) /\ m = Face({}, c, v, s, o)
  BY <1>3
<1>5. n = [m EXCEPT !.entry = e2]
  <2>1. PICK m1 : m1 = [m EXCEPT !.entry = e2]
    OBVIOUS
  <2>2. m1 = Face(e2, c, v, s, o)
    BY ONLY <1>4, <2>1 DEF Face
  <2> QED
    BY <1>1, <2>1, <2>2
<1>6. n = [NameNow(p) EXCEPT !.entry = {[kind |-> "link", data |-> <<>>]}]
  BY <1>4, <1>5
<1>7. NameNow(p).entry = {}
  BY <1>3, FaceParts
<1>8. S!Link(p)
  BY <1>2, <1>6, <1>7 DEF S!Link, NameNow, S!Become
<1> QED
  BY <1>8 DEF S!Next

LEMMA ChangeStep ==
    ASSUME NEW p \in Path, NEW e, NEW f, NEW c, NEW v, NEW s, NEW o, NEW o2,
           f.kind = "reg", c # {},
           Turns(p, Face(e, c, v, s, o), Face({f}, c, v, {}, o2))
    PROVE  S!Next
<1>1. PICK n : n = Face({f}, c, v, {}, o)
  OBVIOUS
<1>2. S!Become(p, n)
  BY <1>1, FaceBecomes
<1>3. NameNow(p) = Face(e, c, v, s, o)
  BY NameClean DEF Turns
<1>4. PICK m : m = NameNow(p) /\ m = Face(e, c, v, s, o)
  BY <1>3
<1>5. n = [m EXCEPT !.entry = {f}, !.signed = {}]
  <2>1. PICK m1 : m1 = [m EXCEPT !.entry = {f}]
    OBVIOUS
  <2>2. m1 = Face({f}, c, v, s, o)
    BY ONLY <1>4, <2>1 DEF Face
  <2>3. PICK m2 : m2 = [m1 EXCEPT !.signed = {}]
    OBVIOUS
  <2>4. m2 = Face({f}, c, v, {}, o)
    BY <2>2, <2>3 DEF Face
  <2> QED
    BY <1>1, <2>1, <2>3, <2>4
<1>6. n = [NameNow(p) EXCEPT !.entry = {f}, !.signed = {}]
  BY <1>4, <1>5
<1>7. NameNow(p).current = c
  BY <1>3, FaceParts
<1>8. Shown(p)'.entry = {f} /\ Clean(p)'
  BY FaceParts DEF Turns, Clean
<1>9. S!Change(p)
  BY <1>2, <1>6, <1>7, <1>8, NameCleanNext DEF S!Change, NameNow, S!Become
<1> QED
  BY <1>9 DEF S!Next

LEMMA ReleaseStep ==
    ASSUME NEW p \in Path, NEW now, NEW e, NEW c, NEW v, NEW s, NEW o, NEW s2, NEW o2,
           s2 = UNION {Signatures(p, now, f.data) : f \in e},
           c # {}, \A w \in v : w <= now,
           Turns(p, Face(e, c, v, s, o), Face(e, {now}, v \cup {now}, s2, o2))
    PROVE  S!Next
<1>1. PICK n : n = Face(e, {now}, v \cup {now}, s2, o)
  OBVIOUS
<1>2. S!Become(p, n)
  BY <1>1, FaceBecomes
<1>3. NameNow(p) = Face(e, c, v, s, o)
  BY NameClean DEF Turns
<1>4. PICK m : m = NameNow(p) /\ m = Face(e, c, v, s, o)
  BY <1>3
<1>5. NameNow(p).current = c /\ NameNow(p).versions = v /\ NameNow(p).entry = e
  BY <1>3, FaceParts
<1>6. s2 = UNION {Signatures(p, now, f.data) : f \in NameNow(p).entry}
  BY <1>5
<1>7. n = [m EXCEPT !.current = {now}, !.versions = @ \cup {now}, !.signed = s2]
  <2>1. PICK m1 : m1 = [m EXCEPT !.current = {now}]
    OBVIOUS
  <2>2. m1 = Face(e, {now}, v, s, o)
    BY ONLY <1>4, <2>1 DEF Face
  <2>3. PICK m2 : m2 = [m1 EXCEPT !.versions = v \cup {now}]
    OBVIOUS
  <2>4. m2 = Face(e, {now}, v \cup {now}, s, o)
    BY <2>2, <2>3 DEF Face
  <2>5. PICK m3 : m3 = [m2 EXCEPT !.signed = s2]
    OBVIOUS
  <2>6. m3 = Face(e, {now}, v \cup {now}, s2, o)
    BY <2>4, <2>5 DEF Face
  <2>7. m.versions = v
    BY <1>4 DEF Face
  <2> QED
    BY <1>1, <2>1, <2>3, <2>5, <2>6, <2>7
<1>8. n = [NameNow(p) EXCEPT !.current = {now}, !.versions = @ \cup {now}, !.signed = s2]
  BY <1>4, <1>7
<1>9. S!Release(p, now)
  BY <1>2, <1>5, <1>6, <1>8 DEF S!Release, NameNow, S!Become
<1>10. Shown(p)'.current = {now} /\ Clean(p)'
  BY FaceParts DEF Turns, Clean
<1> QED
  BY <1>9, <1>10, NameCleanNext DEF S!Next

LEMMA UnlinkStep ==
    ASSUME NEW p \in Path, NEW e, NEW c, NEW v, NEW s, NEW o, NEW o2,
           e # {}, Turns(p, Face(e, c, v, s, o), Face({}, {}, v, {}, o2))
    PROVE  S!Next
<1>1. PICK n : n = Face({}, {}, v, {}, o)
  OBVIOUS
<1>2. S!Become(p, n)
  BY <1>1, FaceBecomes
<1>3. NameNow(p) = Face(e, c, v, s, o)
  BY NameClean DEF Turns
<1>4. PICK m : m = NameNow(p) /\ m = Face(e, c, v, s, o)
  BY <1>3
<1>5. n = [m EXCEPT !.entry = {}, !.current = {}, !.signed = {}]
  <2>1. PICK m1 : m1 = [m EXCEPT !.entry = {}]
    OBVIOUS
  <2>2. m1 = Face({}, c, v, s, o)
    BY ONLY <1>4, <2>1 DEF Face
  <2>3. PICK m2 : m2 = [m1 EXCEPT !.current = {}]
    OBVIOUS
  <2>4. m2 = Face({}, {}, v, s, o)
    BY <2>2, <2>3 DEF Face
  <2>5. PICK m3 : m3 = [m2 EXCEPT !.signed = {}]
    OBVIOUS
  <2>6. m3 = Face({}, {}, v, {}, o)
    BY <2>4, <2>5 DEF Face
  <2> QED
    BY <1>1, <2>1, <2>3, <2>5, <2>6
<1>6. n = [NameNow(p) EXCEPT !.entry = {}, !.current = {}, !.signed = {}]
  BY <1>4, <1>5
<1>7. NameNow(p).entry = e
  BY <1>3, FaceParts
<1>8. S!Unlink(p)
  BY <1>2, <1>6, <1>7 DEF S!Unlink, NameNow, S!Become
<1> QED
  BY <1>8 DEF S!Next

-----------------------------------------------------------------------------
(* release, when its version becomes current, and when it fails *)

SeenFace(x, recorded, signing) ==
    Face(Lying(x), Currents({x}), Recordeds({x}) \cup recorded, SignedOf(x, signing), OldOf(x))

LEMMA SeenHasFace ==
    ASSUME NEW x, NEW recorded, NEW signing
    PROVE  Seen(x, recorded, signing) = SeenFace(x, recorded, signing)
BY SeenIs DEF SeenAs, SeenFace, Face

LEMMA SeenHasFaceNext ==
    (\A x, recorded, signing : Seen(x, recorded, signing) = SeenFace(x, recorded, signing))'
<1>1. \A x, recorded, signing : Seen(x, recorded, signing) = SeenFace(x, recorded, signing)
  BY SeenHasFace
<1> QED
  BY <1>1, PTL

LEMMA TurnsBy ==
    ASSUME NEW p \in Path, Clean(p), blemish' = blemish,
           \A x \in Path : x # p => Shown(x)' = Shown(x),
           NEW e, NEW c, NEW v, NEW s, NEW o, NEW e2, NEW c2, NEW v2, NEW s2, NEW o2,
           Shown(p) = Face(e, c, v, s, o), Shown(p)' = Face(e2, c2, v2, s2, o2),
           NEW K, o = {r \in K : r.version \notin c}, o2 = {r \in K : r.version \notin c2},
           \A r \in s : r \in K \/ r.version \in c2
    PROVE  Turns(p, Face(e, c, v, s, o), Face(e2, c2, v2, s2, o2))
<1>1. /\ Face(e, c, v, s, o).current = c /\ Face(e, c, v, s, o).signed = s
      /\ Face(e, c, v, s, o).old = o /\ Face(e2, c2, v2, s2, o2).current = c2
      /\ Face(e2, c2, v2, s2, o2).old = o2
  BY FaceParts
<1>2. \E L : /\ Face(e, c, v, s, o).old = {r \in L : r.version \notin Face(e, c, v, s, o).current}
             /\ Face(e2, c2, v2, s2, o2).old =
                    {r \in L : r.version \notin Face(e2, c2, v2, s2, o2).current}
             /\ \A r \in Face(e, c, v, s, o).signed :
                    r \in L \/ r.version \in Face(e2, c2, v2, s2, o2).current
  BY <1>1
<1> QED
  BY <1>2 DEF Turns

LEMMA ReleaseUpdateStep ==
    ASSUME StoreInv, OneThread, [Next]_vars, NEW t \in Threads, ReleaseUpdate(t)
    PROVE  [S!Next]_(S!vars)
<1>0. TypeOK /\ Continue(t) /\ blemish' = blemish
  BY DEF StoreInv, VersionInv, Continue, ReleaseUpdate
<1>1. call[t].pc = "release_update" /\ call[t].pc \in ReleasePC /\ call[t].pc # "idle"
  BY DEF ReleaseUpdate, At, ReleasePC
<1>2. PICK p \in Path, v \in Nat : call[t].path = p /\ call[t].ver = v
  BY <1>0, <1>1, ActiveCall
<1>3. \A x \in Path : x # p => Shown(x)' = Shown(x)
  BY <1>0, <1>1, <1>2, ContinueApart DEF Apart, DirPC, MknodPC, UnlinkPC, RenamePC, ReleasePC
<1>4. CASE ~Clean(p)
  BY <1>0, <1>3, <1>4, StepStill DEF Unseen, Clean
<1>5. CASE Clean(p)
  <2>1. Shown(p) = SeenFace(p, {}, FALSE)
    BY <1>1, <1>2, SightAny, SeenHasFace DEF Sight, Whole
  <2>2. Shown(p)' = SeenFace(p, {v}, TRUE)'
    <3>1. /\ call'[t].pc = "release_version" /\ call'[t].path = p /\ call'[t].ver = v
      BY <1>0, <1>1, <1>2, GotoEffect DEF ReleaseUpdate
    <3> QED
      BY <3>1, SightNext, SeenHasFaceNext DEF Sight
  <2>3. fileSystem' = {IF r.path = p THEN [r EXCEPT !.current_version = v] ELSE r :
                           r \in fileSystem}
    BY <1>2 DEF ReleaseUpdate
  <2>4. UNCHANGED <<fileVersions, fileSegments, disk>> /\ ~dirty'[p]
    BY <1>0, <1>2 DEF ReleaseUpdate, TypeOK
  <2>5. HasRow(p)
    BY <1>1, <1>2 DEF StoreInv, Handlers, Leaves, ReleasePC
  <2>6. PICK e, c, w, s, o :
            /\ Lying(p) = e /\ Currents({p}) = c /\ Recordeds({p}) = w
            /\ SignedOf(p, FALSE) = s /\ OldOf(p) = o
    OBVIOUS
  <2>7. Currents({p})' = {v}
    <3>1. \A r \in fileSystem : /\ [r EXCEPT !.current_version = v].path = r.path
                                /\ [r EXCEPT !.current_version = v].current_version = v
      BY <1>0 DEF TypeOK, SystemRow
    <3>2. \A r \in fileSystem' : r.path = p => r.current_version = v
      BY <2>3, <3>1
    <3>3. \E r \in fileSystem' : r.path = p
      BY <2>3, <2>5, <3>1 DEF HasRow
    <3> QED
      BY <3>2, <3>3 DEF Currents, Under
  <2>8. /\ Recordeds({p})' = Recordeds({p}) /\ Storeds({p})' = Storeds({p})
        /\ Lying(p)' = Lying(p)
    BY <2>4 DEF Recordeds, Storeds, Under, Lying, Absent
  <2>9. \A u \in w : u <= v
    BY <1>1, <1>2, <2>6 DEF StoreInv, Latest, Ahead, ReleasePC, UpTo, Recordeds, Under
  <2>10. c # {}
    BY <2>5, <2>6 DEF HasRow, Currents, Under
  <2>11. SignedOf(p, TRUE)' = UNION {Signatures(p, v, f.data) : f \in Lying(p)}
    <3>1. SignedOf(p, TRUE)' = Needed(p, Currents({p}), Lying(p))'
      BY <2>4 DEF SignedOf
    <3>2. Needed(p, Currents({p}), Lying(p))' = Needed(p, {v}, Lying(p))
      BY <2>7, <2>8
    <3>3. Needed(p, {v}, Lying(p)) = UNION {Signatures(p, v, f.data) : f \in Lying(p)}
      BY DEF Needed
    <3> QED
      BY <3>1, <3>2, <3>3
  <2>12. PICK s2, o2, K :
             /\ SignedOf(p, TRUE)' = s2 /\ OldOf(p)' = o2 /\ Storeds({p}) = K
    OBVIOUS
  <2>13. s2 = UNION {Signatures(p, v, f.data) : f \in e}
    BY <2>6, <2>11, <2>12
  <2>14. Shown(p) = Face(e, c, w, s, o)
    <3>1. Recordeds({p}) \cup {} = Recordeds({p})
      OBVIOUS
    <3> QED
      BY <2>1, <2>6, <3>1 DEF SeenFace
  <2>15. Shown(p)' = Face(e, {v}, w \cup {v}, s2, o2)
    BY <2>2, <2>6, <2>7, <2>8, <2>12 DEF SeenFace
  <2>16. o = {r \in K : r.version \notin c} /\ o2 = {r \in K : r.version \notin {v}}
    BY <2>6, <2>7, <2>8, <2>12 DEF OldOf
  <2>17. \A r \in s : r \in K
    BY <2>6, <2>12 DEF SignedOf
  <2>18. Turns(p, Face(e, c, w, s, o), Face(e, {v}, w \cup {v}, s2, o2))
    BY <1>0, <1>3, <1>5, <2>14, <2>15, <2>16, <2>17, TurnsBy
  <2>19. S!Next
    BY <2>9, <2>10, <2>13, <2>18, ReleaseStep
  <2> QED
    BY <2>19
<1> QED
  BY <1>4, <1>5

\* The rows of p stay, the file is there and its version's signatures are not promised.
LEMMA ContentStep ==
    ASSUME TypeOK, NEW p \in Path, Clean(p), blemish' = blemish,
           \A x \in Path : x # p => Shown(x)' = Shown(x),
           UNCHANGED <<fileSystem, fileVersions, fileSegments>>, dirty'[p],
           disk'[p].kind = "reg", HasRow(p),
           Shown(p) = Seen(p, {}, TRUE) \/ Shown(p) = Seen(p, {}, FALSE),
           Shown(p)' = Seen(p, {}, FALSE)'
    PROVE  S!Next
<1>1. PICK e, c, w, s, o, K :
          /\ Lying(p) = e /\ Currents({p}) = c /\ Recordeds({p}) = w
          /\ SignedOf(p, TRUE) = s \/ SignedOf(p, FALSE) = s
          /\ OldOf(p) = o /\ Storeds({p}) = K
          /\ Shown(p) = Face(e, c, w, s, o)
  <2>0. Recordeds({p}) \cup {} = Recordeds({p})
    OBVIOUS
  <2>1. CASE Shown(p) = Seen(p, {}, TRUE)
    <3>1. Shown(p) = Face(Lying(p), Currents({p}), Recordeds({p}), SignedOf(p, TRUE), OldOf(p))
      BY <2>0, <2>1, SeenHasFace DEF SeenFace
    <3> QED
      BY <3>1
  <2>2. CASE Shown(p) = Seen(p, {}, FALSE)
    <3>1. Shown(p) = Face(Lying(p), Currents({p}), Recordeds({p}), SignedOf(p, FALSE), OldOf(p))
      BY <2>0, <2>2, SeenHasFace DEF SeenFace
    <3> QED
      BY <3>1
  <2> QED
    BY <2>1, <2>2
<1>2. PICK f : disk'[p] = f
  OBVIOUS
<1>3. Lying(p)' = {f} /\ f.kind = "reg"
  BY <1>2 DEF Lying, Absent
<1>4. /\ Currents({p})' = Currents({p}) /\ Recordeds({p})' = Recordeds({p})
      /\ Storeds({p})' = Storeds({p})
  BY DEF Currents, Recordeds, Storeds, Under
<1>5. SignedOf(p, FALSE)' = {}
  BY DEF SignedOf
<1>6. OldOf(p)' = OldOf(p)
  BY <1>4 DEF OldOf
<1>7. Shown(p)' = Face({f}, c, w, {}, o)
  <2>0. Recordeds({p}) \cup {} = Recordeds({p})
    OBVIOUS
  <2>1. Shown(p)' = SeenFace(p, {}, FALSE)'
    BY SeenHasFaceNext
  <2> QED
    BY <1>1, <1>3, <1>4, <1>5, <1>6, <2>0, <2>1 DEF SeenFace
<1>8. c # {}
  BY <1>1 DEF HasRow, Currents, Under
<1>9. o = {r \in K : r.version \notin c}
  BY <1>1 DEF OldOf
<1>10. \A r \in s : r \in K \/ r.version \in c
  <2>1. \A r \in Needed(p, c, e) : r.version \in c
    BY DEF Needed, Signatures
  <2>2. \A r \in s : r \in Needed(p, c, e)
    BY <1>1 DEF SignedOf
  <2> QED
    BY <2>1, <2>2
<1>11. Shown(p) = Face(e, c, w, s, o)
  BY <1>1
<1>12. Turns(p, Face(e, c, w, s, o), Face({f}, c, w, {}, o))
  BY ONLY <1>7, <1>9, <1>10, <1>11, p \in Path, Clean(p), blemish' = blemish,
     \A x \in Path : x # p => Shown(x)' = Shown(x), TurnsBy
<1> QED
  BY <1>3, <1>8, <1>12, ChangeStep

LEMMA ReleaseFailsStep ==
    ASSUME StoreInv, OneThread, [Next]_vars, NEW t \in Threads, ReleaseFails(t)
    PROVE  [S!Next]_(S!vars)
<1>0. TypeOK /\ Continue(t) /\ blemish' = blemish
  BY DEF StoreInv, VersionInv, Continue, ReleaseFails
<1>1. call[t].pc \in Signing /\ call[t].pc \in ReleasePC /\ call[t].pc # "idle"
  BY DEF ReleaseFails, ReleasePC, Signing
<1>2. PICK p \in Path : call[t].path = p
  BY <1>0, <1>1, ActiveCall
<1>3. \A x \in Path : x # p => Shown(x)' = Shown(x)
  BY <1>0, <1>1, <1>2, ContinueApart DEF Apart, DirPC, MknodPC, UnlinkPC, RenamePC, ReleasePC
<1>4. CASE ~Clean(p)
  BY <1>0, <1>3, <1>4, StepStill DEF Unseen, Clean
<1>5. CASE Clean(p)
  <2>1. Shown(p) = Seen(p, {}, TRUE)
    BY <1>1, <1>2, SightAny DEF Sight
  <2>2. Shown(p)' = Seen(p, {}, FALSE)'
    BY <1>0, ReturnWhole DEF ReleaseFails, Whole
  <2>3. UNCHANGED <<fileSystem, fileVersions, fileSegments, disk>> /\ dirty'[p]
    BY <1>0, <1>2 DEF ReleaseFails, TypeOK, tables, Dirty
  <2>4. HasRow(p)
    BY <1>1, <1>2 DEF StoreInv, Handlers, Leaves
  <2>5. disk[p].kind = "reg"
    <3>1. ~NameLocked(p)
      BY <1>1, Alone DEF AloneOn, DirPC, MknodPC, UnlinkPC, RenamePC, ReleasePC
    <3> QED
      BY <1>5, <2>4, <3>1 DEF StoreInv, Entries, Sound, IsFile, Stray, Excused, Clean
  <2>6. disk'[p].kind = "reg"
    BY <2>3, <2>5
  <2>7. S!Next
    BY <1>0, <1>3, <1>5, <2>1, <2>2, <2>3, <2>4, <2>6, ContentStep
  <2> QED
    BY <2>7
<1> QED
  BY <1>4, <1>5

-----------------------------------------------------------------------------
(* The thread takes a request: the names it is not about stay as they are. *)

LEMMA IdleWhole ==
    ASSUME OneThread, NEW t \in Threads, call[t].pc = "idle", NEW x \in Path
    PROVE  Shown(x) = Seen(x, {}, FALSE)
BY ApartIdle, SightAny DEF Sight, Whole

LEMMA IdleWholeNext ==
    ASSUME OneThread, NEW t \in Threads, call'[t].pc = "idle", NEW x \in Path
    PROVE  Shown(x)' = Seen(x, {}, FALSE)'
<1>1. Apart(t, x)'
  BY DEF Apart, DirPC, MknodPC, UnlinkPC, RenamePC, ReleasePC
<1> QED
  BY <1>1, SightNext DEF Sight, Whole

LEMMA IdleApart ==
    ASSUME OneThread, NEW t \in Threads, call[t].pc = "idle", NEW ps,
           call'[t].pc = "idle" \/ {call'[t].path, call'[t].to} \subseteq ps,
           \A x \in Path : x \notin ps =>
               SameRows(x) /\ disk'[x] = disk[x] /\ dirty'[x] = dirty[x]
    PROVE  \A x \in Path : x \notin ps => Shown(x)' = Shown(x)
<1> SUFFICES ASSUME NEW x \in Path, x \notin ps PROVE Shown(x)' = Shown(x)
  OBVIOUS
<1>1. Apart(t, x)
  BY ApartIdle
<1>2. Apart(t, x)'
  BY DEF Apart, DirPC, MknodPC, UnlinkPC, RenamePC, ReleasePC
<1> QED
  BY <1>1, <1>2, FrameShown

LEMMA TablesSame ==
    ASSUME UNCHANGED <<fileSystem, fileVersions, fileSegments>>
    PROVE  \A x : SameRows(x)
BY DEF SameRows

LEMMA WriteStep ==
    ASSUME StoreInv, OneThread, [Next]_vars, NEW t \in Threads, NEW p \in Path, NEW d,
           Idle(t), Accessible(p), disk' = [disk EXCEPT ![p] = Regular(d)], Dirty({p}),
           UNCHANGED <<fileSystem, fileVersions, fileSegments, call, blemish>>
    PROVE  [S!Next]_(S!vars)
<1>0. TypeOK /\ call[t].pc = "idle" /\ call'[t].pc = "idle"
  BY DEF StoreInv, VersionInv, Idle
<1>1. \A x : SameRows(x)
  BY TablesSame
<1>2. \A x \in Path : x # p => disk'[x] = disk[x] /\ dirty'[x] = dirty[x]
  BY <1>0 DEF Dirty, TypeOK
<1>3. \A x \in Path : x # p => Shown(x)' = Shown(x)
  <2>1. \A x \in Path : x \notin {p} => Shown(x)' = Shown(x)
    BY <1>0, <1>1, <1>2, IdleApart
  <2> QED
    BY <2>1
<1>4. CASE ~Clean(p)
  BY <1>0, <1>3, <1>4, StepStill DEF Unseen, Clean
<1>5. CASE Clean(p)
  <2>1. disk'[p].kind = "reg" /\ dirty'[p]
    BY <1>0 DEF TypeOK, Regular, Dirty
  <2>2. Shown(p) = Seen(p, {}, FALSE) /\ Shown(p)' = Seen(p, {}, FALSE)'
    BY <1>0, IdleWhole, IdleWholeNext
  <2>3. S!Next
    BY <1>0, <1>3, <1>5, <2>1, <2>2, ContentStep DEF Accessible
  <2> QED
    BY <2>3
<1> QED
  BY <1>4, <1>5

\* An open hands out a handle; a release that begins has done nothing yet.
LEMMA BeginsUnseen ==
    ASSUME StoreInv, OneThread, [Next]_vars, NEW t \in Threads, NEW p \in Path,
           OpenForWrite(t, p) \/ ReleaseSelect(t, p)
    PROVE  [S!Next]_(S!vars)
<1>0. TypeOK /\ call[t].pc = "idle" /\ blemish' = blemish
  BY DEF StoreInv, VersionInv, OpenForWrite, ReleaseSelect, Idle, Begin, history
<1>1. UNCHANGED <<fileSystem, fileVersions, fileSegments, disk, dirty>>
  BY DEF OpenForWrite, ReleaseSelect, tables, history
<1>2. \A x : SameRows(x)
  BY <1>1, TablesSame
<1>3. call'[t].pc = "idle" \/ (call'[t].pc = "release_update" /\ call'[t].path = p)
  BY <1>0, BeginEffect DEF OpenForWrite, ReleaseSelect
<1>4. ASSUME NEW x \in Path PROVE Shown(x)' = Shown(x)
  <2>1. Shown(x) = Whole(x)
    BY <1>0, IdleWhole DEF Whole
  <2>2. Apart(t, x)' \/ (call'[t].pc = "release_update" /\ call'[t].path = x)
    BY <1>3 DEF Apart, DirPC, MknodPC, UnlinkPC, RenamePC, ReleasePC
  <2>3. Shown(x)' = Whole(x)'
    BY <2>2, SightNext DEF Sight
  <2> QED
    BY <1>1, <1>2, <2>1, <2>3, SameSeen DEF Whole
<1> QED
  BY <1>0, <1>4, StepStill DEF Unseen

\* A name that has no row has no version whose signatures could be promised.
LEMMA RowlessFace ==
    ASSUME NEW p, ~HasRow(p)
    PROVE  /\ Currents({p}) = {}
           /\ SignedOf(p, FALSE) = {}
           /\ OldOf(p) = Storeds({p})
           /\ Seen(p, {}, FALSE) = Face(Lying(p), {}, Recordeds({p}), {}, Storeds({p}))
<1>1. Currents({p}) = {}
  BY DEF HasRow, Currents, Under
<1>2. SignedOf(p, FALSE) = {}
  <2>1. Needed(p, {}, Lying(p)) = {}
    BY DEF Needed
  <2> QED
    BY <1>1, <2>1 DEF SignedOf
<1>3. OldOf(p) = Storeds({p})
  BY <1>1 DEF OldOf
<1>4. Recordeds({p}) \cup {} = Recordeds({p})
  OBVIOUS
<1> QED
  BY <1>1, <1>2, <1>3, <1>4, SeenHasFace DEF SeenFace

LEMMA RowlessFaceNext ==
    (\A p : ~HasRow(p) =>
        Seen(p, {}, FALSE) = Face(Lying(p), {}, Recordeds({p}), {}, Storeds({p})))'
<1>1. \A p : ~HasRow(p) =>
          Seen(p, {}, FALSE) = Face(Lying(p), {}, Recordeds({p}), {}, Storeds({p}))
  BY RowlessFace
<1> QED
  BY <1>1, PTL

LEMMA LinkMade ==
    ASSUME StoreInv, OneThread, [Next]_vars, NEW t \in Threads, NEW p \in Path,
           CreateSymlink(t, p)
    PROVE  [S!Next]_(S!vars)
<1>0. TypeOK /\ call[t].pc = "idle" /\ call'[t].pc = "idle" /\ blemish' = blemish
  BY DEF StoreInv, VersionInv, CreateSymlink, Idle, history
<1>1. UNCHANGED <<fileSystem, fileVersions, fileSegments, dirty>>
  BY DEF CreateSymlink, tables, history
<1>2. \A x \in Path : x # p => Shown(x)' = Shown(x)
  <2>1. \A x \in Path : x \notin {p} =>
            SameRows(x) /\ disk'[x] = disk[x] /\ dirty'[x] = dirty[x]
    BY <1>0, <1>1, TablesSame DEF CreateSymlink, TypeOK
  <2>2. \A x \in Path : x \notin {p} => Shown(x)' = Shown(x)
    BY <1>0, <2>1, IdleApart
  <2> QED
    BY <2>2
<1>3. CASE ~Clean(p)
  BY <1>0, <1>2, <1>3, StepStill DEF Unseen, Clean
<1>4. CASE Clean(p)
  <2>1. ~HasRow(p)
    <3>1. ~NameLocked(p)
      BY <1>0, Alone DEF AloneOn, DirPC, MknodPC, UnlinkPC, RenamePC
    <3>2. ~IsFile(p)
      BY DEF CreateSymlink, IsFile, Absent
    <3> QED
      BY <1>4, <3>1, <3>2 DEF StoreInv, Entries, Sound, Stray, Excused, Clean
  <2>2. ~HasRow(p)'
    BY <1>1, <2>1 DEF HasRow
  <2>3. Lying(p) = {} /\ Lying(p)' = {SymLink}
    BY <1>0 DEF CreateSymlink, Lying, SymLink, Absent, TypeOK
  <2>4. PICK w, K : Recordeds({p}) = w /\ Storeds({p}) = K
    OBVIOUS
  <2>5. Recordeds({p})' = w /\ Storeds({p})' = K
    BY <1>1, <2>4 DEF Recordeds, Storeds, Under
  <2>6. Shown(p) = Face({}, {}, w, {}, K)
    BY <1>0, <2>1, <2>3, <2>4, IdleWhole, RowlessFace
  <2>7. PICK e2 : e2 = {[kind |-> "link", data |-> <<>>]}
    OBVIOUS
  <2>8. Shown(p)' = Face(e2, {}, w, {}, K)
    <3>1. Shown(p)' = Face(Lying(p), {}, Recordeds({p}), {}, Storeds({p}))'
      BY <1>0, <2>2, IdleWholeNext, RowlessFaceNext
    <3>2. Lying(p)' = e2
      BY <2>3, <2>7 DEF SymLink
    <3> QED
      BY <2>5, <3>1, <3>2
  <2>9. Turns(p, Face({}, {}, w, {}, K), Face(e2, {}, w, {}, K))
    <3>1. K = {r \in K : r.version \notin {}}
      OBVIOUS
    <3> QED
      BY <1>0, <1>2, <1>4, <2>6, <2>8, <3>1, TurnsBy
  <2>10. S!Next
    BY <2>7, <2>9, LinkStep
  <2> QED
    BY <2>10
<1> QED
  BY <1>3, <1>4

LEMMA MknodSelectStep ==
    ASSUME StoreInv, OneThread, [Next]_vars, NEW t \in Threads, NEW p \in Path,
           MknodSelect(t, p)
    PROVE  [S!Next]_(S!vars)
<1>0. TypeOK /\ call[t].pc = "idle" /\ blemish' = blemish
  BY DEF StoreInv, VersionInv, MknodSelect, Begin, Idle, history
<1>1. UNCHANGED <<fileSystem, fileVersions, fileSegments, disk, dirty>> /\ ~HasRow(p)
  BY DEF MknodSelect, tables, history
<1>2. PICK v : clock = v
  OBVIOUS
<1>3. /\ call'[t].pc = "mknod_version" /\ call'[t].path = p /\ call'[t].to = p
      /\ call'[t].ver = v
  BY <1>0, <1>2 DEF MknodSelect, Begin, TypeOK
<1>4. \A x \in Path : x # p => Shown(x)' = Shown(x)
  <2>1. \A x \in Path : x \notin {p} =>
            SameRows(x) /\ disk'[x] = disk[x] /\ dirty'[x] = dirty[x]
    BY <1>1, TablesSame
  <2>2. \A x \in Path : x \notin {p} => Shown(x)' = Shown(x)
    BY <1>0, <1>3, <2>1, IdleApart
  <2> QED
    BY <2>2
<1>5. CASE ~Clean(p)
  BY <1>0, <1>4, <1>5, StepStill DEF Unseen, Clean
<1>6. CASE Clean(p)
  <2>1. Lying(p) = {}
    BY DEF MknodSelect, Lying
  <2>2. PICK w, K : Recordeds({p}) = w /\ Storeds({p}) = K
    OBVIOUS
  <2>3. Shown(p) = Face({}, {}, w, {}, K)
    BY <1>0, <1>1, <2>1, <2>2, IdleWhole, RowlessFace
  <2>4. PICK e2, o2 : /\ e2 = {[kind |-> "reg", data |-> <<>>]}
                      /\ o2 = {r \in K : r.version \notin {v}}
    OBVIOUS
  <2>5. Shown(p)' = Face(e2, {v}, w \cup {v}, {}, o2)
    <3>1. Shown(p)' = Coming(p, v)'
      BY <1>3, SightNext DEF Sight, MknodPC
    <3>2. Currents({p})' = {}
      BY <1>1, RowlessFace DEF Currents, Under
    <3>3. Recordeds({p})' = w /\ Storeds({p})' = K
      BY <1>1, <2>2 DEF Recordeds, Storeds, Under
    <3> QED
      BY <2>4, <3>1, <3>2, <3>3 DEF Coming, Picture, Face, Regular
  <2>6. \A u \in w : u <= v
    BY <1>2, <2>2 DEF StoreInv, Latest, Recordeds, Under
  <2>7. Turns(p, Face({}, {}, w, {}, K), Face(e2, {v}, w \cup {v}, {}, o2))
    <3>1. K = {r \in K : r.version \notin {}}
      OBVIOUS
    <3> QED
      BY <1>0, <1>4, <1>6, <2>3, <2>4, <2>5, <3>1, TurnsBy
  <2>8. S!Next
    BY <2>4, <2>6, <2>7, CreateStep
  <2> QED
    BY <2>8
<1> QED
  BY <1>5, <1>6

-----------------------------------------------------------------------------
(* unlink *)

LEMMA GoneFace ==
    ASSUME NEW p, ~HasRow(p)
    PROVE  GoneFrom(p) = Face({}, {}, Recordeds({p}), {}, Storeds({p}))
<1>1. Currents({p}) = {}
  BY DEF HasRow, Currents, Under
<1>2. {s \in Storeds({p}) : s.version \notin {}} = Storeds({p})
  OBVIOUS
<1>3. Recordeds({p}) \cup {} \cup {} = Recordeds({p}) /\ {} \cup {} = {}
  OBVIOUS
<1> QED
  BY <1>1, <1>2, <1>3 DEF GoneFrom, Picture, Face

LEMMA GoneFaceNext ==
    (\A p : ~HasRow(p) => GoneFrom(p) = Face({}, {}, Recordeds({p}), {}, Storeds({p})))'
<1>1. \A p : ~HasRow(p) => GoneFrom(p) = Face({}, {}, Recordeds({p}), {}, Storeds({p}))
  BY GoneFace
<1> QED
  BY <1>1, PTL

LEMMA UnlinkEntryStep ==
    ASSUME StoreInv, OneThread, [Next]_vars, NEW t \in Threads, NEW p \in Path,
           UnlinkEntry(t, p)
    PROVE  [S!Next]_(S!vars)
<1>0. TypeOK /\ call[t].pc = "idle" /\ Mark({p}, Lost) /\ (readLock => Faults # {})
  BY DEF StoreInv, VersionInv, Handlers, UnlinkEntry, Begin, Idle
<1>1. UNCHANGED <<fileVersions, fileSegments, disk, dirty>>
  BY DEF UnlinkEntry
<1>2. call'[t].pc = "unlink_again" /\ call'[t].path = p /\ call'[t].to = p
  BY <1>0, BeginEffect DEF UnlinkEntry
<1>3. \A x \in Path : x # p => Shown(x)' = Shown(x)
  <2>1. \A x \in Path : x \notin {p} =>
            SameRows(x) /\ disk'[x] = disk[x] /\ dirty'[x] = dirty[x]
    <3>1. \A x : x # p => Under(fileSystem', {x}) = Under(fileSystem, {x})
      BY DEF UnlinkEntry, DeleteRow, Commit, Under
    <3> QED
      BY <1>1, <3>1 DEF SameRows
  <2>2. \A x \in Path : x \notin {p} => Shown(x)' = Shown(x)
    BY <1>0, <1>2, <2>1, IdleApart
  <2> QED
    BY <2>2
<1>4. ~readLock => blemish' = blemish
  BY <1>0 DEF Lost, Mark, TypeOK
<1>5. CASE ~Clean(p)'
  BY <1>0, <1>3, <1>4, <1>5, StepStill DEF Unseen
<1>6. CASE Clean(p)'
  <2>1. ~readLock /\ blemish' = blemish /\ Clean(p)
    BY <1>0, <1>4, <1>6, NotLost DEF Clean
  <2>2. ~HasRow(p)'
    BY <2>1 DEF UnlinkEntry, DeleteRow, Commit, HasRow
  <2>3. PICK e, c, w, s, o, K :
            /\ Lying(p) = e /\ Currents({p}) = c /\ Recordeds({p}) = w
            /\ SignedOf(p, FALSE) = s /\ OldOf(p) = o /\ Storeds({p}) = K
    OBVIOUS
  <2>4. Shown(p) = Face(e, c, w, s, o)
    <3>1. Recordeds({p}) \cup {} = Recordeds({p})
      OBVIOUS
    <3> QED
      BY <1>0, <2>3, <3>1, IdleWhole, SeenHasFace DEF SeenFace
  <2>5. Shown(p)' = Face({}, {}, w, {}, K)
    <3>1. Shown(p)' = GoneFrom(p)'
      BY <1>2, SightNext DEF Sight, UnlinkPC
    <3>2. Recordeds({p})' = w /\ Storeds({p})' = K
      BY <1>1, <2>3 DEF Recordeds, Storeds, Under
    <3> QED
      BY <2>2, <3>1, <3>2, GoneFaceNext
  <2>6. e # {}
    BY <2>3 DEF UnlinkEntry, Lying
  <2>7. o = {r \in K : r.version \notin c} /\ K = {r \in K : r.version \notin {}}
    BY <2>3 DEF OldOf
  <2>8. \A r \in s : r \in K
    BY <2>3 DEF SignedOf
  <2>9. Turns(p, Face(e, c, w, s, o), Face({}, {}, w, {}, K))
    BY <1>3, <2>1, <2>4, <2>5, <2>7, <2>8, TurnsBy
  <2>10. S!Next
    BY <2>6, <2>9, UnlinkStep
  <2> QED
    BY <2>10
<1> QED
  BY <1>5, <1>6

LEMMA UnlinkUnseen ==
    ASSUME StoreInv, OneThread, [Next]_vars, NEW t \in Threads, Continue(t),
           UnlinkAgain(t) \/ UnlinkFile(t) \/ UnlinkFails(t)
    PROVE  Unseen
<1>0. TypeOK
  BY DEF StoreInv, VersionInv
<1>1. call[t].pc \in UnlinkPC /\ call[t].pc # "idle"
  BY DEF UnlinkAgain, UnlinkFile, UnlinkFails, At, UnlinkPC
<1>2. PICK p \in Path : call[t].path = p /\ call[t].to = p
  BY <1>0, <1>1, ActiveCall DEF StoreInv, Entries, Ready
<1>3. \A x \in Path : x # p => Shown(x)' = Shown(x)
  BY <1>0, <1>1, <1>2, ContinueApart DEF Apart, UnlinkPC, ReleasePC
<1>4. SUFFICES ASSUME Clean(p)' PROVE Shown(p)' = Shown(p)
  BY <1>3 DEF Unseen
<1>5. ~UnlinkFails(t)
  BY <1>0, <1>2, <1>4, Damaged DEF UnlinkFails
<1>6. Clean(p)
  BY <1>0, <1>4, BlemishStays DEF Clean
<1>7. ~HasRow(p)
  BY <1>1, <1>2, <1>6 DEF StoreInv, Entries, Ready, Gone, Stray, Excused, Clean
<1>8. Shown(p) = Face({}, {}, Recordeds({p}), {}, Storeds({p}))
  BY <1>1, <1>2, <1>7, SightAny, GoneFace DEF Sight
<1>9. /\ ~HasRow(p)'
      /\ Recordeds({p})' = Recordeds({p}) /\ Storeds({p})' = Storeds({p})
  <2>1. UNCHANGED <<fileVersions, fileSegments>> /\ fileSystem' \subseteq fileSystem
    BY <1>5 DEF UnlinkAgain, UnlinkFile, DeleteRow, Commit, tables
  <2> QED
    BY <1>7, <2>1 DEF HasRow, Recordeds, Storeds, Under
<1>10. CASE UnlinkAgain(t)
  <2>1. call'[t].pc = "unlink_file" /\ call'[t].path = p /\ call'[t].to = p
    BY <1>0, <1>1, <1>2, <1>10, GotoEffect DEF UnlinkAgain
  <2>2. Shown(p)' = GoneFrom(p)'
    BY <2>1, SightNext DEF Sight, UnlinkPC
  <2> QED
    BY <1>8, <1>9, <2>2, GoneFaceNext
<1>11. CASE UnlinkFile(t)
  <2>1. Shown(p)' = Seen(p, {}, FALSE)'
    BY <1>0, <1>11, ReturnWhole DEF UnlinkFile, Whole
  <2>2. Lying(p)' = {}
    BY <1>0, <1>2, <1>11 DEF UnlinkFile, Lying, TypeOK
  <2> QED
    BY <1>8, <1>9, <2>1, <2>2, RowlessFaceNext
<1> QED
  BY <1>5, <1>10, <1>11

-----------------------------------------------------------------------------
(* rename: the rows lie under both names until all of them are moved *)

LEMMA RenamedVersions ==
    ASSUME NEW table \in SUBSET VersionRow, NEW p \in Path, NEW q \in Path, NEW clash
    PROVE  {w.version : w \in Under(UpdatePath(table, p, q, clash), {q, p})} =
           {w.version : w \in Under(table, {q, p})}
<1>1. CASE clash
  BY <1>1 DEF UpdatePath
<1>2. CASE ~clash
  <2>1. \A r \in table : /\ [r EXCEPT !.path = q].path = q
                         /\ [r EXCEPT !.path = q].version = r.version
    BY DEF VersionRow
  <2>2. PICK new : new = {IF r.path = p THEN [r EXCEPT !.path = q] ELSE r : r \in table}
    OBVIOUS
  <2>3. UpdatePath(table, p, q, clash) = new
    BY <1>2, <2>2 DEF UpdatePath
  <2>4. \A w \in new : w.path \in {q, p} =>
            \E r \in table : r.path \in {q, p} /\ r.version = w.version
    BY <2>1, <2>2
  <2>5. \A r \in table : r.path \in {q, p} =>
            \E w \in new : w.path \in {q, p} /\ r.version = w.version
    BY <2>1, <2>2
  <2> QED
    BY <2>3, <2>4, <2>5 DEF Under
<1> QED
  BY <1>1, <1>2

LEMMA RenamedSegments ==
    ASSUME NEW table \in SUBSET SegmentRow, NEW p \in Path, NEW q \in Path, NEW clash
    PROVE  {StoredAs(s) : s \in Under(UpdatePath(table, p, q, clash), {q, p})} =
           {StoredAs(s) : s \in Under(table, {q, p})}
<1>1. CASE clash
  BY <1>1 DEF UpdatePath
<1>2. CASE ~clash
  <2>1. \A r \in table : /\ [r EXCEPT !.path = q].path = q
                         /\ StoredAs([r EXCEPT !.path = q]) = StoredAs(r)
    BY DEF SegmentRow, StoredAs
  <2>2. PICK new : new = {IF r.path = p THEN [r EXCEPT !.path = q] ELSE r : r \in table}
    OBVIOUS
  <2>3. UpdatePath(table, p, q, clash) = new
    BY <1>2, <2>2 DEF UpdatePath
  <2>4. \A s \in new : s.path \in {q, p} =>
            \E r \in table : r.path \in {q, p} /\ StoredAs(r) = StoredAs(s)
    BY <2>1, <2>2
  <2>5. \A r \in table : r.path \in {q, p} =>
            \E s \in new : s.path \in {q, p} /\ StoredAs(r) = StoredAs(s)
    BY <2>1, <2>2
  <2> QED
    BY <2>3, <2>4, <2>5 DEF Under
<1> QED
  BY <1>1, <1>2

\* No row of p in a table: what lies under both names lies under q.
LEMMA UnderOne ==
    ASSUME NEW p, NEW q, NEW table, \A r \in table : r.path # p
    PROVE  Under(table, {q, p}) = Under(table, {q})
BY DEF Under

LEMMA RenameUnseen ==
    ASSUME StoreInv, OneThread, [Next]_vars, NEW t \in Threads, Continue(t),
           RenameVersions(t) \/ RenameSegments(t) \/ RenameFile(t) \/ RenameFails(t)
    PROVE  Unseen
<1>0. TypeOK
  BY DEF StoreInv, VersionInv
<1>1. call[t].pc \in RenamePC /\ call[t].pc # "idle"
  BY DEF RenameVersions, RenameSegments, RenameFile, RenameFails, At, RenamePC
<1>2. PICK p \in Path, q \in Path : call[t].path = p /\ call[t].to = q /\ p # q
  BY <1>0, <1>1, ActiveCall DEF StoreInv, VersionInv, RenameDistinct
<1>3. \A x \in Path : x # p /\ x # q => Shown(x)' = Shown(x)
  BY <1>0, <1>1, <1>2, ContinueApart DEF Apart, RenamePC, ReleasePC
<1>4. Shown(p) = Nothing /\ Shown(q) = Arriving(q, p)
  BY <1>1, <1>2, SightAny DEF Sight
<1>5. CASE RenameVersions(t)
  <2>1. call'[t].pc \in RenamePC /\ call'[t].path = p /\ call'[t].to = q
    BY <1>0, <1>1, <1>2, <1>5, GotoEffect DEF RenameVersions, RenamePC
  <2>2. Shown(p)' = Nothing' /\ Shown(q)' = Arriving(q, p)'
    BY <1>2, <2>1, SightNext DEF Sight
  <2>3. UNCHANGED <<fileSystem, fileSegments, disk>>
    BY <1>5 DEF RenameVersions
  <2>4. Recordeds({q, p})' = Recordeds({q, p})
    <3>1. \/ fileVersions' = fileVersions
          \/ fileVersions' = UpdatePath(fileVersions, p, q, VersionClash(p, q))
      BY <1>2, <1>5 DEF RenameVersions, Commit
    <3>2. fileVersions \in SUBSET VersionRow
      BY <1>0 DEF TypeOK
    <3>3. {w.version : w \in Under(fileVersions', {q, p})} =
          {w.version : w \in Under(fileVersions, {q, p})}
      <4>1. CASE fileVersions' = UpdatePath(fileVersions, p, q, VersionClash(p, q))
        <5>1. PICK clash : clash = VersionClash(p, q)
          OBVIOUS
        <5> QED
          BY <3>2, <4>1, <5>1, RenamedVersions
      <4> QED
        BY <3>1, <4>1
    <3>4. Recordeds({q, p})' = {w.version : w \in Under(fileVersions', {q, p})}
      BY DEF Recordeds, Under
    <3> QED
      BY <3>3, <3>4 DEF Recordeds
  <2>5. Arriving(q, p)' = Arriving(q, p)
    BY <2>3, <2>4 DEF Arriving, Picture, Lying, Absent, Currents, Storeds, Under
  <2> QED
    BY <1>3, <1>4, <2>2, <2>5 DEF Unseen, Nothing
<1>6. CASE RenameSegments(t)
  <2>1. call'[t].pc \in RenamePC /\ call'[t].path = p /\ call'[t].to = q
    BY <1>0, <1>1, <1>2, <1>6, GotoEffect DEF RenameSegments, RenamePC
  <2>2. Shown(p)' = Nothing' /\ Shown(q)' = Arriving(q, p)'
    BY <1>2, <2>1, SightNext DEF Sight
  <2>3. UNCHANGED <<fileSystem, fileVersions, disk>>
    BY <1>6 DEF RenameSegments
  <2>4. Storeds({q, p})' = Storeds({q, p})
    <3>1. \/ fileSegments' = fileSegments
          \/ fileSegments' = UpdatePath(fileSegments, p, q, SegmentClash(p, q))
      BY <1>2, <1>6 DEF RenameSegments, Commit
    <3>2. fileSegments \in SUBSET SegmentRow
      BY <1>0 DEF TypeOK
    <3> QED
      BY <3>1, <3>2, RenamedSegments DEF Storeds, StoredAs, Under
  <2>5. Arriving(q, p)' = Arriving(q, p)
    BY <2>3, <2>4 DEF Arriving, Picture, Lying, Absent, Currents, Recordeds, Under
  <2> QED
    BY <1>3, <1>4, <2>2, <2>5 DEF Unseen, Nothing
<1>7. CASE RenameFile(t)
  <2>1. Shown(p)' = Seen(p, {}, FALSE)' /\ Shown(q)' = Seen(q, {}, FALSE)'
    BY <1>0, <1>7, ReturnWhole DEF RenameFile, Whole
  <2>2. UNCHANGED <<fileSystem, fileVersions, fileSegments, dirty, blemish>>
    BY <1>7 DEF RenameFile, tables, history
  <2>3. Lying(p)' = {} /\ Lying(q)' = Lying(p)
    BY <1>0, <1>2, <1>7 DEF RenameFile, Lying, Absent, TypeOK
  <2>4. call[t].pc = "rename_file"
    BY <1>7 DEF RenameFile, At
  <2>5. ASSUME Clean(p)
        PROVE  /\ \A r \in fileSystem : r.path # p
               /\ \A w \in fileVersions : w.path # p
               /\ \A s \in fileSegments : s.path # p
    <3>1. ~HasRow(p)
      BY <1>1, <1>2, <2>5 DEF StoreInv, Entries, Ready, Moved, Gone, Stray, Excused, Clean
    <3> QED
      BY <1>2, <2>4, <2>5, <3>1 DEF StoreInv, Handlers, Leaves, HasRow
  <2>6. ASSUME Clean(p)' PROVE Shown(p)' = Shown(p)
    <3>1. Clean(p) /\ ~HasRow(p)'
      BY <2>2, <2>5, <2>6 DEF Clean, HasRow
    <3>2. Recordeds({p})' = {} /\ Storeds({p})' = {}
      BY <2>2, <2>5, <3>1 DEF Recordeds, Storeds, Under
    <3>3. Shown(p)' = Face({}, {}, {}, {}, {})
      BY <2>1, <2>3, <3>1, <3>2, RowlessFaceNext
    <3> QED
      BY <1>4, <3>3 DEF Face, Nothing
  <2>7. ASSUME Clean(q)' PROVE Shown(q)' = Shown(q)
    <3>1. Clean(p)
      BY <1>1, <1>2, <2>2, <2>7 DEF Clean, StoreInv, Handlers, Leaves
    <3>2. /\ Currents({q, p}) = Currents({q}) /\ Recordeds({q, p}) = Recordeds({q})
          /\ Storeds({q, p}) = Storeds({q})
      BY <2>5, <3>1, UnderOne DEF Currents, Recordeds, Storeds
    <3>3. dirty[q]
      BY <1>1, <1>2 DEF StoreInv, Signed, Stage
    <3>4. Shown(q)' = SeenAs(q, {}, FALSE)'
      BY <2>1, SeenIsNext
    <3>5. /\ Currents({q})' = Currents({q}) /\ Recordeds({q})' = Recordeds({q})
          /\ Storeds({q})' = Storeds({q})
      BY <2>2 DEF Currents, Recordeds, Storeds, Under
    <3>6. SignedOf(q, FALSE)' = {} /\ OldOf(q)' = OldOf(q)
      BY <2>2, <3>3, <3>5 DEF SignedOf, OldOf
    <3> QED
      BY <1>4, <2>3, <3>2, <3>4, <3>5, <3>6 DEF Arriving, Picture, SeenAs, OldOf
  <2> QED
    BY <1>3, <2>6, <2>7 DEF Unseen
<1>8. CASE RenameFails(t)
  <2>1. ~Clean(p)' /\ ~Clean(q)'
    BY <1>0, <1>2, <1>8, Damaged DEF RenameFails
  <2> QED
    BY <1>3, <2>1 DEF Unseen
<1> QED
  BY <1>5, <1>6, <1>7, <1>8

LEMMA RenamedSystem ==
    ASSUME NEW p \in Path, NEW q \in Path, TypeOK, ~HasRow(q),
           fileSystem' = UpdatePath(fileSystem, p, q, SystemClash(p, q))
    PROVE  Currents({q, p})' = Currents({p})
<1>1. \A r \in fileSystem : /\ [r EXCEPT !.path = q].path = q
                            /\ [r EXCEPT !.path = q].current_version = r.current_version
  BY DEF TypeOK, SystemRow
<1>2. fileSystem' = {IF r.path = p THEN [r EXCEPT !.path = q] ELSE r : r \in fileSystem}
  BY DEF UpdatePath, SystemClash
<1>3. \A r \in fileSystem' : r.path \in {q, p} =>
          \E u \in fileSystem : u.path = p /\ u.current_version = r.current_version
  BY <1>1, <1>2 DEF HasRow
<1>4. \A u \in fileSystem : u.path = p =>
          \E r \in fileSystem' : r.path \in {q, p} /\ u.current_version = r.current_version
  BY <1>1, <1>2
<1> QED
  BY <1>3, <1>4 DEF Currents, Under

\* The names in ps are marked now, and nothing else changes.
LEMMA StepDamages ==
    ASSUME TypeOK, [Next]_vars, Unseen, NEW ps,
           \A x \in Path : blemish'[x] # {} <=> blemish[x] # {} \/ x \in ps, ps \subseteq Path
    PROVE  S!Damage(ps)
<1>1. ASSUME NEW x \in Path, Clean(x)' PROVE Clean(x) /\ Shown(x)' = Shown(x) /\ x \notin ps
  BY <1>1 DEF Clean, Unseen
<1>2. {x \in Path : blemish'[x] # {}} = {x \in Path : blemish[x] # {}} \cup ps
  OBVIOUS
<1>3. [x \in Path |-> IF blemish'[x] = {} THEN Shown(x)' ELSE Nothing'] =
          [x \in Path |-> IF x \in ps THEN Nothing
                          ELSE [y \in Path |-> IF blemish[y] = {} THEN Shown(y)
                                               ELSE Nothing][x]]
  BY <1>1 DEF Clean, Nothing
<1> QED
  BY <1>2, <1>3 DEF S!Damage, Nothing, S!Nothing

LEMMA WholeParts ==
    ASSUME OneThread, NEW t \in Threads, call[t].pc = "idle", NEW x \in Path
    PROVE  Shown(x).versions = Recordeds({x}) /\ Shown(x).entry = Lying(x)
<1>1. Shown(x) = SeenAs(x, {}, FALSE)
  BY IdleWhole, SeenIs
<1>2. Shown(x).versions = Recordeds({x}) \cup {} /\ Shown(x).entry = Lying(x)
  BY <1>1 DEF SeenAs
<1> QED
  BY <1>2

LEMMA RenameSystemStep ==
    ASSUME StoreInv, OneThread, [Next]_vars, NEW t \in Threads, NEW p \in Path, NEW q \in Path,
           RenameSystem(t, p, q)
    PROVE  [S!Next]_(S!vars)
<1>0. TypeOK /\ call[t].pc = "idle" /\ p # q
  BY DEF StoreInv, VersionInv, RenameSystem, Begin, Idle
<1>1. UNCHANGED <<fileVersions, fileSegments, disk>>
  BY DEF RenameSystem
<1>2. call'[t].pc \in RenamePC /\ call'[t].path = p /\ call'[t].to = q
  BY <1>0, BeginEffect DEF RenameSystem, RenamePC
<1>3. \A x \in Path : x \notin {p, q} => Shown(x)' = Shown(x)
  <2>1. \A x \in Path : x \notin {p, q} => Under(fileSystem', {x}) = Under(fileSystem, {x})
    <3>1. \A r \in fileSystem : [r EXCEPT !.path = q].path = q
      BY <1>0 DEF TypeOK, SystemRow
    <3>2. CASE fileSystem' = fileSystem
      BY <3>2
    <3>3. CASE fileSystem' = {IF r.path = p THEN [r EXCEPT !.path = q] ELSE r :
                                r \in fileSystem}
      <4>1. \A x \in Path : x \notin {p, q} =>
                \A r : r \in fileSystem' /\ r.path = x <=> r \in fileSystem /\ r.path = x
        BY <3>1, <3>3
      <4> QED
        BY <4>1 DEF Under
    <3> QED
      BY <3>2, <3>3 DEF RenameSystem, Commit, UpdatePath
  <2>2. \A x \in Path : x \notin {p, q} =>
            SameRows(x) /\ disk'[x] = disk[x] /\ dirty'[x] = dirty[x]
    BY <1>0, <1>1, <2>1 DEF RenameSystem, SameRows, Dirty, TypeOK
  <2> QED
    BY <1>0, <1>2, <2>2, IdleApart
<1>4. PICK faults :
          /\ faults = blemish[p] \cup blemish[q] \cup Lost \cup
                          (IF Known(q) THEN {"collide"} ELSE {})
          /\ Mark({p, q}, faults)
  BY DEF RenameSystem
<1>5. /\ blemish'[p] = blemish[p] \cup faults /\ blemish'[q] = blemish[q] \cup faults
      /\ \A x \in Path : x \notin {p, q} => blemish'[x] = blemish[x]
  BY <1>0, <1>4 DEF Mark, TypeOK
<1>6. CASE faults = {}
  <2>1. /\ Clean(p) /\ Clean(q) /\ ~readLock /\ ~Known(q)
    BY <1>4, <1>6 DEF Clean, Lost
  <2>2. blemish' = blemish
    BY <1>0, <1>4, <1>6 DEF Mark, TypeOK
  <2>3. ~HasRow(q) /\ Recordeds({q}) = {}
    BY <2>1 DEF Known, Recordeds, Under
  <2>4. PICK e, c, w, s, o :
            /\ Lying(p) = e /\ Currents({p}) = c /\ Recordeds({p}) = w
            /\ SignedOf(p, FALSE) = s /\ OldOf(p) = o
    OBVIOUS
  <2>5. Shown(p) = Face(e, c, w, s, o)
    <3>1. Recordeds({p}) \cup {} = Recordeds({p})
      OBVIOUS
    <3> QED
      BY <1>0, <2>4, <3>1, IdleWhole, SeenHasFace DEF SeenFace
  <2>6. Shown(q).versions = {}
    <3>1. Shown(q) = Face(Lying(q), {}, {}, {}, Storeds({q}))
      BY <1>0, <2>3, IdleWhole, RowlessFace
    <3> QED
      BY <3>1, FaceParts
  <2>7. Shown(p)' = Nothing' /\ Shown(q)' = Arriving(q, p)'
    BY <1>0, <1>2, SightNext DEF Sight
  <2>8. /\ Currents({q, p})' = c
        /\ Recordeds({q, p})' = w /\ Storeds({q, p})' = Storeds({p}) /\ Lying(p)' = e
    <3>1. fileSystem' = UpdatePath(fileSystem, p, q, SystemClash(p, q))
      BY <2>1 DEF RenameSystem, Commit
    <3>2. Currents({q, p})' = c
      BY <1>0, <2>3, <2>4, <3>1, RenamedSystem
    <3>3. Recordeds({q, p})' = w /\ Storeds({q, p})' = Storeds({p})
      BY <1>1, <2>1, <2>4 DEF Known, Recordeds, Storeds, Under
    <3>4. Lying(p)' = e
      BY <1>1, <2>4 DEF Lying, Absent
    <3> QED
      BY <3>2, <3>3, <3>4
  <2>9. Shown(q)' = Face(e, c, w, {}, o)
    <3>1. c \cup {} = c /\ w \cup {} \cup {} = w
      OBVIOUS
    <3> QED
      BY <2>4, <2>7, <2>8, <3>1 DEF Arriving, Picture, Face, OldOf
  <2>10. PICK m : m = Shown(p) /\ m = Face(e, c, w, s, o)
    BY <2>5
  <2>11. Shown(q)' = [m EXCEPT !.signed = {}]
    <3>1. PICK n : n = [m EXCEPT !.signed = {}]
      OBVIOUS
    <3>2. n = Face(e, c, w, {}, o)
      BY ONLY <2>10, <3>1 DEF Face
    <3> QED
      BY <2>9, <3>1, <3>2
  <2>12. e # {}
    BY <2>4 DEF RenameSystem, Lying
  <2>13. NameNow(p) = m /\ NameNow(p).entry # {} /\ NameNow(q).versions = {}
    <3>1. NameNow(p) = Shown(p) /\ NameNow(q) = Shown(q)
      BY <2>1, NameClean
    <3>2. Shown(p).entry = e
      BY ONLY <2>10, FaceParts
    <3> QED
      BY <2>6, <2>10, <2>12, <3>1, <3>2
  <2>14. [x \in Path |-> IF blemish'[x] = {} THEN Shown(x)' ELSE Nothing'] =
            [[x \in Path |-> IF blemish[x] = {} THEN Shown(x) ELSE Nothing]
                EXCEPT ![q] = [m EXCEPT !.signed = {}], ![p] = Nothing]
    BY <1>0, <1>3, <2>1, <2>2, <2>7, <2>11 DEF Clean, Nothing
  <2>15. S!Rename(p, q)
    <3>1. p # q /\ {p, q} \cap {x \in Path : blemish[x] # {}} = {}
      BY <1>0, <2>1 DEF Clean
    <3>2. {x \in Path : blemish'[x] # {}} = {x \in Path : blemish[x] # {}}
      BY <2>2
    <3> QED
      BY <2>13, <2>14, <3>1, <3>2 DEF S!Rename, NameNow, Nothing, S!Nothing
  <2> QED
    BY <2>15 DEF S!Next
<1>7. CASE faults # {}
  <2>1. Unseen
    BY <1>3, <1>5, <1>7 DEF Unseen, Clean
  <2>2. CASE Faults # {}
    BY <1>0, <2>1, <2>2, StepStill
  <2>3. CASE Faults = {}
    <3>1. ~readLock /\ Lost = {}
      BY <2>3 DEF StoreInv, Handlers, Lost
    <3>2. S!Damage({p, q})
      BY <1>0, <1>5, <1>7, <2>1, StepDamages
    <3>3. CASE Clean(p) /\ Clean(q)
      <4>1. Known(q)
        BY <1>4, <1>7, <3>1, <3>3 DEF Clean
      <4>2. \E w \in fileVersions : w.path = q
        <5>1. \A u \in Threads : call[u].pc = "idle"
          BY <1>0 DEF OneThread
        <5>2. ~Excused(q, {"busy", "crash", "collide"})
          BY <3>3 DEF Excused, Clean
        <5>3. \A v : HasVersion(q, v) => \E w \in fileVersions : w.path = q
          BY DEF HasVersion
        <5>4. HasRow(q) => \E v : HasVersion(q, v)
          BY <5>1, <5>2 DEF StoreInv, VersionInv, VersionRecorded, At, HasRow
        <5>5. (\E s \in fileSegments : s.path = q) => \E v : HasVersion(q, v)
          BY <5>1, <5>2 DEF StoreInv, VersionInv, SegmentVersionRecorded, At
        <5> QED
          BY <4>1, <5>3, <5>4, <5>5 DEF Known
      <4>3. Shown(q).versions # {} /\ Shown(p).entry # {}
        <5>1. Shown(q).versions = Recordeds({q}) /\ Shown(p).entry = Lying(p)
          BY <1>0, WholeParts
        <5>2. Recordeds({q}) # {} /\ Lying(p) # {}
          BY <4>2 DEF Recordeds, Under, Lying, RenameSystem
        <5> QED
          BY <5>1, <5>2
      <4>4. NameNow(q).versions # {} /\ NameNow(p).entry # {}
        BY <3>3, <4>3, NameClean
      <4>5. S!Collide(p, q)
        BY <1>0, <3>2, <4>4 DEF S!Collide, NameNow
      <4> QED
        BY <4>5 DEF S!Next
    <3>4. CASE ~(Clean(p) /\ Clean(q))
      <4>1. {p, q} \cap {x \in Path : blemish[x] # {}} # {}
        BY <3>4 DEF Clean
      <4>2. p \in {x \in Path : blemish[x] # {}} \/ NameNow(p).entry # {}
        <5>1. CASE Clean(p)
          <6>1. Shown(p).entry = Lying(p)
            BY <1>0, WholeParts
          <6>2. Lying(p) # {}
            BY DEF Lying, RenameSystem
          <6>3. NameNow(p) = Shown(p)
            BY <5>1, NameClean
          <6> QED
            BY <6>1, <6>2, <6>3
        <5>2. CASE ~Clean(p)
          BY <5>2 DEF Clean
        <5> QED
          BY <5>1, <5>2
      <4>3. S!Collide(p, q)
        BY <1>0, <3>2, <4>1, <4>2 DEF S!Collide, NameNow
      <4> QED
        BY <4>3 DEF S!Next
    <3> QED
      BY <3>3, <3>4
  <2> QED
    BY <2>2, <2>3
<1> QED
  BY <1>6, <1>7

-----------------------------------------------------------------------------
(* The rest of the world, and all steps together. *)

LEMMA StillUnseen ==
    ASSUME UNCHANGED <<fileSystem, fileVersions, fileSegments, disk, call, dirty>>
    PROVE  Unseen
<1>1. ASSUME NEW x
      PROVE  /\ Owned(x)' = Owned(x) /\ Places(x)' = Places(x) /\ Making(x)' = Making(x)
             /\ Recording(x)' = Recording(x)
  BY DEF Owned, Places, Making, Recording, Renaming, NameLocked
<1>2. ASSUME NEW x
      PROVE  /\ Current(x)' = Current(x) /\ Versions(x)' = Versions(x)
             /\ Stored(x)' = Stored(x) /\ Entry(x)' = Entry(x)
  BY <1>1 DEF Current, Versions, Stored, Entry, Rows, Absent, Regular
<1>3. ASSUME NEW x
      PROVE  Complete(x)' = Complete(x)
  <2>1. Complete(x) = IF dirty[x] \/ NameLocked(x) THEN {}
                      ELSE IF Releasing(x) THEN Needed(x, Current(x), Entry(x))
                      ELSE Needed(x, Current(x), Entry(x)) \cap Stored(x)
    BY DEF Complete, Needed
  <2>2. Complete(x)' = IF dirty'[x] \/ NameLocked(x)' THEN {}
                       ELSE IF Releasing(x)' THEN Needed(x, Current(x)', Entry(x)')
                       ELSE Needed(x, Current(x)', Entry(x)') \cap Stored(x)'
    BY DEF Complete, Needed
  <2>3. Needed(x, Current(x)', Entry(x)') = Needed(x, Current(x), Entry(x))
    BY <1>2
  <2>4. (NameLocked(x)' <=> NameLocked(x)) /\ (Releasing(x)' <=> Releasing(x))
    BY DEF NameLocked, Releasing
  <2> QED
    BY <1>2, <2>1, <2>2, <2>3, <2>4
<1>4. ASSUME NEW x PROVE Shown(x)' = Shown(x)
  <2>1. Current(x)' = Current(x) /\ Stored(x)' = Stored(x)
    BY <1>2
  <2>2. {s \in Stored(x)' : s.version \notin Current(x)'} =
        {s \in Stored(x) : s.version \notin Current(x)}
    BY <2>1
  <2> QED
    BY <1>2, <1>3, <2>2 DEF Shown
<1> QED
  BY <1>4 DEF Unseen

LEMMA CrashUnseen ==
    ASSUME TypeOK, OneThread, NEW t \in Threads, Crash
    PROVE  Unseen
<1> SUFFICES ASSUME NEW x \in Path, Clean(x)' PROVE Shown(x)' = Shown(x)
  BY DEF Unseen
<1>1. ~InUse(x)
  <2>1. x \in {y \in Path : InUse(y)} => {"crash"} \subseteq blemish'[x]
    BY MarkGrows DEF Crash
  <2> QED
    BY <2>1 DEF Clean
<1>2. Apart(t, x)
  BY <1>1 DEF InUse, Idle, Apart, DirPC, MknodPC, UnlinkPC, RenamePC, ReleasePC
<1>3. Apart(t, x)'
  BY DEF Crash, IdleCall, Apart, DirPC, MknodPC, UnlinkPC, RenamePC, ReleasePC
<1>4. SameRows(x) /\ disk'[x] = disk[x] /\ dirty'[x] = dirty[x]
  BY <1>1 DEF Crash, SameRows, tables, Dirty, TypeOK
<1> QED
  BY <1>2, <1>3, <1>4, FrameShown

LEMMA ContinueStep ==
    ASSUME StoreInv, OneThread, [Next]_vars, NEW t \in Threads, Continue(t)
    PROVE  [S!Next]_(S!vars)
<1>1. TypeOK /\ (readLock => Faults # {})
  BY DEF StoreInv, VersionInv, Handlers
<1>2. ~\E u \in Threads : \E p, q \in Path : RenameSystem(u, p, q)
  <2>1. call[t].pc # "idle"
    BY <1>1, ContinueMoves DEF Moves
  <2> QED
    BY <2>1 DEF OneThread, RenameSystem, Begin, Idle
<1>3. ASSUME Unseen PROVE [S!Next]_(S!vars)
  BY <1>1, <1>2, <1>3, OnlyFaults, StepStill
<1>4. CASE MknodVersion(t) \/ MknodRow(t) \/ MknodCreate(t) \/ MknodFails(t)
  BY <1>3, <1>4, MknodUnseen
<1>5. CASE ReleaseUpdateLost(t) \/ ReleaseVersion(t) \/ ReleaseOpen(t) \/ ReleaseRead(t)
  BY <1>3, <1>5, SigningUnseen
<1>6. CASE ReleaseSign(t)
  BY <1>3, <1>6, SignUnseen
<1>7. CASE UnlinkAgain(t) \/ UnlinkFile(t) \/ UnlinkFails(t)
  BY <1>3, <1>7, UnlinkUnseen
<1>8. CASE RenameVersions(t) \/ RenameSegments(t) \/ RenameFile(t) \/ RenameFails(t)
  BY <1>3, <1>8, RenameUnseen
<1> QED
  BY <1>4, <1>5, <1>6, <1>7, <1>8, ReleaseUpdateStep, ReleaseFailsStep DEF Continue

LEMMA AcceptStep ==
    ASSUME StoreInv, OneThread, [Next]_vars, NEW t \in Threads, Accept(t)
    PROVE  [S!Next]_(S!vars)
<1>1. ASSUME NEW p \in Path, NEW d, Idle(t), Accessible(p), Dirty({p}),
             disk' = [disk EXCEPT ![p] = Regular(d)],
             UNCHANGED <<tables, call, writers, clock, readLock, blemish>>
      PROVE  [S!Next]_(S!vars)
  <2>1. UNCHANGED <<fileSystem, fileVersions, fileSegments, call, blemish>>
    BY <1>1 DEF tables
  <2> QED
    BY <1>1, <2>1, WriteStep
<1>2. ASSUME NEW p \in Path, NEW off, NEW b, Write(t, p, off, b)
      PROVE  [S!Next]_(S!vars)
  BY <1>1, <1>2 DEF Write
<1>3. ASSUME NEW p \in Path, NEW n, Truncate(t, p, n)
      PROVE  [S!Next]_(S!vars)
  BY <1>1, <1>3 DEF Truncate
<1> QED
  BY <1>2, <1>3, MknodSelectStep, LinkMade, BeginsUnseen, UnlinkEntryStep, RenameSystemStep
     DEF Accept

LEMMA WorldStep ==
    ASSUME StoreInv, OneThread, [Next]_vars, World \/ UNCHANGED vars
    PROVE  [S!Next]_(S!vars)
<1>1. TypeOK
  BY DEF StoreInv, VersionInv
<1>2. CASE Crash
  <2>1. ASSUME Threads = {} PROVE Unseen
    <3>1. UNCHANGED <<fileSystem, fileVersions, fileSegments, disk>> /\ call' = call
      BY <1>1, <1>2, <2>1 DEF Crash, tables, TypeOK
    <3>2. dirty' = dirty
      BY <1>1, <1>2, <2>1 DEF Crash, Dirty, InUse, TypeOK
    <3> QED
      BY <3>1, <3>2, StillUnseen
  <2>2. ASSUME NEW t \in Threads PROVE Unseen
    BY <1>1, <1>2, CrashUnseen
  <2>3. Unseen /\ Faults # {}
    BY <1>2, <2>1, <2>2 DEF Crash
  <2> QED
    BY <1>1, <2>3, StepStill
<1>3. CASE Tick \/ ServerLocks \/ ServerUnlocks \/ UNCHANGED vars
  <2>1. UNCHANGED <<fileSystem, fileVersions, fileSegments, disk, call, dirty, blemish>>
    BY <1>3 DEF Tick, ServerLocks, ServerUnlocks, vars, tables, history
  <2>2. Unseen /\ blemish' = blemish
    BY <2>1, StillUnseen
  <2> QED
    BY <1>1, <2>2, StepStill
<1> QED
  BY <1>2, <1>3 DEF World

LEMMA StoreInitial ==
    ASSUME Init
    PROVE  S!Init
<1>1. \A t \in Threads : call[t].pc = "idle"
  BY DEF Init, IdleCall
<1>2. ASSUME NEW x \in Path PROVE Shown(x) = Nothing
  <2>1. Making(x) = {} /\ Recording(x) = {}
    BY <1>1 DEF Making, Recording, MknodPC
  <2>2. Places(x) \subseteq {x}
    BY <1>1 DEF Places, NameLocked, Renaming, DirPC, MknodPC, UnlinkPC, RenamePC
  <2>3. Current(x) = {} /\ Versions(x) = {} /\ Stored(x) = {} /\ Entry(x) = {}
    BY <2>1, <2>2 DEF Init, Current, Versions, Stored, Entry, Rows
  <2>4. Complete(x) = {}
    <3>1. UNION {Signatures(x, v, e.data) : v \in {}, e \in {}} = {}
      OBVIOUS
    <3> QED
      BY <2>3, <3>1 DEF Complete
  <2> QED
    BY <2>3, <2>4 DEF Shown, Nothing
<1>3. {x \in Path : blemish[x] # {}} = {}
  BY DEF Init
<1>4. [x \in Path |-> IF blemish[x] = {} THEN Shown(x) ELSE Nothing] = [x \in Path |-> S!Nothing]
  BY <1>2 DEF Nothing, S!Nothing
<1> QED
  BY <1>3, <1>4 DEF S!Init

\* With one FUSE thread, what ndnfs does to its tables and its tree statement by
\* statement, under lost statements, crashes and failing calls, is what module Store
\* says in one step each: a file is created, linked, changed, released, unlinked or
\* renamed as a whole, a release leaves every signature of its version, and none of
\* an older version is lost (ndnfs_mknod, ndnfs_release, ndnfs_unlink, ndnfs_rename).
THEOREM StoreImplemented ==
    ASSUME OneThread
    PROVE  Spec => ImplementsStore
<1>1. Init => S!Init
  BY StoreInitial
<1>2. StoreInv /\ [Next]_vars => [S!Next]_(S!vars)
  <2> SUFFICES ASSUME StoreInv, [Next]_vars PROVE [S!Next]_(S!vars)
    OBVIOUS
  <2>1. CASE World \/ UNCHANGED vars
    BY <2>1, WorldStep
  <2>2. ASSUME NEW t \in Threads, Continue(t) PROVE [S!Next]_(S!vars)
    BY <2>2, ContinueStep
  <2>3. ASSUME NEW t \in Threads, Accept(t) PROVE [S!Next]_(S!vars)
    BY <2>3, AcceptStep
  <2> QED
    BY <2>1, <2>2, <2>3 DEF Next
<1> QED
  BY <1>1, <1>2, StoreInvariant, PTL DEF Spec, S!Spec, ImplementsStore
=============================================================================
