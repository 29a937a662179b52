------------------------------- MODULE Ndnfs -------------------------------
(***************************************************************************)
(* The NDNFS file-system process: FUSE handlers (fs/file.cc, fs/version.cc,*)
(* fs/segment.cc) over two stores that no transaction joins, the sqlite    *)
(* database shared with ndnfs-server and the directory tree on disk.       *)
(*                                                                         *)
(* A handler is cut where another actor can observe it: one step per SQL   *)
(* statement that writes, one per system call that changes the tree or     *)
(* reads file content.  A SELECT that only guards the handler is part of   *)
(* the step that follows it: no other actor can falsify its outcome, since *)
(* the kernel and libfuse keep handlers of one name apart (see "Locking"). *)
(***************************************************************************)
EXTENDS Naturals, Sequences

CONSTANTS
    Path,        \* names inside the mount, all in one directory
    Threads,     \* FUSE worker threads; one of them models the -s option
    Byte,        \* byte values; 0 fills holes
    SegSize,     \* ndnfs::seg_size (8192 in the code)
    MaxLen,      \* bound on a file's length
    MaxClock,    \* bound on time(0)
    MaxWriters,  \* bound on write handles open on one name
    Faults       \* which of "busy", "crash" and "io" may happen

ASSUME PathAssumption    == Path # {}
ASSUME ByteAssumption    == 0 \in Byte
ASSUME SegSizeAssumption == SegSize \in Nat \ {0}
ASSUME BoundAssumption   == MaxLen \in Nat /\ MaxClock \in Nat /\ MaxWriters \in Nat
ASSUME FaultsAssumption  == Faults \subseteq {"busy", "crash", "io"}

VARIABLES
    fileSystem,    \* table file_system, primary key path
    fileVersions,  \* table file_versions, primary key (path, version)
    fileSegments,  \* table file_segments, primary key (path, version, segment)
    disk,          \* what the directory under ndnfs::root_path holds per name
    call,          \* the handler each worker thread is executing
    writers,       \* write handles open on each name, not yet released
    clock,         \* time(0), in seconds
    readLock,      \* ndnfs-server holds sqlite's SHARED lock
    dirty,         \* auxiliary: content or name changed since a release that
                   \* went through made its version current
    blemish        \* auxiliary: the faults and rename collisions a name has met

tables == <<fileSystem, fileVersions, fileSegments>>
history == <<dirty, blemish>>
vars == <<fileSystem, fileVersions, fileSegments, disk, call, writers, clock,
          readLock, dirty, blemish>>

-----------------------------------------------------------------------------
(* Types *)

Content == Seq(Byte)

Absent      == [kind |-> "none", data |-> <<>>]
SymLink     == [kind |-> "link", data |-> <<>>]
Regular(d)  == [kind |-> "reg",  data |-> d]
DiskEntry   == [kind : {"none", "link", "reg"}, data : Content]

SignatureState == {"READY", "NOT_READY"}

\* A signature is what it covers.  It is stored beside the version and segment
\* it covers, but the name may change under it.
Signature  == [path : Path, content : Content]

SystemRow  == [path : Path, current_version : Nat, ready_signed : SignatureState]
VersionRow == [path : Path, version : Nat]
SegmentRow == [path : Path, version : Nat, segment : Nat, signature : Signature]

MknodPC   == {"mknod_version", "mknod_row", "mknod_create"}
UnlinkPC  == {"unlink_again", "unlink_file"}
RenamePC  == {"rename_versions", "rename_segments", "rename_file"}
ReleasePC == {"release_update", "release_version", "release_open",
              "release_read", "release_sign"}
SigningPC == ReleasePC \ {"release_update"}
DirPC     == MknodPC \cup UnlinkPC \cup RenamePC

IdleCall  == [pc |-> "idle"]
Call      == [pc : DirPC \cup ReleasePC, path : Path, to : Path, ver : Nat,
              seg : Nat, buf : Content]

\* "busy": a statement on the first two tables or a rename's was lost; "gap": so
\* was the INSERT of a segment; "collide": renamed while some table knew the target.
Blemish == {"busy", "gap", "crash", "io", "collide"}

TypeOK ==
    /\ fileSystem \subseteq SystemRow
    /\ fileVersions \subseteq VersionRow
    /\ fileSegments \subseteq SegmentRow
    /\ disk \in [Path -> DiskEntry]
    /\ call \in [Threads -> {IdleCall} \cup Call]
    /\ writers \in [Path -> Nat]
    /\ clock \in Nat
    /\ readLock \in BOOLEAN
    /\ dirty \in [Path -> BOOLEAN]
    /\ blemish \in [Path -> SUBSET Blemish]

Init ==
    /\ fileSystem = {} /\ fileVersions = {} /\ fileSegments = {}
    /\ disk = [p \in Path |-> Absent]
    /\ call = [t \in Threads |-> IdleCall]
    /\ writers = [p \in Path |-> 0]
    /\ clock = 0
    /\ readLock = FALSE
    /\ dirty = [p \in Path |-> FALSE]
    /\ blemish = [p \in Path |-> {}]

-----------------------------------------------------------------------------
(* Tables *)

HasRow(p)        == \E r \in fileSystem : r.path = p
HasVersion(p, v) == [path |-> p, version |-> v] \in fileVersions

\* A statement that writes needs the database to itself: while the server holds
\* the SHARED lock sqlite3_step returns SQLITE_BUSY and the statement is undone.
Commit(old, new) == IF readLock THEN old ELSE new
Lost == IF readLock THEN {"busy"} ELSE {}

\* Mutant: the two bound parameters are swapped.
UpdatePathSwapped(table, from, to, clash) ==
    IF clash THEN table
    ELSE {IF r.path = to THEN [r EXCEPT !.path = from] ELSE r : r \in table}

\* UPDATE <table> SET path = to WHERE path = from.  The whole statement is
\* undone when the new primary key of one row is taken.
UpdatePath(table, from, to, clash) ==
    IF clash THEN table
    ELSE {IF r.path = from THEN [r EXCEPT !.path = to] ELSE r : r \in table}

SystemClash(from, to) == HasRow(from) /\ HasRow(to)

VersionClash(from, to) ==
    \E r, s \in fileVersions :
        r.path = from /\ s.path = to /\ r.version = s.version

SegmentClash(from, to) ==
    \E r, s \in fileSegments :
        /\ r.path = from /\ s.path = to
        /\ r.version = s.version /\ r.segment = s.segment

\* Some table holds a row of p.
Known(p) ==
    \/ HasRow(p)
    \/ \E v \in fileVersions : v.path = p
    \/ \E s \in fileSegments : s.path = p

-----------------------------------------------------------------------------
(* File content *)

Resize(d, n) == [i \in 1..n |-> IF i <= Len(d) THEN d[i] ELSE 0]

WriteByte(d, off, b) ==
    [Resize(d, IF off < Len(d) THEN Len(d) ELSE off + 1) EXCEPT ![off + 1] = b]

\* What pread returns for segment n: short at the end of the file, empty past it.
Segment(d, n) ==
    SubSeq(d, n * SegSize + 1,
           IF (n + 1) * SegSize <= Len(d) THEN (n + 1) * SegSize ELSE Len(d))

LastSegment(d) == Len(d) \div SegSize

-----------------------------------------------------------------------------
(***************************************************************************)
(* Locking.  The handlers take no lock.  These guards are what the kernel  *)
(* and libfuse do around them: the kernel holds the directory over a mknod,*)
(* unlink or rename, so one of them runs at a time; libfuse keeps every    *)
(* other handler off the names of an unlink or a rename, and answers an    *)
(* unlink of an open file with a rename to a hidden name.  Nothing keeps   *)
(* apart two releases of one file, or a release and a write.               *)
(***************************************************************************)

Idle(t)        == call[t].pc = "idle"
InUse(p)       == \E t \in Threads : ~Idle(t) /\ p \in {call[t].path, call[t].to}
DirLocked      == \E t \in Threads : call[t].pc \in DirPC
NameLocked(p)  == \E t \in Threads :
                      call[t].pc \in DirPC /\ p \in {call[t].path, call[t].to}
\* A release of p has made its version current and is signing it.
Releasing(p)   == \E t \in Threads : call[t].pc \in SigningPC /\ call[t].path = p

-----------------------------------------------------------------------------
(* Control *)

Begin(t, pc, p, q) ==
    /\ Idle(t)
    /\ call' = [call EXCEPT ![t] = [pc |-> pc, path |-> p, to |-> q,
                                    ver |-> clock, seg |-> 0, buf |-> <<>>]]

At(t, pc)   == call[t].pc = pc
Goto(t, pc) == call' = [call EXCEPT ![t].pc = pc]
\* The signing loop's locals change as well.
Loop(t, pc, seg, buf) ==
    call' = [call EXCEPT ![t] =
                [pc |-> pc, path |-> call[t].path, to |-> call[t].to,
                 ver |-> call[t].ver, seg |-> seg, buf |-> buf]]
Return(t)   == call' = [call EXCEPT ![t] = IdleCall]

Mark(ps, faults) ==
    blemish' = [p \in Path |-> IF p \in ps THEN blemish[p] \cup faults ELSE blemish[p]]

Dirty(ps) == dirty' = [p \in Path |-> dirty[p] \/ p \in ps]

-----------------------------------------------------------------------------
(* ndnfs_mknod, with which FUSE creates every file *)

\* The kernel has looked the name up and found nothing; the SELECT finds no row;
\* the version is time(0).
MknodSelect(t, p) ==
    /\ ~DirLocked /\ disk[p] = Absent
    /\ ~HasRow(p)
    /\ Begin(t, "mknod_version", p, p)
    /\ UNCHANGED <<tables, disk, writers, clock, readLock, history>>

\* INSERT INTO file_versions; the result is not looked at, and a version that is
\* already there stays.
MknodVersion(t) ==
    LET c == call[t] IN
    /\ At(t, "mknod_version")
    /\ fileVersions' = Commit(fileVersions,
           fileVersions \cup {[path |-> c.path, version |-> c.ver]})
    /\ Mark({c.path}, Lost)
    /\ Goto(t, "mknod_row")
    /\ UNCHANGED <<fileSystem, fileSegments, disk, writers, clock, readLock, dirty>>

\* INSERT INTO file_system.
MknodRow(t) ==
    LET c == call[t] IN
    /\ At(t, "mknod_row")
    /\ fileSystem' = Commit(fileSystem,
           IF HasRow(c.path) THEN fileSystem
           ELSE fileSystem \cup {[path |-> c.path, current_version |-> c.ver,
                                  ready_signed |-> "NOT_READY"]})
    /\ Mark({c.path}, Lost)
    /\ Goto(t, "mknod_create")
    /\ UNCHANGED <<fileVersions, fileSegments, disk, writers, clock, readLock, dirty>>

\* open(O_CREAT | O_EXCL) and close.
MknodCreate(t) ==
    LET c == call[t] IN
    /\ At(t, "mknod_create")
    /\ disk[c.path] = Absent
    /\ disk' = [disk EXCEPT ![c.path] = Regular(<<>>)]
    /\ Dirty({c.path})
    /\ Return(t)
    /\ UNCHANGED <<tables, writers, clock, readLock, blemish>>

\* The system call fails: -errno, and the rows stay.
MknodFails(t) ==
    LET c == call[t] IN
    /\ At(t, "mknod_create")
    /\ "io" \in Faults
    /\ Mark({c.path}, {"io"})
    /\ Return(t)
    /\ UNCHANGED <<tables, disk, writers, clock, readLock, dirty>>

-----------------------------------------------------------------------------
(* ndnfs_symlink: no table is told *)

CreateSymlink(t, p) ==
    /\ Idle(t) /\ ~DirLocked
    /\ disk[p] = Absent
    /\ disk' = [disk EXCEPT ![p] = SymLink]
    /\ UNCHANGED <<tables, call, writers, clock, readLock, history>>

-----------------------------------------------------------------------------
(* ndnfs_open for writing, ndnfs_write, ndnfs_truncate *)

\* A regular file with a row; without one the handler answers -ENOENT.
Accessible(p) == disk[p].kind = "reg" /\ HasRow(p) /\ ~NameLocked(p)

\* open and close of the disk file, then the SELECT; duplicate_version is a stub.
OpenForWrite(t, p) ==
    /\ Idle(t) /\ Accessible(p)
    /\ writers[p] < MaxWriters
    /\ writers' = [writers EXCEPT ![p] = @ + 1]
    /\ UNCHANGED <<tables, disk, call, clock, readLock, history>>

\* pwrite on a descriptor of the handler's own.  A longer write is a run of
\* these that nothing interrupts.
Write(t, p, off, b) ==
    /\ Idle(t) /\ Accessible(p)
    /\ writers[p] > 0
    /\ disk' = [disk EXCEPT ![p] = Regular(WriteByte(@.data, off, b))]
    /\ Dirty({p})
    /\ UNCHANGED <<tables, call, writers, clock, readLock, blemish>>

\* truncate(2), with or without an open handle; nothing is signed again.
Truncate(t, p, n) ==
    /\ Idle(t) /\ Accessible(p)
    /\ disk' = [disk EXCEPT ![p] = Regular(Resize(@.data, n))]
    /\ Dirty({p})
    /\ UNCHANGED <<tables, call, writers, clock, readLock, blemish>>

-----------------------------------------------------------------------------
(* ndnfs_release, which FUSE sends after the last close of a write handle and *)
(* no one waits for.  Without a row it answers -ENOENT and does nothing.      *)

\* Mutant: a handle may be released more often than it was opened.
ReleaseSelectUncounted(t, p) ==
    /\ ~NameLocked(p) /\ HasRow(p)
    /\ writers' = [writers EXCEPT ![p] = @ - 1]
    /\ Begin(t, "release_update", p, p)
    /\ UNCHANGED <<tables, disk, clock, readLock, history>>

ReleaseSelect(t, p) ==
    /\ writers[p] > 0 /\ ~NameLocked(p)
    /\ writers' = [writers EXCEPT ![p] = @ - 1]
    /\ IF HasRow(p)
       THEN Begin(t, "release_update", p, p)
       ELSE Idle(t) /\ UNCHANGED call
    /\ UNCHANGED <<tables, disk, clock, readLock, history>>

\* Mutant: time(0) is taken again for the row.
ReleaseUpdateNow(t) ==
    /\ At(t, "release_update") /\ ~readLock
    /\ fileSystem' = {IF r.path = call[t].path THEN [r EXCEPT !.current_version = clock]
                      ELSE r : r \in fileSystem}
    /\ dirty' = [dirty EXCEPT ![call[t].path] = FALSE]
    /\ Goto(t, "release_version")
    /\ UNCHANGED <<fileVersions, fileSegments, disk, writers, clock, readLock, blemish>>

\* UPDATE file_system SET current_version: the one statement whose result is
\* looked at, and the handler gives up when it is lost.
ReleaseUpdate(t) ==
    LET c == call[t] IN
    /\ At(t, "release_update") /\ ~readLock
    /\ fileSystem' = {IF r.path = c.path THEN [r EXCEPT !.current_version = c.ver]
                      ELSE r : r \in fileSystem}
    /\ dirty' = [dirty EXCEPT ![c.path] = FALSE]
    /\ Goto(t, "release_version")
    /\ UNCHANGED <<fileVersions, fileSegments, disk, writers, clock, readLock, blemish>>

\* Mutant: the result of the UPDATE is not looked at either.
ReleaseUpdateUnchecked(t) ==
    /\ At(t, "release_update") /\ readLock
    /\ Mark({call[t].path}, {"busy"})
    /\ Goto(t, "release_version")
    /\ UNCHANGED <<tables, disk, writers, clock, readLock, dirty>>

ReleaseUpdateLost(t) ==
    /\ At(t, "release_update") /\ readLock
    /\ Return(t)
    /\ UNCHANGED <<tables, disk, writers, clock, readLock, history>>

\* Mutant: a release records no version.
ReleaseVersionSkipped(t) ==
    /\ At(t, "release_version")
    /\ Goto(t, "release_open")
    /\ UNCHANGED <<tables, disk, writers, clock, readLock, history>>

\* Mutant: the commented-out remove_version(path, curr_ver) is put back, without the
\* segments, which remove_segments no longer deletes.
ReleaseVersionPurges(t) ==
    LET c == call[t] IN
    /\ At(t, "release_version")
    /\ fileVersions' = Commit(fileVersions,
           {v \in fileVersions : v.path # c.path}
               \cup {[path |-> c.path, version |-> c.ver]})
    /\ Mark({c.path}, Lost)
    /\ Goto(t, "release_open")
    /\ UNCHANGED <<fileSystem, fileSegments, disk, writers, clock, readLock, dirty>>

\* INSERT INTO file_versions; the result is not looked at.
ReleaseVersion(t) ==
    LET c == call[t] IN
    /\ At(t, "release_version")
    /\ fileVersions' = Commit(fileVersions,
           fileVersions \cup {[path |-> c.path, version |-> c.ver]})
    /\ Mark({c.path}, Lost)
    /\ Goto(t, "release_open")
    /\ UNCHANGED <<fileSystem, fileSegments, disk, writers, clock, readLock, dirty>>

ReleaseOpen(t) ==
    /\ At(t, "release_open")
    /\ disk[call[t].path].kind = "reg"
    /\ Goto(t, "release_read")
    /\ UNCHANGED <<tables, disk, writers, clock, readLock, history>>

\* pread of one segment.
ReleaseRead(t) ==
    LET c == call[t] IN
    /\ At(t, "release_read")
    /\ Loop(t, "release_sign", c.seg, Segment(disk[c.path].data, c.seg))
    /\ UNCHANGED <<tables, disk, writers, clock, readLock, history>>

\* open or pread fails: -errno.
ReleaseFails(t) ==
    /\ call[t].pc \in {"release_open", "release_read"}
    /\ "io" \in Faults
    /\ Dirty({call[t].path})
    /\ Return(t)
    /\ UNCHANGED <<tables, disk, writers, clock, readLock, blemish>>

\* Mutant: seg is advanced before the segment is signed.
SignedRowAhead(c) ==
    [path |-> c.path, version |-> c.ver, segment |-> c.seg + 1,
     signature |-> [path |-> c.path, content |-> c.buf]]

\* The row sign_segment stores: the signature covers the name it is given and the
\* bytes in the buffer.
SignedRow(c) ==
    [path |-> c.path, version |-> c.ver, segment |-> c.seg,
     signature |-> [path |-> c.path, content |-> c.buf]]

\* Mutants: INSERT OR IGNORE; a replacement that forgets the version.
InsertOrIgnore(table, row) ==
    IF \E s \in table : /\ s.path = row.path /\ s.version = row.version
                        /\ s.segment = row.segment
    THEN table ELSE table \cup {row}
ReplaceAnyVersion(table, row) ==
    {s \in table : s.path # row.path \/ s.segment # row.segment} \cup {row}

\* INSERT OR REPLACE INTO file_segments.
InsertOrReplace(table, row) ==
    {s \in table : \/ s.path # row.path \/ s.version # row.version
                   \/ s.segment # row.segment} \cup {row}

\* Mutant: seg is not advanced.
SegmentAgain(c) == c.seg

NextSegment(c) == c.seg + 1

\* sign_segment, whose statement's result is not looked at, then the loop's test: a
\* full segment is followed by another read.
ReleaseSign(t) ==
    LET c == call[t] IN
    /\ At(t, "release_sign")
    /\ fileSegments' = Commit(fileSegments, InsertOrReplace(fileSegments, SignedRow(c)))
    /\ dirty' = [dirty EXCEPT ![c.path] = @ \/ readLock]
    /\ Mark({c.path}, IF readLock THEN {"gap"} ELSE {})
    /\ IF Len(c.buf) = SegSize
       THEN Loop(t, "release_read", NextSegment(c), <<>>)
       ELSE Return(t)
    /\ UNCHANGED <<fileSystem, fileVersions, disk, writers, clock, readLock>>

-----------------------------------------------------------------------------
(* ndnfs_unlink: the row goes, versions and segments stay *)

\* Mutant: the DELETE matches no row.
DeleteNothing(p) == fileSystem

DeleteRow(p) == Commit(fileSystem, {r \in fileSystem : r.path # p})

\* remove_file_entry.
UnlinkEntry(t, p) ==
    /\ ~DirLocked /\ ~InUse(p) /\ writers[p] = 0
    /\ disk[p] # Absent
    /\ fileSystem' = DeleteRow(p)
    /\ Mark({p}, Lost)
    /\ Begin(t, "unlink_again", p, p)
    /\ UNCHANGED <<fileVersions, fileSegments, disk, writers, clock, readLock, dirty>>

\* The same DELETE again.
UnlinkAgain(t) ==
    LET p == call[t].path IN
    /\ At(t, "unlink_again")
    /\ fileSystem' = DeleteRow(p)
    /\ Mark({p}, Lost)
    /\ Goto(t, "unlink_file")
    /\ UNCHANGED <<fileVersions, fileSegments, disk, writers, clock, readLock, dirty>>

UnlinkFile(t) ==
    /\ At(t, "unlink_file")
    /\ disk' = [disk EXCEPT ![call[t].path] = Absent]
    /\ Return(t)
    /\ UNCHANGED <<tables, writers, clock, readLock, history>>

UnlinkFails(t) ==
    /\ At(t, "unlink_file")
    /\ "io" \in Faults
    /\ Mark({call[t].path}, {"io"})
    /\ Return(t)
    /\ UNCHANGED <<tables, disk, writers, clock, readLock, dirty>>

-----------------------------------------------------------------------------
(* ndnfs_rename.  res is never assigned from sqlite3_step, so no UPDATE's *)
(* failure is seen.  A name blemished before blemishes the other one.     *)

RenameSystem(t, from, to) ==
    /\ ~DirLocked /\ ~InUse(from) /\ ~InUse(to)
    /\ from # to /\ disk[from] # Absent /\ writers[to] = 0
    /\ fileSystem' = Commit(fileSystem,
           UpdatePath(fileSystem, from, to, SystemClash(from, to)))
    /\ Mark({from, to}, blemish[from] \cup blemish[to] \cup Lost \cup
                        (IF Known(to) THEN {"collide"} ELSE {}))
    /\ Dirty({from, to})
    /\ Begin(t, "rename_versions", from, to)
    /\ UNCHANGED <<fileVersions, fileSegments, disk, writers, clock, readLock>>

\* Mutant: the UPDATE of file_versions is left out.
RenameVersionsSkipped(t) ==
    /\ At(t, "rename_versions")
    /\ Goto(t, "rename_segments")
    /\ UNCHANGED <<tables, disk, writers, clock, readLock, history>>

RenameVersions(t) ==
    LET c == call[t] IN
    /\ At(t, "rename_versions")
    /\ fileVersions' = Commit(fileVersions,
           UpdatePath(fileVersions, c.path, c.to, VersionClash(c.path, c.to)))
    /\ Mark({c.path, c.to}, Lost)
    /\ Goto(t, "rename_segments")
    /\ UNCHANGED <<fileSystem, fileSegments, disk, writers, clock, readLock, dirty>>

RenameSegments(t) ==
    LET c == call[t] IN
    /\ At(t, "rename_segments")
    /\ fileSegments' = Commit(fileSegments,
           UpdatePath(fileSegments, c.path, c.to, SegmentClash(c.path, c.to)))
    /\ Mark({c.path, c.to}, Lost)
    /\ Goto(t, "rename_file")
    /\ UNCHANGED <<fileSystem, fileVersions, disk, writers, clock, readLock, dirty>>

\* rename(2); open handles follow the file.
RenameFile(t) ==
    LET c == call[t] IN
    /\ At(t, "rename_file")
    /\ disk' = [disk EXCEPT ![c.to] = disk[c.path], ![c.path] = Absent]
    /\ writers' = [writers EXCEPT ![c.to] = writers[c.path], ![c.path] = 0]
    /\ Return(t)
    /\ UNCHANGED <<tables, clock, readLock, history>>

RenameFails(t) ==
    LET c == call[t] IN
    /\ At(t, "rename_file")
    /\ "io" \in Faults
    /\ Mark({c.path, c.to}, {"io"})
    /\ Return(t)
    /\ UNCHANGED <<tables, disk, writers, clock, readLock, dirty>>

-----------------------------------------------------------------------------
(* The rest of the world *)

Tick ==
    /\ clock < MaxClock
    /\ clock' = clock + 1
    /\ UNCHANGED <<tables, disk, call, writers, readLock, history>>

\* A SELECT of the server between its sqlite3_step and its sqlite3_finalize.
ServerLocks ==
    /\ "busy" \in Faults /\ ~readLock
    /\ readLock' = TRUE
    /\ UNCHANGED <<tables, disk, call, writers, clock, history>>

ServerUnlocks ==
    /\ readLock
    /\ readLock' = FALSE
    /\ UNCHANGED <<tables, disk, call, writers, clock, history>>

\* The process is killed and main starts it again over the same two stores:
\* CREATE TABLE IF NOT EXISTS keeps the tables, and nothing is repaired.
Crash ==
    /\ "crash" \in Faults
    /\ call' = [t \in Threads |-> IdleCall]
    /\ writers' = [p \in Path |-> 0]
    /\ Mark({p \in Path : InUse(p)}, {"crash"})
    /\ Dirty({p \in Path : InUse(p)})
    /\ UNCHANGED <<tables, disk, clock, readLock>>

-----------------------------------------------------------------------------

\* The next step of the handler thread t is in.
Continue(t) ==
    \/ MknodVersion(t)   \/ MknodRow(t)      \/ MknodCreate(t)  \/ MknodFails(t)
    \/ ReleaseUpdate(t)  \/ ReleaseUpdateLost(t)
    \/ ReleaseVersion(t) \/ ReleaseOpen(t)
    \/ ReleaseRead(t)    \/ ReleaseSign(t)   \/ ReleaseFails(t)
    \/ UnlinkAgain(t)    \/ UnlinkFile(t)    \/ UnlinkFails(t)
    \/ RenameVersions(t) \/ RenameSegments(t)
    \/ RenameFile(t)     \/ RenameFails(t)

\* Thread t takes a new request.
Accept(t) ==
    \/ \E p \in Path :
        \/ MknodSelect(t, p)
        \/ CreateSymlink(t, p)
        \/ OpenForWrite(t, p)
        \/ \E off \in 0..(MaxLen - 1), b \in Byte : Write(t, p, off, b)
        \/ \E n \in 0..MaxLen : Truncate(t, p, n)
        \/ ReleaseSelect(t, p)
        \/ UnlinkEntry(t, p)
    \/ \E from, to \in Path : RenameSystem(t, from, to)

World == Tick \/ ServerLocks \/ ServerUnlocks \/ Crash

Next == World \/ \E t \in Threads : Continue(t) \/ Accept(t)

Spec == Init /\ [][Next]_vars

\* The operating system schedules a worker thread until its handler returns.
FairSpec == Spec /\ \A t \in Threads : WF_call(Continue(t))

-----------------------------------------------------------------------------
(* Properties *)

Excused(p, faults) == blemish[p] \cap faults # {}

\* A file that can be seen in the directory has its row, whatever was renamed
\* onto whatever: no interleaving of handlers leaves a file that cannot be opened.
\* Only a lost statement, a crash or a failed system call can (ndnfs_mknod,
\* ndnfs_unlink and ndnfs_rename change the tree last).
FileHasRow ==
    \A p \in Path :
        \/ disk[p].kind # "reg"
        \/ NameLocked(p)
        \/ HasRow(p)
        \/ Excused(p, {"busy", "crash", "io"})

\* A row describes a file that is there.  ndnfs_mknod refuses a name that has a
\* row, so a row without its file takes the name out of use.
RowHasFile ==
    \A r \in fileSystem :
        \/ disk[r.path].kind = "reg"
        \/ NameLocked(r.path)
        \/ Excused(r.path, {"busy", "crash", "io", "collide"})

\* The current version of a file is a recorded version, except while a release of
\* it stands between its UPDATE and its INSERT or a rename has not moved the versions
\* yet: the server answers a request for metadata from file_versions.
VersionRecorded ==
    \A r \in fileSystem :
        \/ HasVersion(r.path, r.current_version)
        \/ \E t \in Threads : /\ At(t, "release_version")
                              /\ call[t].path = r.path
                              /\ call[t].ver = r.current_version
        \/ \E t \in Threads : At(t, "rename_versions") /\ call[t].to = r.path
        \/ Excused(r.path, {"busy", "crash", "collide"})

\* Every signature belongs to a recorded version of its file, except while a rename
\* has moved the versions and not the segments: release records the version before
\* it signs.
SegmentVersionRecorded ==
    \A s \in fileSegments :
        \/ HasVersion(s.path, s.version)
        \/ \E t \in Threads : At(t, "rename_segments") /\ call[t].path = s.path
        \/ Excused(s.path, {"busy", "crash", "collide"})

\* The signed segments of a version have no gap below them, whoever signed them
\* and wherever a crash or a failed read stopped the loop: a client fetches them
\* in order.
SegmentsContiguous ==
    \A s \in fileSegments :
        \/ s.segment = 0
        \/ \E q \in fileSegments : /\ q.path = s.path /\ q.version = s.version
                                   /\ q.segment = s.segment - 1
        \/ Excused(s.path, {"gap"})

\* While no release is signing a file, if nothing changed it after the last of them
\* made its version current and none was cut short, every segment of the current version has a
\* signature over the name and the bytes the disk holds (ndnfs_release's loop).
SignedCurrent ==
    \A r \in fileSystem :
        LET d == disk[r.path] IN
        d.kind = "reg" /\ ~dirty[r.path] /\ ~Releasing(r.path) =>
            \A n \in 0..LastSegment(d.data) :
                [path |-> r.path, version |-> r.current_version, segment |-> n,
                 signature |-> [path |-> r.path, content |-> Segment(d.data, n)]]
                    \in fileSegments

\* The current version is the latest in the history (ndnfs_mknod and ndnfs_release
\* take both from one time(0)).
CurrentIsLatest ==
    \A r \in fileSystem, v \in fileVersions :
        v.path = r.path =>
            \/ v.version <= r.current_version
            \/ NameLocked(r.path)
            \/ Excused(r.path, {"collide"})

\* The signatures of a version that is no longer current are never replaced: a
\* release signs only the version it has made current.
OldSignaturesKept ==
    [][\A r \in fileSystem, s \in fileSegments :
          s.path = r.path /\ s.version < r.current_version /\ ~NameLocked(r.path)
              => s \in fileSegments']_vars

\* The comment on ndnfs_rename: it changes every entry related with the content.
RenameMovesEveryEntry ==
    [][\A t \in Threads : RenameFile(t) => ~Known(call[t].path)]_vars

\* Every handler returns: the signing loop ends although a writer may lengthen the
\* file under it.
HandlersReturn == \A t \in Threads : ~Idle(t) ~> Idle(t)

=============================================================================
