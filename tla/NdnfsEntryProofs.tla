-------------------------- MODULE NdnfsEntryProofs --------------------------
(***************************************************************************)
(* A file of the directory has its row and a row its file, for any number  *)
(* of threads, with the faults that excuse the contrary and no other.      *)
(*                                                                         *)
(* FileHasRow and RowHasFile say nothing of a name inside a mknod, an      *)
(* unlink or a rename.  EntryInv adds what these have established of their *)
(* names: a file about to be created has its row, one about to go has none,*)
(* and a rename's row is where its file is about to be.                    *)
(***************************************************************************)
EXTENDS NdnfsProofs

IsFile(p) == disk[p].kind = "reg"

\* What excuses a file without a row, and a row without a file.
Hidden(p) == Excused(p, {"busy", "crash", "io"})
Stray(p)  == Excused(p, {"busy", "crash", "io", "collide"})

Made(p)  == HasRow(p) \/ Hidden(p)
Gone(p)  == HasRow(p) => Stray(p)
Sound(p) == (IsFile(p) => Made(p)) /\ (HasRow(p) => IsFile(p) \/ Stray(p))
Moved(p, q) ==
    /\ IsFile(p) => Made(q)
    /\ HasRow(q) => IsFile(p) \/ Stray(q)
    /\ Gone(p)

\* What a handler on p, or on p and q, has established when it stands at pc.
Ready(pc, p, q) ==
    /\ pc \in MknodPC \cup UnlinkPC => p = q
    /\ pc = "mknod_create" => Made(p)
    /\ pc \in UnlinkPC => Gone(p)
    /\ pc \in RenamePC => Moved(p, q)

Entries ==
    /\ \A p \in Path : NameLocked(p) \/ Sound(p)
    /\ \A t \in Threads : Ready(call[t].pc, call[t].path, call[t].to)

EntryInv == TypeOK /\ Locks /\ Entries

LEMMA EntryInvImplies == EntryInv => FileHasRow /\ RowHasFile
<1> SUFFICES ASSUME EntryInv PROVE FileHasRow /\ RowHasFile
  OBVIOUS
<1>1. FileHasRow
  BY DEF EntryInv, Entries, Sound, FileHasRow, IsFile, Made, Hidden
<1>2. RowHasFile
  <2>1. \A r \in fileSystem : r.path \in Path /\ HasRow(r.path)
    BY DEF EntryInv, TypeOK, SystemRow, HasRow
  <2> QED
    BY <2>1 DEF EntryInv, Entries, Sound, RowHasFile, IsFile, Stray
<1> QED
  BY <1>1, <1>2

-----------------------------------------------------------------------------
(* What holds of a name that a step leaves alone. *)

\* The step changes neither whether x has a row nor whether it is a file.
Same(x) == (HasRow(x)' <=> HasRow(x)) /\ (IsFile(x)' <=> IsFile(x))

LEMMA BlemishKept ==
    ASSUME TypeOK, [Next]_vars
    PROVE  \A p \in Path : blemish[p] \subseteq blemish'[p]
<1>2. \A ps, faults : Mark(ps, faults) => \A p \in Path : blemish[p] \subseteq blemish'[p]
  BY MarkGrows
<1>3. ASSUME NEW t \in Threads, Continue(t)
      PROVE  blemish' = blemish \/ \E ps, faults : Mark(ps, faults)
  <2>1. CASE \/ MknodVersion(t) \/ MknodRow(t) \/ MknodFails(t)
             \/ ReleaseVersion(t) \/ ReleaseSign(t)
             \/ UnlinkAgain(t) \/ UnlinkFails(t)
             \/ RenameVersions(t) \/ RenameSegments(t) \/ RenameFails(t)
    BY <2>1 DEF MknodVersion, MknodRow, MknodFails, ReleaseVersion, ReleaseSign,
       UnlinkAgain, UnlinkFails, RenameVersions, RenameSegments, RenameFails
  <2>2. CASE \/ MknodCreate(t) \/ ReleaseUpdate(t) \/ ReleaseUpdateLost(t)
             \/ ReleaseOpen(t) \/ ReleaseRead(t) \/ ReleaseFails(t)
             \/ UnlinkFile(t) \/ RenameFile(t)
    BY <2>2 DEF MknodCreate, ReleaseUpdate, ReleaseUpdateLost, ReleaseOpen,
       ReleaseRead, ReleaseFails, UnlinkFile, RenameFile, history
  <2> QED
    BY <1>3, <2>1, <2>2 DEF Continue
<1>4. ASSUME NEW t \in Threads, Accept(t)
      PROVE  blemish' = blemish \/ \E ps, faults : Mark(ps, faults)
  BY <1>4 DEF Accept, MknodSelect, CreateSymlink, OpenForWrite, Write, Truncate,
     ReleaseSelect, UnlinkEntry, RenameSystem, history
<1>5. World => blemish' = blemish \/ \E ps, faults : Mark(ps, faults)
  BY DEF World, Tick, ServerLocks, ServerUnlocks, Crash, history
<1>6. blemish' = blemish \/ \E ps, faults : Mark(ps, faults)
  BY <1>3, <1>4, <1>5 DEF Next, vars
<1> QED
  BY <1>2, <1>6

LEMMA ExcusesKept ==
    ASSUME NEW p, blemish[p] \subseteq blemish'[p]
    PROVE  /\ Hidden(p) => Hidden(p)'
           /\ Stray(p) => Stray(p)'
           /\ Hidden(p) => Stray(p)
           /\ Hidden(p)' => Stray(p)'
BY DEF Hidden, Stray, Excused

LEMMA SoundKept ==
    ASSUME NEW p, blemish[p] \subseteq blemish'[p], Same(p), Sound(p)
    PROVE  Sound(p)'
BY ExcusesKept DEF Same, Sound, Made

LEMMA ReadyKept ==
    ASSUME NEW pc, NEW p, NEW q,
           blemish[p] \subseteq blemish'[p], blemish[q] \subseteq blemish'[q],
           Same(p), Same(q), Ready(pc, p, q)
    PROVE  Ready(pc, p, q)'
BY ExcusesKept DEF Same, Ready, Made, Gone, Moved
-----------------------------------------------------------------------------
(* The four ways in which a step moves the handlers. *)

\* No handler that locks names moves, and nothing of any name changes.
LEMMA EntriesStill ==
    ASSUME TypeOK, Entries, [Next]_vars, \A x \in Path : Same(x),
           \A u \in Threads :
               call[u].pc \in DirPC \/ call'[u].pc \in DirPC => call'[u] = call[u]
    PROVE  Entries'
<1>1. \A x \in Path : blemish[x] \subseteq blemish'[x]
  BY BlemishKept
<1>2. ASSUME NEW x \in Path PROVE NameLocked(x)' \/ Sound(x)'
  <2>1. CASE NameLocked(x)
    BY <2>1 DEF NameLocked
  <2>2. CASE Sound(x)
    BY <1>1, <2>2, SoundKept
  <2> QED
    BY <2>1, <2>2 DEF Entries
<1>3. ASSUME NEW u \in Threads
      PROVE  Ready(call[u].pc, call[u].path, call[u].to)'
  <2>1. CASE call'[u].pc \in DirPC
    <3>1. call'[u] = call[u] /\ call[u].pc # "idle"
      BY <2>1 DEF DirPC, MknodPC, UnlinkPC, RenamePC
    <3>2. PICK p \in Path, q \in Path : call[u].path = p /\ call[u].to = q
      BY <3>1, ActiveCall
    <3>3. PICK pc : call[u].pc = pc
      OBVIOUS
    <3>4. Ready(pc, p, q)'
      BY <1>1, <3>2, <3>3, ReadyKept DEF Entries
    <3> QED
      BY <3>1, <3>2, <3>3, <3>4 DEF Ready, Made, Gone, Moved, Hidden, Stray, Excused,
                                    HasRow, IsFile
  <2>2. CASE call'[u].pc \notin DirPC
    BY <2>2 DEF Ready, DirPC, MknodPC
  <2> QED
    BY <2>1, <2>2
<1> QED
  BY <1>2, <1>3 DEF Entries

\* Thread t stands inside a handler on p and q that locks them, or comes to: its part
\* of Entries, from what Ready says of it.
LEMMA EntriesLocked ==
    ASSUME TypeOK, Entries, [Next]_vars, NEW t \in Threads, NEW p \in Path, NEW q \in Path,
           NEW pc \in DirPC, Ready(pc, p, q)',
           \A x \in Path : x \notin {p, q} => Same(x),
           \A x \in Path : NameLocked(x) => x \in {p, q},
           \A u \in Threads : u # t => call'[u] = call[u] /\ call[u].pc \notin DirPC,
           call'[t].pc = pc, call'[t].path = p, call'[t].to = q
    PROVE  Entries'
<1>1. \A x \in Path : blemish[x] \subseteq blemish'[x]
  BY BlemishKept
<1>2. ASSUME NEW x \in Path PROVE NameLocked(x)' \/ Sound(x)'
  <2>1. CASE x \in {p, q}
    BY <2>1 DEF NameLocked
  <2>2. CASE x \notin {p, q}
    BY <1>1, <2>2, SoundKept DEF Entries
  <2> QED
    BY <2>1, <2>2
<1>3. Ready(call[t].pc, call[t].path, call[t].to)'
  BY DEF Ready, Made, Gone, Moved, Hidden, Stray, Excused, HasRow, IsFile
<1>4. ASSUME NEW u \in Threads, u # t
      PROVE  Ready(call[u].pc, call[u].path, call[u].to)'
  BY <1>4 DEF Ready, DirPC, MknodPC
<1> QED
  BY <1>2, <1>3, <1>4 DEF Entries

\* Thread t enters such a handler.
LEMMA EntriesBegin ==
    ASSUME TypeOK, Entries, [Next]_vars, NEW t \in Threads, NEW p \in Path, NEW q \in Path,
           NEW pc \in DirPC, ~DirLocked, Begin(t, pc, p, q), Ready(pc, p, q)',
           \A x \in Path : x \notin {p, q} => Same(x)
    PROVE  Entries'
<1>1. /\ \A u \in Threads : u # t => call'[u] = call[u]
      /\ call'[t].pc = pc /\ call'[t].path = p /\ call'[t].to = q
  BY BeginEffect
<1>2. \A u \in Threads : call[u].pc \notin DirPC
  BY DEF DirLocked
<1>3. \A x \in Path : ~NameLocked(x)
  BY <1>2 DEF NameLocked
<1> QED
  BY <1>1, <1>2, <1>3, EntriesLocked

\* Thread t goes on inside one.
LEMMA EntriesGoto ==
    ASSUME TypeOK, Locks, Entries, [Next]_vars,
           NEW t \in Threads, NEW p \in Path, NEW q \in Path,
           call[t].pc \in DirPC, call[t].path = p, call[t].to = q,
           NEW pc \in DirPC, Goto(t, pc), Ready(pc, p, q)',
           \A x \in Path : x \notin {p, q} => Same(x)
    PROVE  Entries'
<1>0. call[t].pc # "idle"
  BY DEF DirPC, MknodPC, UnlinkPC, RenamePC
<1>1. /\ \A u \in Threads : u # t => call'[u] = call[u]
      /\ call'[t].pc = pc /\ call'[t].path = p /\ call'[t].to = q
  BY <1>0, GotoEffect
<1>2. \A u \in Threads : u # t => call[u].pc \notin DirPC
  BY DEF Locks, DirExclusive
<1>3. \A x \in Path : NameLocked(x) => x \in {p, q}
  BY <1>2 DEF NameLocked
<1> QED
  BY <1>1, <1>2, <1>3, EntriesLocked

\* Thread t returns from one.
LEMMA EntriesReturn ==
    ASSUME TypeOK, Locks, Entries, [Next]_vars,
           NEW t \in Threads, NEW p \in Path, NEW q \in Path,
           call[t].pc \in DirPC, call[t].path = p, call[t].to = q, Return(t),
           Sound(p)', Sound(q)',
           \A x \in Path : x \notin {p, q} => Same(x)
    PROVE  Entries'
<1>1. /\ \A u \in Threads : u # t => call'[u] = call[u]
      /\ call'[t].pc = "idle"
  BY ReturnEffect
<1>2. \A u \in Threads : u # t => call[u].pc \notin DirPC
  BY DEF Locks, DirExclusive
<1>3. \A x \in Path : NameLocked(x) => x \in {p, q}
  BY <1>2 DEF NameLocked
<1>4. ASSUME NEW x \in Path PROVE Sound(x)'
  <2>1. CASE x \in {p, q}
    BY <2>1 DEF Sound, Made, Hidden, Stray, Excused, HasRow, IsFile
  <2>2. CASE x \notin {p, q}
    <3>1. blemish[x] \subseteq blemish'[x]
      BY BlemishKept
    <3> QED
      BY <1>3, <2>2, <3>1, SoundKept DEF Entries
  <2> QED
    BY <2>1, <2>2
<1>5. ASSUME NEW u \in Threads PROVE Ready(call[u].pc, call[u].path, call[u].to)'
  BY <1>1, <1>2 DEF Ready, DirPC, MknodPC, UnlinkPC, RenamePC
<1> QED
  BY <1>4, <1>5 DEF Entries
-----------------------------------------------------------------------------
(* The steps of handlers that lock no name. *)

LEMMA SameTables ==
    ASSUME fileSystem' = fileSystem, disk' = disk
    PROVE  \A x : Same(x)
BY DEF Same, HasRow, IsFile

LEMMA ReleaseEntries ==
    ASSUME TypeOK, Entries, [Next]_vars, NEW t \in Threads,
           \/ ReleaseUpdate(t) \/ ReleaseUpdateLost(t) \/ ReleaseVersion(t)
           \/ ReleaseOpen(t) \/ ReleaseRead(t) \/ ReleaseSign(t) \/ ReleaseFails(t)
    PROVE  Entries'
<1>1. call[t].pc \in ReleasePC
  BY DEF ReleaseUpdate, ReleaseUpdateLost, ReleaseVersion, ReleaseOpen, ReleaseRead,
     ReleaseSign, ReleaseFails, At, ReleasePC
<1>2. Continue(t)
  BY DEF Continue
<1>3. Moves(t)
  BY <1>2, ContinueMoves
<1>4. \A u \in Threads :
         call[u].pc \in DirPC \/ call'[u].pc \in DirPC => call'[u] = call[u]
  BY <1>1, <1>3 DEF Moves, IdleCall, DirPC, MknodPC, UnlinkPC, RenamePC, ReleasePC
<1>5. \A x \in Path : Same(x)
  <2>1. CASE ReleaseUpdate(t)
    <3>1. fileSystem' = {IF r.path = call[t].path
                         THEN [r EXCEPT !.current_version = call[t].ver]
                         ELSE r : r \in fileSystem}
      BY <2>1 DEF ReleaseUpdate
    <3>2. \A r \in fileSystem :
             [r EXCEPT !.current_version = call[t].ver].path = r.path
      BY DEF TypeOK, SystemRow
    <3>3. \A x : HasRow(x)' <=> HasRow(x)
      BY <3>1, <3>2 DEF HasRow
    <3> QED
      BY <2>1, <3>3 DEF ReleaseUpdate, Same, IsFile
  <2>2. CASE \/ ReleaseUpdateLost(t) \/ ReleaseVersion(t) \/ ReleaseOpen(t)
             \/ ReleaseRead(t) \/ ReleaseSign(t) \/ ReleaseFails(t)
    <3>1. fileSystem' = fileSystem /\ disk' = disk
      BY <2>2 DEF ReleaseUpdateLost, ReleaseVersion, ReleaseOpen, ReleaseRead,
         ReleaseSign, ReleaseFails, tables
    <3> QED
      BY <3>1, SameTables
  <2> QED
    BY <2>1, <2>2
<1> QED
  BY <1>4, <1>5, EntriesStill

LEMMA WholeEntries ==
    ASSUME TypeOK, Entries, [Next]_vars, NEW t \in Threads, NEW p \in Path,
           \/ OpenForWrite(t, p) \/ ReleaseSelect(t, p)
           \/ \E off \in 0..(MaxLen - 1), b \in Byte : Write(t, p, off, b)
           \/ \E n \in 0..MaxLen : Truncate(t, p, n)
    PROVE  Entries'
<1>1. fileSystem' = fileSystem
  BY DEF OpenForWrite, ReleaseSelect, Write, Truncate, tables
<1>2. \A x \in Path : IsFile(x)' <=> IsFile(x)
  BY DEF OpenForWrite, ReleaseSelect, Write, Truncate, IsFile, Accessible, Regular, TypeOK
<1>3. \A x \in Path : Same(x)
  BY <1>1, <1>2 DEF Same, HasRow
<1>4. \A u \in Threads :
         call[u].pc \in DirPC \/ call'[u].pc \in DirPC => call'[u] = call[u]
  <2>1. CASE call' = call
    BY <2>1
  <2>2. CASE Begin(t, "release_update", p, p)
    BY <2>2, BeginEffect DEF DirPC, MknodPC, UnlinkPC, RenamePC
  <2> QED
    BY <2>1, <2>2 DEF OpenForWrite, ReleaseSelect, Write, Truncate
<1> QED
  BY <1>3, <1>4, EntriesStill

LEMMA WorldEntries ==
    ASSUME TypeOK, Entries, [Next]_vars, World
    PROVE  Entries'
<1>1. CASE Tick \/ ServerLocks \/ ServerUnlocks
  <2>1. fileSystem' = fileSystem /\ disk' = disk /\ call' = call
    BY <1>1 DEF Tick, ServerLocks, ServerUnlocks, tables
  <2> QED
    BY <2>1, SameTables, EntriesStill
<1>2. CASE Crash
  <2>1. /\ fileSystem' = fileSystem /\ disk' = disk
        /\ \A u \in Threads : call'[u].pc = "idle"
        /\ Mark({x \in Path : InUse(x)}, {"crash"})
    BY <1>2 DEF Crash, tables, IdleCall
  <2>2. ASSUME NEW x \in Path PROVE Sound(x)'
    <3>1. CASE NameLocked(x)
      <4>1. InUse(x)
        BY <3>1 DEF NameLocked, InUse, Idle, DirPC, MknodPC, UnlinkPC, RenamePC
      <4>2. {"crash"} \subseteq blemish'[x]
        BY <2>1, <4>1, MarkGrows
      <4> QED
        BY <4>2 DEF Sound, Made, Hidden, Stray, Excused
    <3>2. CASE Sound(x)
      <4>1. blemish[x] \subseteq blemish'[x] /\ Same(x)
        BY <2>1, BlemishKept, SameTables
      <4> QED
        BY <3>2, <4>1, SoundKept
    <3> QED
      BY <3>1, <3>2 DEF Entries
  <2>3. ASSUME NEW u \in Threads PROVE Ready(call[u].pc, call[u].path, call[u].to)'
    BY <2>1 DEF Ready, MknodPC, UnlinkPC, RenamePC
  <2> QED
    BY <2>2, <2>3 DEF Entries
<1> QED
  BY <1>1, <1>2 DEF World

(* A symbolic link is made where there was nothing, and is no file. *)
LEMMA SymlinkEntries ==
    ASSUME TypeOK, Entries, [Next]_vars, NEW t \in Threads, NEW p \in Path,
           CreateSymlink(t, p)
    PROVE  Entries'
<1>1. fileSystem' = fileSystem /\ call' = call
  BY DEF CreateSymlink, tables
<1>2. \A x \in Path : IsFile(x)' <=> IsFile(x)
  BY DEF CreateSymlink, IsFile, Absent, SymLink, TypeOK
<1> QED
  BY <1>1, <1>2, EntriesStill DEF Same, HasRow

-----------------------------------------------------------------------------
(* mknod *)

LEMMA MknodEntries ==
    ASSUME TypeOK, Locks, Entries, [Next]_vars, NEW t \in Threads,
           MknodVersion(t) \/ MknodRow(t) \/ MknodCreate(t) \/ MknodFails(t)
    PROVE  Entries'
<1>1. call[t].pc \in MknodPC /\ call[t].pc \in DirPC /\ call[t].pc # "idle"
  BY DEF MknodVersion, MknodRow, MknodCreate, MknodFails, At, MknodPC, DirPC
<1>2. PICK p \in Path : call[t].path = p /\ call[t].to = p
  <2>1. call[t].path = call[t].to
    BY <1>1 DEF Entries, Ready
  <2> QED
    BY <1>1, <2>1, ActiveCall
<1>3. blemish[p] \subseteq blemish'[p]
  BY BlemishKept
<1>4. CASE MknodVersion(t)
  <2>1. fileSystem' = fileSystem /\ disk' = disk /\ Goto(t, "mknod_row")
    BY <1>4 DEF MknodVersion
  <2>2. "mknod_row" \in DirPC /\ Ready("mknod_row", p, p)'
    BY DEF Ready, DirPC, MknodPC, UnlinkPC, RenamePC
  <2> QED
    BY <1>1, <1>2, <2>1, <2>2, SameTables, EntriesGoto
<1>5. CASE MknodRow(t)
  <2>1. /\ fileSystem' = Commit(fileSystem,
               IF HasRow(p) THEN fileSystem
               ELSE fileSystem \cup {[path |-> p, current_version |-> call[t].ver,
                                      ready_signed |-> "NOT_READY"]})
        /\ disk' = disk /\ Goto(t, "mknod_create") /\ Mark({p}, Lost)
    BY <1>2, <1>5 DEF MknodRow
  <2>2. \A x \in Path : x # p => Same(x)
    BY <2>1 DEF Same, HasRow, IsFile, Commit
  <2>3. CASE readLock
    <3>1. {"busy"} \subseteq blemish'[p]
      BY <2>1, <2>3, MarkGrows DEF Lost
    <3> QED
      BY <1>1, <1>2, <2>1, <2>2, <3>1, EntriesGoto
      DEF Ready, Made, Hidden, Excused, DirPC, MknodPC, UnlinkPC, RenamePC
  <2>4. CASE ~readLock
    <3> DEFINE row == [path |-> p, current_version |-> call[t].ver,
                       ready_signed |-> "NOT_READY"]
    <3>r. row.path = p
      OBVIOUS
    <3> HIDE DEF row
    <3>1. HasRow(p)'
      <4>1. fileSystem' = IF HasRow(p) THEN fileSystem ELSE fileSystem \cup {row}
        BY <2>1, <2>4 DEF Commit, row
      <4> QED
        BY <4>1, <3>r DEF HasRow
    <3> QED
      BY <1>1, <1>2, <2>1, <2>2, <3>1, EntriesGoto
      DEF Ready, Made, DirPC, MknodPC, UnlinkPC, RenamePC
  <2> QED
    BY <2>3, <2>4
<1>6. CASE MknodCreate(t)
  <2>1. /\ fileSystem' = fileSystem /\ blemish' = blemish /\ Return(t)
        /\ disk' = [disk EXCEPT ![p] = Regular(<<>>)]
        /\ call[t].pc = "mknod_create"
    BY <1>2, <1>6 DEF MknodCreate, tables, At
  <2>2. \A x \in Path : x # p => Same(x)
    BY <2>1 DEF Same, HasRow, IsFile, TypeOK
  <2>3. IsFile(p)' /\ (HasRow(p)' <=> HasRow(p))
    BY <2>1 DEF IsFile, Regular, HasRow, TypeOK
  <2>4. Made(p)
    BY <1>2, <2>1 DEF Entries, Ready
  <2>5. Sound(p)'
    BY <1>3, <2>3, <2>4, ExcusesKept DEF Sound, Made
  <2> QED
    BY <1>1, <1>2, <2>1, <2>2, <2>5, EntriesReturn
<1>7. CASE MknodFails(t)
  <2>1. /\ fileSystem' = fileSystem /\ disk' = disk /\ Return(t)
        /\ Mark({p}, {"io"})
    BY <1>2, <1>7 DEF MknodFails, tables
  <2>2. {"io"} \subseteq blemish'[p]
    BY <2>1, MarkGrows
  <2>3. Sound(p)'
    BY <2>2 DEF Sound, Made, Hidden, Stray, Excused
  <2> QED
    BY <1>1, <1>2, <2>1, <2>3, SameTables, EntriesReturn
<1> QED
  BY <1>4, <1>5, <1>6, <1>7
-----------------------------------------------------------------------------
(* unlink *)

LEMMA DeleteEffect ==
    ASSUME NEW p, fileSystem' = DeleteRow(p)
    PROVE  /\ \A x : x # p => (HasRow(x)' <=> HasRow(x))
           /\ HasRow(p)' => readLock
           /\ HasRow(p)' => HasRow(p)
BY DEF DeleteRow, Commit, HasRow

LEMMA UnlinkEntries ==
    ASSUME TypeOK, Locks, Entries, [Next]_vars, NEW t \in Threads,
           UnlinkAgain(t) \/ UnlinkFile(t) \/ UnlinkFails(t)
    PROVE  Entries'
<1>1. call[t].pc \in UnlinkPC /\ call[t].pc \in DirPC /\ call[t].pc # "idle"
  BY DEF UnlinkAgain, UnlinkFile, UnlinkFails, At, UnlinkPC, DirPC
<1>2. PICK p \in Path : call[t].path = p /\ call[t].to = p
  <2>1. call[t].path = call[t].to
    BY <1>1 DEF Entries, Ready
  <2> QED
    BY <1>1, <2>1, ActiveCall
<1>3. blemish[p] \subseteq blemish'[p]
  BY BlemishKept
<1>4. Gone(p)
  BY <1>1, <1>2 DEF Entries, Ready
<1>5. CASE UnlinkAgain(t)
  <2>1. fileSystem' = DeleteRow(p) /\ disk' = disk /\ Goto(t, "unlink_file")
    BY <1>2, <1>5 DEF UnlinkAgain
  <2>2. \A x \in Path : x # p => Same(x)
    BY <2>1, DeleteEffect DEF Same, IsFile
  <2>3. Gone(p)'
    BY <1>3, <1>4, <2>1, DeleteEffect, ExcusesKept DEF Gone
  <2>4. "unlink_file" \in DirPC /\ Ready("unlink_file", p, p)'
    BY <2>3 DEF Ready, DirPC, MknodPC, UnlinkPC, RenamePC
  <2> QED
    BY <1>1, <1>2, <2>1, <2>2, <2>4, EntriesGoto
<1>6. CASE UnlinkFile(t)
  <2>1. /\ fileSystem' = fileSystem /\ Return(t)
        /\ disk' = [disk EXCEPT ![p] = Absent]
    BY <1>2, <1>6 DEF UnlinkFile, tables
  <2>2. \A x \in Path : x # p => Same(x)
    BY <2>1 DEF Same, HasRow, IsFile, TypeOK
  <2>3. ~IsFile(p)' /\ (HasRow(p)' <=> HasRow(p))
    BY <2>1 DEF IsFile, Absent, HasRow, TypeOK
  <2>4. Sound(p)'
    BY <1>3, <1>4, <2>3, ExcusesKept DEF Sound, Gone
  <2> QED
    BY <1>1, <1>2, <2>1, <2>2, <2>4, EntriesReturn
<1>7. CASE UnlinkFails(t)
  <2>1. /\ fileSystem' = fileSystem /\ disk' = disk /\ Return(t)
        /\ Mark({p}, {"io"})
    BY <1>2, <1>7 DEF UnlinkFails, tables
  <2>2. {"io"} \subseteq blemish'[p]
    BY <2>1, MarkGrows
  <2>3. Sound(p)'
    BY <2>2 DEF Sound, Made, Hidden, Stray, Excused
  <2> QED
    BY <1>1, <1>2, <2>1, <2>3, SameTables, EntriesReturn
<1> QED
  BY <1>5, <1>6, <1>7

(* Handlers that lock their names, at their start *)
LEMMA StartEntries ==
    ASSUME TypeOK, Locks, Entries, [Next]_vars, NEW t \in Threads, NEW p \in Path,
           MknodSelect(t, p) \/ UnlinkEntry(t, p)
    PROVE  Entries'
<1>1. CASE MknodSelect(t, p)
  <2>1. /\ fileSystem' = fileSystem /\ disk' = disk /\ ~DirLocked
        /\ Begin(t, "mknod_version", p, p)
    BY <1>1 DEF MknodSelect, tables
  <2>2. "mknod_version" \in DirPC /\ Ready("mknod_version", p, p)'
    BY DEF Ready, DirPC, MknodPC, UnlinkPC, RenamePC
  <2> QED
    BY <2>1, <2>2, SameTables, EntriesBegin
<1>2. CASE UnlinkEntry(t, p)
  <2>1. /\ fileSystem' = DeleteRow(p) /\ disk' = disk /\ ~DirLocked
        /\ Begin(t, "unlink_again", p, p) /\ Mark({p}, Lost)
    BY <1>2 DEF UnlinkEntry
  <2>2. \A x \in Path : x # p => Same(x)
    BY <2>1, DeleteEffect DEF Same, IsFile
  <2>3. Gone(p)'
    <3>1. readLock => {"busy"} \subseteq blemish'[p]
      BY <2>1, MarkGrows DEF Lost
    <3> QED
      BY <2>1, <3>1, DeleteEffect DEF Gone, Stray, Excused
  <2>4. "unlink_again" \in DirPC /\ Ready("unlink_again", p, p)'
    BY <2>3 DEF Ready, DirPC, MknodPC, UnlinkPC, RenamePC
  <2> QED
    BY <2>1, <2>2, <2>4, EntriesBegin
<1> QED
  BY <1>1, <1>2

-----------------------------------------------------------------------------
(* rename *)

LEMMA RenameSystemEntries ==
    ASSUME TypeOK, Locks, Entries, [Next]_vars,
           NEW t \in Threads, NEW p \in Path, NEW q \in Path, RenameSystem(t, p, q)
    PROVE  Entries'
<1> DEFINE faults == blemish[p] \cup blemish[q] \cup Lost \cup
                         (IF Known(q) THEN {"collide"} ELSE {})
<1>1. /\ fileSystem' = Commit(fileSystem, UpdatePath(fileSystem, p, q, SystemClash(p, q)))
      /\ disk' = disk /\ ~DirLocked /\ p # q
      /\ Begin(t, "rename_versions", p, q)
      /\ Mark({p, q}, faults)
  BY DEF RenameSystem
<1>2. faults \subseteq blemish'[p] /\ faults \subseteq blemish'[q]
  <2> HIDE DEF faults
  <2> QED
    BY <1>1, MarkGrows
<1>3. /\ Hidden(p) => Hidden(q)'
      /\ Stray(p) \/ Stray(q) => Stray(p)' /\ Stray(q)'
      /\ readLock => Hidden(q)' /\ Stray(p)' /\ Stray(q)'
      /\ Known(q) => Stray(p)' /\ Stray(q)'
  BY <1>2 DEF Hidden, Stray, Excused, Lost
<1> HIDE DEF faults
<1>4. Sound(p) /\ Sound(q)
  BY <1>1 DEF Entries, NameLocked, DirLocked
<1>5. IsFile(p)' <=> IsFile(p)
  BY <1>1 DEF IsFile
<1>6. \A x \in Path : x \notin {p, q} => Same(x)
  <2>1. \A r \in fileSystem : [r EXCEPT !.path = q].path = q
    BY DEF TypeOK, SystemRow
  <2> QED
    BY <1>1, <2>1 DEF Same, HasRow, IsFile, Commit, UpdatePath
<1>7. Moved(p, q)'
  <2>1. CASE readLock
    BY <1>3, <2>1 DEF Moved, Made, Gone
  <2>2. CASE ~readLock /\ SystemClash(p, q)
    <3>1. fileSystem' = fileSystem /\ HasRow(q) /\ Known(q)
      BY <1>1, <2>2 DEF Commit, UpdatePath, SystemClash, Known
    <3> QED
      BY <1>3, <3>1 DEF Moved, Made, Gone, HasRow
  <2>3. CASE ~readLock /\ ~SystemClash(p, q)
    <3>1. fileSystem' = {IF r.path = p THEN [r EXCEPT !.path = q] ELSE r : r \in fileSystem}
      BY <1>1, <2>3 DEF Commit, UpdatePath
    <3>2. \A r \in fileSystem : [r EXCEPT !.path = q].path = q
      BY DEF TypeOK, SystemRow
    <3>3. ~HasRow(p)'
      BY <1>1, <3>1, <3>2 DEF HasRow
    <3>4. HasRow(p) => HasRow(q)'
      BY <3>1, <3>2 DEF HasRow
    <3>5. HasRow(q)' => HasRow(p) \/ HasRow(q)
      BY <3>1, <3>2 DEF HasRow
    <3>6. HasRow(q) => Known(q)
      BY DEF Known
    <3> QED
      BY <1>3, <1>4, <1>5, <3>3, <3>4, <3>5, <3>6 DEF Moved, Made, Gone, Sound
  <2> QED
    BY <2>1, <2>2, <2>3
<1>8. "rename_versions" \in DirPC /\ Ready("rename_versions", p, q)'
  BY <1>7 DEF Ready, DirPC, MknodPC, UnlinkPC, RenamePC
<1> QED
  BY <1>1, <1>6, <1>8, EntriesBegin

LEMMA RenameEntries ==
    ASSUME TypeOK, Locks, Entries, [Next]_vars, NEW t \in Threads,
           \/ RenameVersions(t) \/ RenameSegments(t) \/ RenameFile(t) \/ RenameFails(t)
    PROVE  Entries'
<1>1. call[t].pc \in RenamePC /\ call[t].pc \in DirPC /\ call[t].pc # "idle"
  BY DEF RenameVersions, RenameSegments, RenameFile, RenameFails, At, RenamePC, DirPC
<1>2. PICK p \in Path, q \in Path : call[t].path = p /\ call[t].to = q
  BY <1>1, ActiveCall
<1>3. blemish[p] \subseteq blemish'[p] /\ blemish[q] \subseteq blemish'[q]
  BY BlemishKept
<1>4. p # q /\ Moved(p, q)
  BY <1>1, <1>2 DEF Locks, RenameDistinct, Entries, Ready
<1>5. CASE RenameVersions(t) \/ RenameSegments(t)
  <2>1. fileSystem' = fileSystem /\ disk' = disk
    BY <1>5 DEF RenameVersions, RenameSegments
  <2>2. Moved(p, q)'
    BY <1>3, <1>4, <2>1, ExcusesKept, SameTables DEF Moved, Made, Gone, Same
  <2>3. PICK pc \in {"rename_segments", "rename_file"} : Goto(t, pc)
    BY <1>5 DEF RenameVersions, RenameSegments
  <2>4. pc \in DirPC /\ Ready(pc, p, q)'
    BY <2>2, <2>3 DEF Ready, DirPC, MknodPC, UnlinkPC, RenamePC
  <2> QED
    BY <1>1, <1>2, <2>1, <2>3, <2>4, SameTables, EntriesGoto
<1>6. CASE RenameFile(t)
  <2>1. /\ fileSystem' = fileSystem /\ Return(t)
        /\ disk' = [disk EXCEPT ![q] = disk[p], ![p] = Absent]
    BY <1>2, <1>6 DEF RenameFile, tables
  <2>2. /\ \A x \in Path : x \notin {p, q} => disk'[x] = disk[x]
        /\ disk'[p] = Absent /\ disk'[q] = disk[p]
    BY <1>4, <2>1 DEF TypeOK
  <2>3. \A x \in Path : x \notin {p, q} => Same(x)
    BY <2>1, <2>2 DEF Same, HasRow, IsFile
  <2>4. ~IsFile(p)' /\ (IsFile(q)' <=> IsFile(p))
    BY <2>2 DEF IsFile, Absent
  <2>5. (HasRow(p)' <=> HasRow(p)) /\ (HasRow(q)' <=> HasRow(q))
    BY <2>1 DEF HasRow
  <2>6. Sound(p)' /\ Sound(q)'
    BY <1>3, <1>4, <2>4, <2>5, ExcusesKept DEF Sound, Moved, Made, Gone
  <2> QED
    BY <1>1, <1>2, <2>1, <2>3, <2>6, EntriesReturn
<1>7. CASE RenameFails(t)
  <2>1. /\ fileSystem' = fileSystem /\ disk' = disk /\ Return(t)
        /\ Mark({p, q}, {"io"})
    BY <1>2, <1>7 DEF RenameFails, tables
  <2>2. {"io"} \subseteq blemish'[p] /\ {"io"} \subseteq blemish'[q]
    BY <2>1, MarkGrows
  <2>3. Sound(p)' /\ Sound(q)'
    BY <2>2 DEF Sound, Made, Hidden, Stray, Excused
  <2> QED
    BY <1>1, <1>2, <2>1, <2>3, SameTables, EntriesReturn
<1> QED
  BY <1>5, <1>6, <1>7

-----------------------------------------------------------------------------
(* EntryInv is inductive. *)

LEMMA NextEntries ==
    ASSUME TypeOK, Locks, Entries, [Next]_vars
    PROVE  Entries'
<1>1. ASSUME UNCHANGED vars PROVE Entries'
  BY <1>1, SameTables, EntriesStill DEF vars
<1>2. ASSUME NEW t \in Threads, Continue(t) PROVE Entries'
  BY <1>2, MknodEntries, ReleaseEntries, UnlinkEntries, RenameEntries DEF Continue
<1>3. ASSUME NEW t \in Threads, Accept(t) PROVE Entries'
  BY <1>3, StartEntries, SymlinkEntries, WholeEntries, RenameSystemEntries DEF Accept
<1> QED
  BY <1>1, <1>2, <1>3, WorldEntries DEF Next

LEMMA EntryInit == Init => EntryInv
<1> SUFFICES ASSUME Init PROVE EntryInv
  OBVIOUS
<1>1. \A t \in Threads : call[t].pc = "idle"
  BY DEF Init, IdleCall
<1>2. Locks
  BY <1>1 DEF Locks, DirExclusive, RenameAlone, RenameDistinct,
     DirPC, MknodPC, UnlinkPC, RenamePC
<1>3. \A x \in Path : Sound(x)
  BY DEF Init, Sound, IsFile, HasRow, Absent
<1> QED
  BY <1>1, <1>2, <1>3, TypeInit DEF EntryInv, Entries, Ready, MknodPC, UnlinkPC, RenamePC

LEMMA EntryInvariant == Spec => []EntryInv
<1>1. EntryInv /\ [Next]_vars => EntryInv'
  BY TypePreserved, NextLocks, NextEntries DEF EntryInv
<1> QED
  BY EntryInit, <1>1, PTL DEF Spec

(***************************************************************************)
(* No interleaving of handlers leaves a file that cannot be opened: a file *)
(* has its row unless a statement was lost, a system call failed or the    *)
(* process died on its name.  A collision of renames is no excuse.         *)
(***************************************************************************)
THEOREM FilesKeepRows == Spec => []FileHasRow
  BY EntryInvariant, EntryInvImplies, PTL

(***************************************************************************)
(* No interleaving of handlers leaves a row without its file, which mknod  *)
(* would refuse the name for, with these excuses and that of a rename onto *)
(* a name the tables know.                                                 *)
(***************************************************************************)
THEOREM RowsKeepFiles == Spec => []RowHasFile
  BY EntryInvariant, EntryInvImplies, PTL
=============================================================================
