-------------------------------- MODULE Tree --------------------------------
(***************************************************************************)
(* NDNFS on a tree of directories, with hard and symbolic links: the FUSE  *)
(* handlers on names (fs/file.cc, fs/directory.cc, fs/attribute.cc) and,   *)
(* beside them, the listing of a directory by ndnfs-server.                *)
(*                                                                         *)
(* The tables know files by path and nothing of directories and links, so  *)
(* a call that is right for the tree below can leave them behind.  That is *)
(* the subject here: handlers run whole, one at a time, as under the -s    *)
(* option of the README; what happens inside them is Ndnfs's.  Content,    *)
(* releases and with them the table file_segments are Ndnfs's, too.        *)
(***************************************************************************)
EXTENDS MimeInference

CONSTANTS
    Path,      \* names inside the mount, each the sequence of its components
    Files,     \* identities of regular files
    MaxClock   \* bound on time(0)

Parent(p) == SubSeq(p, 1, Len(p) - 1)
Name(p)   == p[Len(p)]

\* What lies below a directory, its own name left out.
Below(d)  == {q \in Path : Len(q) > Len(d) /\ SubSeq(q, 1, Len(d)) = d}

Root == <<>>
Node == Path \cup {Root}

ASSUME PathAssumption ==
    /\ Root \notin Path
    /\ \A p \in Path : p \in Seq(DOMAIN Extension) /\ Parent(p) \in Node
ASSUME ClockAssumption == MaxClock \in Nat

VARIABLES
    tree,          \* what the directory under ndnfs::root_path holds
    fileSystem,    \* table file_system, primary key path
    fileVersions,  \* the paths that table file_versions has rows of
    clock,         \* time(0), in seconds
    listing,       \* the server's sendDirMetaBrowserFriendly under way
    parted         \* auxiliary: names at which tree and tables may have parted

vars == <<tree, fileSystem, fileVersions, clock, listing, parted>>
tables == <<fileSystem, fileVersions>>

-----------------------------------------------------------------------------
(* Types *)

Absent     == [kind |-> "none"]
SymLink    == [kind |-> "link"]
Regular(f) == [kind |-> "reg", file |-> f]

\* st_mtime, and whether utimens rather than the kernel set it.
Directory(t, dated) == [kind |-> "dir", mtime |-> t, dated |-> dated]

Entry == {Absent, SymLink} \cup [kind : {"reg"}, file : Files]
             \cup [kind : {"dir"}, mtime : Nat, dated : BOOLEAN]

\* file is auxiliary: which file the row was inserted for.
SystemRow == [path : Path, mime_type : {MimeInfer(p) : p \in Path}, file : Files]

IdleListing == [pc |-> "idle"]

\* path is the name to lstat; at is the directory opened by that name, under
\* whatever name it has now, or nothing when it is removed.
Listing ==
    [pc : {"stat"}, path : Node, at : SUBSET Node]
    \cup [pc : {"read"}, at : SUBSET Node, version : Nat, asked : Nat]
    \cup [pc : {"reply"}, at : SUBSET Node, version : Nat, asked : Nat,
          names : SUBSET DOMAIN Extension]

TypeOK ==
    /\ tree \in [Node -> Entry]
    /\ tree[Root].kind = "dir"
    /\ fileSystem \subseteq SystemRow
    /\ fileVersions \subseteq Path
    /\ clock \in Nat
    /\ listing \in {IdleListing} \cup Listing
    /\ parted \subseteq Path

Init ==
    /\ tree = [q \in Node |-> IF q = Root THEN Directory(0, FALSE) ELSE Absent]
    /\ fileSystem = {} /\ fileVersions = {}
    /\ clock = 0
    /\ listing = IdleListing
    /\ parted = {}

-----------------------------------------------------------------------------
(* The tree below *)

IsDir(q)     == tree[q].kind = "dir"
IsAbsent(q)  == tree[q].kind = "none"
IsRegular(q) == tree[q].kind = "reg"

Children(d) == {q \in Path : Parent(q) = d /\ ~IsAbsent(q)}
Empty(d)    == \A q \in Below(d) : IsAbsent(q)

\* The kernel has looked the name up: there is none, in a directory there is.
Free(p) == IsAbsent(p) /\ IsDir(Parent(p))

\* The kernel dates the directories in which an entry changed.
Touch(t, ds) ==
    [q \in Node |-> IF q \in ds /\ t[q].kind = "dir" THEN Directory(clock, FALSE)
                    ELSE t[q]]

SetEntry(p, e) == tree' = Touch([tree EXCEPT ![p] = e], {Parent(p)})

\* Mutant: the last component of the old name is kept.
ImageOneMore(q, from, to) == to \o SubSeq(q, Len(from), Len(q))

\* The name of what was at q, below from or at it, after from became to.
Image(q, from, to) == to \o SubSeq(q, Len(from) + 1, Len(q))

\* rename(2): everything below a directory moves with it.
MovedTree(from, to) ==
    [q \in Node |->
        IF q = from \/ q \in Below(from) THEN Absent
        ELSE IF q = to THEN tree[from]
        ELSE IF q \in Below(to)
        THEN IF Image(q, to, from) \in Path THEN tree[Image(q, to, from)] ELSE Absent
        ELSE tree[q]]

SameFile(p, q) == IsRegular(p) /\ IsRegular(q) /\ tree[p].file = tree[q].file

-----------------------------------------------------------------------------
(* Tables *)

HasRow(p) == \E r \in fileSystem : r.path = p

\* Mutant: rename(2) alone.
UpdatePathKept(from, to) == fileSystem

\* UPDATE file_system SET path = to WHERE path = from, undone as a whole when
\* the target has a row; the result goes unnoticed.
UpdatePath(from, to) ==
    IF HasRow(from) /\ HasRow(to) THEN fileSystem
    ELSE {IF r.path = from THEN [r EXCEPT !.path = to] ELSE r : r \in fileSystem}

\* Mutant: file_versions is not updated.
UpdateVersionsKept(from, to) == {fileVersions}

\* The same on file_versions: undone when the two names share a version.
UpdateVersions(from, to) ==
    IF from \notin fileVersions THEN {fileVersions}
    ELSE {(fileVersions \ {from}) \cup {to}}
         \cup IF to \in fileVersions THEN {fileVersions} ELSE {}

\* Mutant: nothing is deleted.
DeleteNothing(p) == fileSystem

\* remove_file_entry, and the same statement once more in ndnfs_unlink.
RemoveFileEntry(p) == {r \in fileSystem : r.path # p}

-----------------------------------------------------------------------------
(* The listing follows the directory it has opened *)

Unmoved == UNCHANGED listing

\* A directory is gone from p.
Forget(p) ==
    listing' = IF listing = IdleListing THEN listing
               ELSE [listing EXCEPT !.at = @ \ {p}]

\* What was at or below from is now at or below to; what was at to is gone.
Follow(from, to) ==
    listing' =
        IF listing = IdleListing THEN listing
        ELSE [listing EXCEPT !.at =
                 {IF q = from \/ q \in Below(from) THEN Image(q, from, to) ELSE q :
                      q \in @ \ {to}}]

-----------------------------------------------------------------------------
(* Handlers on regular files and links *)

\* ndnfs_mknod of a regular file; with a row of that name it returns -ENOENT
\* and nothing happens.
Mknod(p, f) ==
    /\ Free(p) /\ ~HasRow(p)
    /\ \A q \in Node : tree[q] # Regular(f)
    /\ \A r \in fileSystem : r.file # f
    /\ fileVersions' = fileVersions \cup {p}
    /\ fileSystem' = fileSystem \cup
           {[path |-> p, mime_type |-> MimeInfer(p), file |-> f]}
    /\ SetEntry(p, Regular(f))
    /\ parted' = parted \ {p}
    /\ Unmoved /\ UNCHANGED clock

\* ndnfs_symlink and ndnfs_link tell no table.
Symlink(p) ==
    /\ Free(p)
    /\ SetEntry(p, SymLink)
    /\ Unmoved /\ UNCHANGED <<tables, clock, parted>>

Link(from, to) ==
    /\ tree[from].kind \in {"reg", "link"} /\ Free(to)
    /\ SetEntry(to, tree[from])
    /\ parted' = parted \cup (IF IsRegular(from) THEN {to} ELSE {})
    /\ Unmoved /\ UNCHANGED <<tables, clock>>

\* ndnfs_unlink: the versions stay.
Unlink(p) ==
    /\ tree[p].kind \in {"reg", "link"}
    /\ fileSystem' = RemoveFileEntry(p)
    /\ SetEntry(p, Absent)
    /\ parted' = parted \ {p}
    /\ Unmoved /\ UNCHANGED <<fileVersions, clock>>

-----------------------------------------------------------------------------
(* Handlers on directories *)

Mkdir(p) ==
    /\ Free(p)
    /\ SetEntry(p, Directory(clock, FALSE))
    /\ Unmoved /\ UNCHANGED <<tables, clock, parted>>

\* rmdir(2) refuses a directory that is not empty; the root is no member of Path.
Rmdir(p) ==
    /\ IsDir(p) /\ Empty(p)
    /\ SetEntry(p, Absent)
    /\ Forget(p)
    /\ UNCHANGED <<tables, clock, parted>>

\* ndnfs_utimens on a directory.
Utimens(d, t) ==
    /\ IsDir(d)
    /\ tree' = [tree EXCEPT ![d] = Directory(t, TRUE)]
    /\ Unmoved /\ UNCHANGED <<tables, clock, parted>>

-----------------------------------------------------------------------------
(* ndnfs_rename: the rows of one path, then everything below it *)

\* What the kernel sees to before it calls the file system.
Renamable(from, to) ==
    /\ from # to /\ ~IsAbsent(from) /\ IsDir(Parent(to))
    /\ to \notin Below(from) /\ from \notin Below(to)
    /\ ~IsAbsent(to) => (IsDir(from) <=> IsDir(to))

\* The names that tree and tables may part at: those of a row that stays behind
\* or is taken for another file's, those that have parted before, and those of
\* files in a directory, of which the tables are not told.
Parts(from, to) ==
    (IF HasRow(to) \/ SameFile(from, to) \/ {from, to} \cap parted # {}
     THEN {from, to} ELSE {})
    \cup {q \in Below(from) : IsRegular(q)}
    \cup {q \in Below(to) : Image(q, to, from) \in Path
                            /\ IsRegular(Image(q, to, from))}

RenameRows(from, to) ==
    /\ fileSystem' = UpdatePath(from, to)
    /\ fileVersions' \in UpdateVersions(from, to)

\* Bound: the new names of what moves are in Path.
Rename(from, to) ==
    /\ Renamable(from, to) /\ Empty(to) /\ ~SameFile(from, to)
    /\ \A q \in Below(from) : IsAbsent(q) \/ Image(q, from, to) \in Path
    /\ RenameRows(from, to)
    /\ tree' = Touch(MovedTree(from, to), {Parent(from), Parent(to)})
    /\ Follow(from, to)
    /\ parted' = parted \cup Parts(from, to)
    /\ UNCHANGED clock

\* rename(2) refuses a directory that is not empty, and does nothing for two
\* names of one file; the rows have moved by then.
RenameRowsOnly(from, to) ==
    /\ Renamable(from, to)
    /\ (IsDir(to) /\ ~Empty(to)) \/ SameFile(from, to)
    /\ RenameRows(from, to)
    /\ parted' = parted \cup
           IF HasRow(to) \/ SameFile(from, to) \/ {from, to} \cap parted # {}
           THEN {from, to} ELSE {}
    /\ Unmoved /\ UNCHANGED <<tree, clock>>

-----------------------------------------------------------------------------
(* The server's listing, through the mount *)

\* onInterestCallback finds no row of the name and opendir a directory.  With
\* the ending "_list" the row looked for is that of another name.
OpenDir(p, ending) ==
    /\ listing = IdleListing
    /\ ending \/ ~HasRow(p)
    /\ IsDir(p)
    /\ listing' = [pc |-> "stat", path |-> p, at |-> {p}]
    /\ UNCHANGED <<tree, tables, clock, parted>>

NamesIn(ds) == {Name(q) : q \in UNION {Children(d) : d \in ds}}

\* Mutant: the directory is read before its date.
StatAfterRead ==
    \/ /\ listing.pc = "stat"
       /\ listing' = [pc |-> "read", path |-> listing.path, at |-> listing.at,
                      names |-> NamesIn(listing.at)]
    \/ /\ listing.pc = "read"
       /\ \E v \in 0..MaxClock :
              /\ IsDir(listing.path) => v = tree[listing.path].mtime
              /\ listing' = [pc |-> "reply", at |-> listing.at, version |-> v,
                             asked |-> clock, names |-> listing.names]

\* lstat of the name, whatever has it by now; when it fails st is not
\* initialised, and of what is no directory the date is not modelled.
StatDir(v) ==
    /\ listing.pc = "stat"
    /\ IsDir(listing.path) => v = tree[listing.path].mtime
    /\ listing' = [pc |-> "read", at |-> listing.at, version |-> v, asked |-> clock]

\* The readdir loop: ndnfs_readdir reads the whole directory in one call.
ReadDir ==
    /\ listing.pc = "read"
    /\ listing' = [pc |-> "reply", at |-> listing.at, version |-> listing.version,
                   asked |-> listing.asked, names |-> NamesIn(listing.at)]

StatThenRead == (\E v \in 0..MaxClock : StatDir(v)) \/ ReadDir

ListDir == StatThenRead /\ UNCHANGED <<tree, tables, clock, parted>>

\* The names, sorted, under the directory's name and the version.
ReplyDir ==
    /\ listing.pc = "reply"
    /\ listing' = IdleListing
    /\ UNCHANGED <<tree, tables, clock, parted>>

Tick ==
    /\ clock < MaxClock
    /\ clock' = clock + 1
    /\ UNCHANGED <<tree, tables, listing, parted>>

-----------------------------------------------------------------------------
Next ==
    \/ \E p \in Path :
           \/ \E f \in Files : Mknod(p, f)
           \/ Symlink(p) \/ Unlink(p) \/ Mkdir(p) \/ Rmdir(p)
    \/ \E p, q \in Path : Link(p, q) \/ Rename(p, q) \/ RenameRowsOnly(p, q)
    \/ \E d \in Node, t \in 0..MaxClock : Utimens(d, t)
    \/ \E d \in Node, ending \in BOOLEAN : OpenDir(d, ending)
    \/ ListDir \/ ReplyDir \/ Tick

Spec == Init /\ [][Next]_vars

-----------------------------------------------------------------------------
(* Properties *)

\* Every regular file whose name has met no link, no move of its directory and
\* no rename onto a row can be found by name: there is a row, made for this very
\* file (ndnfs_mknod, ndnfs_rename).
FilesHaveRows ==
    \A p \in Path \ parted : IsRegular(p) =>
        \E r \in fileSystem : r.path = p /\ r.file = tree[p].file

\* A row stands for the file it was made for, under the name that file has now;
\* directories and links have none.  A stale one would make ndnfs_mknod refuse
\* the name, hide a directory from onInterestCallback and serve a link.
RowsHaveFiles ==
    \A r \in fileSystem : r.path \notin parted => tree[r.path] = Regular(r.file)

\* A file that can be found has versions under the same name, although the
\* UPDATEs of ndnfs_rename are refused one without the other.
HistoryWithRow ==
    \A r \in fileSystem : r.path \notin parted => r.path \in fileVersions

\* The type a file is created with is the first one listed for what follows the
\* last dot of its own name, dots in the names of directories notwithstanding
\* (mime_infer), and it stays with the file when it is renamed.
FirstListed(ext) ==
    LET listed == {i \in 1..Len(ExtMimePairs) : ExtMimePairs[i][1] = <<ext>>}
    IN  IF listed = {} THEN ""
        ELSE ExtMimePairs[CHOOSE i \in listed : \A j \in listed : i <= j][2]

MimeAsListed ==
    [][\A r \in fileSystem' :
           \/ \E s \in fileSystem : s.file = r.file /\ s.mime_type = r.mime_type
           \/ /\ \A s \in fileSystem : s.file # r.file
              /\ r.mime_type = FirstListed(Extension[Name(r.path)])]_vars

\* The version of a listing is a version: while the directory still has the date
\* the listing was given, and that second was over when it was taken, the names
\* in it are those in the directory (lstat comes before readdir).
ListingVersioned ==
    listing.pc = "reply" =>
        \A d \in listing.at :
            (/\ tree[d].mtime = listing.version /\ ~tree[d].dated
             /\ listing.version < listing.asked)
            => listing.names = NamesIn({d})
=============================================================================
