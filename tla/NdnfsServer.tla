---------------------------- MODULE NdnfsServer ----------------------------
(***************************************************************************)
(* ndnfs-server (server/servermodule.cc) beside the file-system process.   *)
(* One io_service thread answers one interest at a time.  It reads the     *)
(* database directly and the content through the mount, so that each of its*)
(* stat, open and pread calls is a request to the handlers of Ndnfs.       *)
(*                                                                         *)
(* A callback is cut at each statement, whose SHARED lock lasts from       *)
(* sqlite3_step to sqlite3_finalize, and at each call through the mount.   *)
(* parseName is module ParseName: the interests here are what it returns.  *)
(***************************************************************************)
EXTENDS Ndnfs, Integers

CONSTANTS
    Garbage,    \* a signature read from memory that was freed
    MaxTotal    \* bound, both ways, on what an uninitialised st_size makes of total_seg

ASSUME ServerAssumption   == "busy" \in Faults
ASSUME MaxTotalAssumption == MaxTotal \in Nat

VARIABLES
    serve,      \* the callback of the io_service thread
    mounted,    \* the file-system process is up: not between its death and its restart
    touched     \* auxiliary: the name's rows or file changed during the callback

serverVars == <<serve, mounted, touched>>
allVars == <<vars, serverVars>>

-----------------------------------------------------------------------------

Finalizing == {"finalize_row", "finalize_segment", "finalize_version"}
ServePC == Finalizing \cup {"select_segment", "select_version", "stat", "open",
                            "read", "reply"}

NoServe == [pc |-> "idle"]
Serve == [pc : ServePC, kind : {"content", "info"}, path : Path,
          node : Path,          \* the name the open descriptor stands for now
          ver : Nat, seg : Nat,
          sig : Signature \cup {Garbage},
          total : Int,          \* total_seg
          sized : BOOLEAN,      \* auxiliary: total_seg comes from a stat that succeeded
          data : Content]

NoSignature(p) == [path |-> p, content |-> <<>>]

Request(pc, kind, p, v, n, sig) ==
    [pc |-> pc, kind |-> kind, path |-> p, node |-> p, ver |-> v, seg |-> n,
     sig |-> sig, total |-> 0, sized |-> FALSE, data |-> <<>>]

ServerTypeOK ==
    /\ serve \in {NoServe} \cup Serve
    /\ mounted \in BOOLEAN
    /\ touched \in BOOLEAN

ServerInit == Init /\ serve = NoServe /\ mounted = TRUE /\ touched = FALSE

Doing(pc) == serve.pc = pc
Done      == serve' = NoServe /\ touched' = FALSE /\ UNCHANGED mounted

\* A callback begins.
Starts(request) == serve' = request /\ touched' = FALSE /\ UNCHANGED mounted

\* The callback's locals.
Locals(pc, node, sig, total, sized, data) ==
    serve' = [pc |-> pc, kind |-> serve.kind, path |-> serve.path, node |-> node,
              ver |-> serve.ver, seg |-> serve.seg,
              sig |-> sig, total |-> total, sized |-> sized, data |-> data]

\* The callback goes on at pc, with these values of its locals.
Proceed(pc, sig, total, sized, data) ==
    /\ Locals(pc, serve.node, sig, total, sized, data)
    /\ UNCHANGED <<mounted, touched>>

Proceeds(pc) == Proceed(pc, serve.sig, serve.total, serve.sized, serve.data)

\* sqlite3_step returned a row: the SHARED lock is held.  sqlite3_finalize drops it.
Lock   == ~readLock /\ readLock' = TRUE
Unlock == readLock' = FALSE

\* Everything of the file-system process but the lock.
fsVars == <<tables, disk, call, writers, clock, history>>

-----------------------------------------------------------------------------
(* onInterestCallback *)

\* parseName returned 3: straight to sendFileContent, whose SELECT finds this row.
\* Without a row there is no answer and nothing changes.
OnSegmentInterest(s) ==
    /\ Doing("idle") /\ Lock
    /\ Starts(Request("finalize_segment", "content", s.path, s.version, s.segment,
                      s.signature))
    /\ UNCHANGED fsVars

\* Mutant: a blank segment is looked for as the -1 it is.
BlankSegment == -1

\* A blank segment stands for the first piece of matching name.
FirstSegment == 0

\* parseName returned 2: the SELECT in file_system finds the name.
OnVersionInterest(r, v) ==
    /\ Doing("idle") /\ Lock
    /\ Starts(Request("finalize_row", "content", r.path, v, FirstSegment,
                      NoSignature(r.path)))
    /\ UNCHANGED fsVars

\* parseName returned 1, and the name has a row: its current version, whatever version
\* the interest named.
OnInfoInterest(r) ==
    /\ Doing("idle") /\ Lock
    /\ Starts(Request("finalize_row", "info", r.path, r.current_version, 0,
                      NoSignature(r.path)))
    /\ UNCHANGED fsVars

\* Mutant: the statement is not finalized.
FinalizeRowForgotten ==
    /\ Doing("finalize_row")
    /\ Proceeds(IF serve.kind = "content" THEN "select_segment" ELSE "select_version")
    /\ UNCHANGED <<fsVars, readLock>>

FinalizeRow ==
    /\ Doing("finalize_row") /\ Unlock
    /\ Proceeds(IF serve.kind = "content" THEN "select_segment" ELSE "select_version")
    /\ UNCHANGED fsVars

\* The SELECT meets a handler's statement: SQLITE_BUSY is taken for "no such row".
SelectFails ==
    /\ serve.pc \in {"select_segment", "select_version"}
    /\ Done
    /\ UNCHANGED <<fsVars, readLock>>

-----------------------------------------------------------------------------
(* Calls through the mount *)

\* A call takes an idle FUSE thread and waits for the name.  Nothing waits while the
\* file-system process is dead.
Returns(p) == mounted => (\E t \in Threads : Idle(t)) /\ ~NameLocked(p)

\* The call comes back with an error, whatever the file: the process is dead, or its
\* handler met an I/O error.
MayFail == ~mounted \/ "io" \in Faults

-----------------------------------------------------------------------------
(* readFileSize *)

\* Mutant: one segment too many.
TotalOneMore(d) == LastSegment(d) + 2

TotalSegments(d) == LastSegment(d) + 1

\* Its caller goes on with this total_seg.
Measured(total, sized) ==
    Proceed(IF serve.kind = "content" THEN "open" ELSE "reply",
            serve.sig, total, sized, serve.data)

\* stat, unchecked: when it fails st_size is whatever the memory held, an int of either
\* sign.  Nor is it the size of a file of this name when the name is a link.
Stat ==
    /\ Doing("stat") /\ Returns(serve.path)
    /\ \/ /\ mounted /\ disk[serve.path].kind = "reg"
          /\ Measured(TotalSegments(disk[serve.path].data), TRUE)
       \/ /\ MayFail \/ disk[serve.path].kind # "reg"
          /\ \E n \in -MaxTotal .. MaxTotal : Measured(n, FALSE)
    /\ UNCHANGED <<fsVars, readLock>>

-----------------------------------------------------------------------------
(* sendFileContent *)

\* Mutant: the segment is not bound.
SelectAnySegment(s) ==
    /\ Doing("select_segment") /\ Lock
    /\ s.path = serve.path /\ s.version = serve.ver
    /\ Proceed("finalize_segment", s.signature, serve.total, serve.sized, serve.data)
    /\ UNCHANGED fsVars

SelectSegment(s) ==
    /\ Doing("select_segment") /\ Lock
    /\ s.path = serve.path /\ s.version = serve.ver /\ s.segment = serve.seg
    /\ Proceed("finalize_segment", s.signature, serve.total, serve.sized, serve.data)
    /\ UNCHANGED fsVars

\* The blob is copied after the statement that owns it is finalized: what it held,
\* or what the memory holds by then.
FinalizeSegment ==
    /\ Doing("finalize_segment") /\ Unlock
    /\ \E sig \in {serve.sig, Garbage} :
          Proceed("stat", sig, serve.total, serve.sized, serve.data)
    /\ UNCHANGED fsVars

\* open: ndnfs_open wants the file and its row.
Open ==
    LET found == disk[serve.path].kind = "reg" /\ HasRow(serve.path) IN
    /\ Doing("open") /\ Returns(serve.path)
    /\ \/ mounted /\ found /\ Proceeds("read")
       \/ (MayFail \/ ~found) /\ Done
    /\ UNCHANGED <<fsVars, readLock>>

ReadSegment == Segment(disk[serve.node].data, serve.seg)

\* pread on the descriptor: ndnfs_read wants the row of the name the file has by now.
Read ==
    /\ Doing("read") /\ Returns(serve.node)
    /\ \/ /\ mounted /\ HasRow(serve.node)
          /\ Proceed("reply", serve.sig, serve.total, serve.sized, ReadSegment)
       \/ (MayFail \/ ~HasRow(serve.node)) /\ Done
    /\ UNCHANGED <<fsVars, readLock>>

\* The packet is put on the face, unless the segment read is empty; then return.
Reply ==
    /\ Doing("reply") /\ Done
    /\ UNCHANGED <<fsVars, readLock>>

-----------------------------------------------------------------------------
(* sendFileMeta *)

SelectVersion ==
    /\ Doing("select_version")
    /\ IF HasVersion(serve.path, serve.ver)
       THEN Lock /\ Proceeds("finalize_version")
       ELSE Done /\ UNCHANGED readLock
    /\ UNCHANGED fsVars

FinalizeVersion ==
    /\ Doing("finalize_version") /\ Unlock
    /\ Proceeds("stat")
    /\ UNCHANGED fsVars

-----------------------------------------------------------------------------
(* The file-system process meanwhile *)

\* What the tables and the tree hold of a name.
View(p) == <<{r \in fileSystem : r.path = p}, {v \in fileVersions : v.path = p},
             {s \in fileSegments : s.path = p}, disk[p]>>

\* While the server has a file open, libfuse turns an unlink of it and a rename onto
\* it into a rename to a hidden name.
DescriptorKept ==
    Doing("read") =>
        \A t \in Threads :
            /\ call'[t].pc \in UnlinkPC => call'[t].path # serve.node
            /\ call'[t].pc \in RenamePC => call'[t].to # serve.node

\* An open descriptor follows a rename of its file.
Follow(t) ==
    IF /\ Doing("read") /\ At(t, "rename_file") /\ call[t].path = serve.node
       /\ disk' # disk
    THEN Locals("read", call[t].to, serve.sig, serve.total, serve.sized, serve.data)
    ELSE UNCHANGED serve

\* ndnfs is killed, and the calls through its mount fail from then on.  A descriptor
\* that was open does not survive, restarted or not: pread fails, which ends the callback.
Death ==
    /\ mounted /\ Crash /\ mounted' = FALSE
    /\ IF Doing("read") THEN serve' = NoServe ELSE UNCHANGED serve

\* main starts it again; the handlers that died with it were dropped at its death.
Restart ==
    /\ ~mounted /\ mounted' = TRUE
    /\ UNCHANGED <<vars, serve>>

Touch ==
    touched' = (serve'.pc # "idle" /\
                (touched \/ \E p \in {serve.path} : View(p)' # View(p)))

FileSystemStep ==
    /\ \/ Tick /\ UNCHANGED <<serve, mounted>>
       \/ Death
       \/ Restart
       \/ /\ mounted /\ UNCHANGED mounted
          /\ \E t \in Threads : (Continue(t) \/ Accept(t)) /\ DescriptorKept /\ Follow(t)
    /\ Touch

OnInterest ==
    \/ \E s \in fileSegments : OnSegmentInterest(s)
    \/ \E r \in fileSystem, v \in 0..MaxClock : OnVersionInterest(r, v)
    \/ \E r \in fileSystem : OnInfoInterest(r)

\* The next step of the callback the io_service thread is in.
Callback ==
    \/ FinalizeRow
    \/ \E s \in fileSegments : SelectSegment(s)
    \/ SelectVersion \/ SelectFails
    \/ FinalizeSegment \/ FinalizeVersion
    \/ Stat \/ Open \/ Read \/ Reply

ServerStep == OnInterest \/ Callback

ServerNext == FileSystemStep \/ ServerStep

ServerSpec == ServerInit /\ [][ServerNext]_allVars

\* Both processes are scheduled.  The callback's calls through the mount wait in the
\* queue of the FUSE device, which the worker threads read in order: a call that could
\* be taken again and again is taken.
FairServerSpec ==
    /\ ServerSpec
    /\ \A t \in Threads : WF_call(Continue(t))
    /\ SF_serve(Callback)

-----------------------------------------------------------------------------
(* Properties *)

\* No way out of a callback leaves the database locked: the writer's statements fail
\* for as long as it is (the sqlite3_finalize before each return).
LockReleased == readLock => serve.pc \in Finalizing

\* The version being served is the current one, signed to the end, and nothing of the
\* name changed since the callback began.
Settled ==
    LET p == serve.path IN
    /\ Doing("reply") /\ ~touched
    /\ disk[p].kind = "reg" /\ ~dirty[p] /\ ~Releasing(p)
    /\ \E r \in fileSystem : r.path = p /\ r.current_version = serve.ver

\* A segment of a settled version goes out under a signature over its own name and
\* bytes, although signature, size and bytes are read at four moments from two stores
\* (sendFileContent); a blob overwritten after sqlite3_finalize is the exception.
ContentGenuine ==
    Settled /\ serve.kind = "content" /\ serve.data # <<>> /\ serve.sig # Garbage =>
        serve.sig = [path |-> serve.path, content |-> serve.data]

\* Once stat has told the file's size, FinalBlockId and totalseg announce as many
\* segments as the file fills, one at least, and all of them were signed: readFileSize
\* agrees with the loop of ndnfs_release.  A stat that failed lets the answer announce
\* anything; that is the exception.
AnnouncedSegmentsSigned ==
    Settled /\ serve.sized =>
        /\ serve.total > 0
        /\ Len(disk[serve.path].data) <= serve.total * SegSize
        /\ \A n \in 0..(serve.total - 1) :
              \E s \in fileSegments : /\ s.path = serve.path /\ s.version = serve.ver
                                      /\ s.segment = n

\* Every callback returns: a call through the mount waits for a FUSE thread, which may
\* be signing, and for the name, and the database is never held while it waits; a dead mount fails it.
CallbackEnds == ~Doing("idle") ~> Doing("idle")

\* The comment on parseName: an interest for a segment of a version brings the actual
\* content of the file, assembled with its signature.  So it should for an older version,
\* while the file is as its last release left it and nothing changes during the callback.
VersionContentServed ==
    LET p     == serve.path
        older == \E r \in fileSystem : r.path = p /\ serve.ver < r.current_version
        still == ~touched /\ disk[p].kind = "reg" /\ ~dirty[p] /\ ~Releasing(p)
    IN
    Doing("reply") /\ serve.kind = "content" /\ older /\ still
    /\ serve.data # <<>> /\ serve.sig # Garbage
        => serve.sig.content = serve.data

\* The comment on sendFileContent: when the entry exists in file_segments it returns
\* the assembled data packet.
SignedSegmentAnswered ==
    Settled /\ serve.kind = "content" => serve.data # <<>>

=============================================================================
