------------------------------- MODULE Fetch -------------------------------
(***************************************************************************)
(* The programs that fetch a file: the test client (test/client.cc,        *)
(* test/handler.cc), test/cat_file.cc and test/cat_file_pipe.cc, over a    *)
(* face that loses and delays.  Each asks for the file's information, then *)
(* for its segments: the client and cat_file one after the other,          *)
(* cat_file_pipe with a window of interests.                               *)
(*                                                                         *)
(* The server is here what its answers can be.  It pairs the version asked *)
(* for with the file of whatever moment it, or a cache, answered at (module*)
(* NdnfsServer), so that a segment of a version may come from any later    *)
(* edition of the file.                                                    *)
(***************************************************************************)
EXTENDS Integers, Sequences, FiniteSets

CONSTANTS
    MaxFull,      \* bound on the full segments of a file
    MaxEditions,  \* bound on the editions of the file
    PipeSize      \* interest_pipe_size (8 in the code)

ASSUME FetchAssumption ==
    MaxFull \in Nat /\ MaxEditions \in Nat \ {0} /\ PipeSize \in Nat \ {0}

VARIABLES
    target,     \* what the name asked for is: the file or a directory above it
    editions,   \* the file's sizes, one for each release; its index is the version
    program,    \* which of the programs runs
    pending,    \* interests the face waits for
    current,    \* currentSegment_, current_seg
    total,      \* totalSegment_, total_seg
    done,       \* done_, done
    exited,     \* main has returned
    asked,      \* auxiliary: the segments asked for, in order
    got,        \* auxiliary: the segments received, in order; what client.cc saved
    lost        \* auxiliary: an interest with an answer timed out

server == <<target, editions>>
vars   == <<server, program, pending, current, total, done, exited, asked, got, lost>>

-----------------------------------------------------------------------------

Sequential == {"fetch", "cat_file"}
Programs   == Sequential \cup {"show", "cat_file_pipe"}

\* A file of some full segments and, if tail is 1, one that is not full nor empty.
Size == [full : 0..MaxFull, tail : {0, 1}]

Blocks(s)   == s.full + s.tail     \* segments that are not empty
TotalSeg(s) == s.full + 1          \* readFileSize

\* "attr": the name alone; "info": with the file marker; "below": with the marker of
\* a directory's listing.
Attr   == [kind |-> "attr"]
InfoOf == [kind |-> "info"]
Below  == [kind |-> "below"]
SegmentOf(v, n) == [kind |-> "segment", ver |-> v, seg |-> n]

Interest == {Attr, InfoOf, Below} \cup [kind : {"segment"}, ver : Nat \ {0}, seg : Nat]

Editions == 1..Len(editions)

\* The information of version v, with the size of then or of an edition since;
\* a size the server could not read is left out.
InfoData == {[kind |-> "info", ver |-> p[1], total |-> TotalSeg(editions[p[2]])] :
                p \in {q \in Editions \X Editions : q[1] <= q[2]}}

\* The segment of a version: it was signed when the version was released, and is
\* there and not empty in the edition it is read from.
SegmentData(v, n) ==
    {[kind |-> "segment", seg |-> n, edition |-> e] :
        e \in {f \in Editions : /\ v <= f /\ n <= editions[v].full
                                /\ n < Blocks(editions[f])}}

\* What a cache may hold below a name besides: a segment of the file asked for
\* ("stray") or of a file below the directory ("deeper"), a segment that was asked for
\* with the marker in its name ("odd").
Odd    == [kind |-> "odd"]
Stray  == [kind |-> "stray"]
Deeper == [kind |-> "deeper"]
Dir    == [kind |-> "dir"]

\* The data whose name starts with the interest's; none when no one has an answer.  The
\* name of a directory is also a prefix of what is known of the files below it, and
\* with the file marker it is a prefix of nothing.
Answers(i) ==
    CASE i.kind = "segment" -> SegmentData(i.ver, i.seg)
      [] i.kind = "attr"    -> InfoData \cup {Odd} \cup
                               (IF target = "file" THEN {Stray} ELSE {Dir, Deeper})
      [] i.kind = "info"    -> IF target = "file" THEN InfoData \cup {Odd} ELSE {}
      [] i.kind = "below"   -> IF target = "file" THEN {} ELSE {Dir}

TypeOK ==
    /\ target \in {"file", "dir"}
    /\ editions \in Seq(Size) /\ Len(editions) \in 1..MaxEditions
    /\ program \in Programs
    /\ pending \subseteq Interest
    /\ current \in Nat /\ total \in Nat
    /\ done \in BOOLEAN /\ exited \in BOOLEAN /\ lost \in BOOLEAN
    /\ asked \in Seq(Nat)
    /\ got \in Seq([seg : Nat, edition : 1..MaxEditions])

Init ==
    /\ target \in {"file", "dir"}
    /\ \E s \in Size : editions = <<s>>
    /\ program \in Programs
    /\ pending = {IF program \in {"show", "fetch"} THEN Attr ELSE InfoOf}
    /\ current = 0 /\ total = 0
    /\ done = FALSE /\ exited = FALSE /\ lost = FALSE
    /\ asked = <<>> /\ got = <<>>

-----------------------------------------------------------------------------
(* The face calls back from processEvents: one of onData and onTimeout for an *)
(* interest, once.  A call to processEvents may still make callbacks after    *)
(* one of them set done.                                                      *)

Running == ~exited

\* The interest is answered and these are expressed.
Express(i, interests) == pending' = (pending \ {i}) \cup interests

Asks(segments) == asked' = asked \o segments

-----------------------------------------------------------------------------
(* Handler::onAttrData *)

\* A directory, or a name with a marker in the wrong place.
AttrUseless(i, d) ==
    /\ d.kind \in {"dir", "odd"}
    /\ Express(i, {}) /\ Asks(<<>>)
    /\ done' = TRUE
    /\ UNCHANGED total

\* What the file is, or for a directory some file below it; a fetch asks for its first
\* segment.
AttrFile(i, d) ==
    /\ d.kind = "info"
    /\ total' = d.total
    /\ IF program = "fetch"
       THEN Express(i, {SegmentOf(d.ver, 0)}) /\ Asks(<<0>>)
       ELSE Express(i, {}) /\ Asks(<<>>)
    /\ done' = TRUE

\* Some other data below the name: asks again, with a marker guessed by its length.
AttrAgain(i, d) ==
    /\ d.kind \in {"stray", "deeper"}
    /\ Express(i, {IF d.kind = "deeper" THEN Below ELSE InfoOf}) /\ Asks(<<>>)
    /\ UNCHANGED <<total, done>>

OnAttrData(i, d) ==
    /\ program \in {"show", "fetch"} /\ i.kind # "segment"
    /\ AttrUseless(i, d) \/ AttrFile(i, d) \/ AttrAgain(i, d)
    /\ UNCHANGED <<current, got>>

-----------------------------------------------------------------------------
(* onMetaData of cat_file and cat_file_pipe *)

\* Mutant: the loop runs once too often.
AheadOneMore == IF program = "cat_file_pipe" THEN PipeSize + 1 ELSE 1

\* How many segments are asked for at once.
Ahead == IF program = "cat_file_pipe" THEN PipeSize ELSE 1

\* Mutant: current_seg is not moved past the window.
OnMetaDataStill(i, d) ==
    /\ program \in {"cat_file", "cat_file_pipe"} /\ i.kind # "segment"
    /\ IF d.kind = "info"
       THEN /\ total' = d.total
            /\ Express(i, {SegmentOf(d.ver, current + n) : n \in 0..(Ahead - 1)})
            /\ Asks([n \in 1..Ahead |-> current + n - 1])
       ELSE Express(i, {}) /\ Asks(<<>>) /\ UNCHANGED total
    /\ UNCHANGED <<current, done, got>>

\* For a directory or an unknown marker nothing more is asked and done stays FALSE.
\* (cat_file_pipe does not unescape the marker in its interest; it is answered here
\* as if it did, and the time-out is there as well.)
OnMetaData(i, d) ==
    /\ program \in {"cat_file", "cat_file_pipe"} /\ i.kind # "segment"
    /\ IF d.kind = "info"
       THEN /\ total' = d.total
            /\ Express(i, {SegmentOf(d.ver, current + n) : n \in 0..(Ahead - 1)})
            /\ Asks([n \in 1..Ahead |-> current + n - 1])
            /\ current' = IF program = "cat_file_pipe" THEN current + Ahead ELSE current
       ELSE /\ Express(i, {}) /\ Asks(<<>>)
            /\ UNCHANGED <<total, current>>
    /\ UNCHANGED <<done, got>>

-----------------------------------------------------------------------------
(* onFileData *)

\* Mutants: the next segment is not advanced, or the wrong way; a comparison off by one.
SameSegment(d)     == d.seg
PreviousSegment(d) == d.seg - 1
LastButOne(n)      == n + 1 = total

NextSegment(d) == d.seg + 1

Complete(n) == n = total

Receive(d) == got' = Append(got, [seg |-> d.seg, edition |-> d.edition])

\* The client and cat_file: the segment is appended to the local file, and the one
\* after it is asked for until their number is the total announced.
OnFileData(i, d) ==
    /\ program \in Sequential /\ i.kind = "segment"
    /\ Receive(d)
    /\ current' = NextSegment(d)
    /\ IF Complete(current')
       THEN /\ Express(i, {}) /\ Asks(<<>>)
            /\ done' = (done \/ program = "cat_file")
       ELSE /\ Express(i, {SegmentOf(i.ver, current')}) /\ Asks(<<current'>>)
            /\ UNCHANGED done
    /\ UNCHANGED total

\* cat_file_pipe: done with the last segment, whatever is still pending; another one
\* asks for the segment after the one current_seg stands at.
OnFileDataPipe(i, d) ==
    /\ program = "cat_file_pipe" /\ i.kind = "segment"
    /\ Receive(d)
    /\ current' = current + 1
    /\ IF Complete(d.seg + 1)
       THEN Express(i, {}) /\ Asks(<<>>) /\ done' = TRUE
       ELSE Express(i, {SegmentOf(i.ver, current')}) /\ Asks(<<current'>>) /\ UNCHANGED done
    /\ UNCHANGED total

Deliver(i, d) ==
    /\ Running
    /\ OnAttrData(i, d) \/ OnMetaData(i, d) \/ OnFileData(i, d) \/ OnFileDataPipe(i, d)
    /\ UNCHANGED <<server, program, exited, lost>>

\* Mutant: the interest is expressed again.
OnTimeoutRetry(i) ==
    /\ Express(i, {i})
    /\ lost' = (lost \/ Answers(i) # {})
    /\ UNCHANGED done

\* No retry: the fetch is over.
OnTimeout(i) ==
    /\ Express(i, {})
    /\ lost' = (lost \/ Answers(i) # {})
    /\ done' = TRUE

Timeout(i) ==
    /\ Running
    /\ OnTimeout(i)
    /\ UNCHANGED <<server, program, current, total, exited, asked, got>>

\* The loop of main in cat_file and cat_file_pipe.  The client's never ends.
Exit ==
    /\ Running /\ done /\ program \in {"cat_file", "cat_file_pipe"}
    /\ exited' = TRUE
    /\ UNCHANGED <<server, program, pending, current, total, done, asked, got, lost>>

\* The file is written and released again.
Publish(s) ==
    /\ Len(editions) < MaxEditions
    /\ editions' = Append(editions, s)
    /\ UNCHANGED <<target, program, pending, current, total, done, exited, asked, got,
                   lost>>

Next ==
    \/ \E i \in pending : (\E d \in Answers(i) : Deliver(i, d)) \/ Timeout(i)
    \/ Exit
    \/ \E s \in Size : Publish(s)

Spec == Init /\ [][Next]_vars

\* The loop of main keeps calling processEvents, which calls back for an interest
\* when its lifetime is over at the latest.
CallBack == \E i \in pending : (\E d \in Answers(i) : Deliver(i, d)) \/ Timeout(i)
FairSpec == Spec /\ WF_vars(CallBack) /\ WF_vars(Exit)

-----------------------------------------------------------------------------
(* Properties *)

\* The client appends what arrives and never seeks: its local file is in order and
\* without holes only because one interest is out at a time (Handler::onFileData).
SavedInOrder ==
    program \in Sequential =>
        /\ \A k \in 1..Len(got) : got[k].seg = k - 1
        /\ \A i, j \in pending : i = j

\* A fetch that ran out of interests, lost none that had an answer and met no new
\* edition has received every byte of the file, and nothing beyond, although a file
\* whose length is a multiple of seg_size ends in a time-out (totalSegment_).
WholeFileReceived ==
    program \in Sequential /\ total # 0 /\ pending = {} /\ ~lost /\ Len(editions) = 1
        => Len(got) = Blocks(editions[1])

\* cat_file_pipe keeps its window, in whatever order segments arrive and interests
\* time out, and asks for no segment twice (current_seg).
WindowKept ==
    program = "cat_file_pipe" =>
        /\ Cardinality(pending) <= PipeSize
        /\ \A j, k \in 1..Len(asked) : asked[j] = asked[k] => j = k

\* The segments of the file for each edition, and the end of a transfer: the program has
\* left its loop or there is nothing it waits for.
T == INSTANCE Transfer
     WITH blocks  <- [e \in Editions |-> Blocks(editions[e])],
          ordered <- program \in Sequential,
          saved   <- got,
          over    <- exited \/ pending = {}

\* Interests, answers in any order, time-outs, a window and a loop that may go on after
\* the last segment make a transfer as module Transfer says: no segment received twice,
\* none of them made up, nothing after the end (the callbacks of the three programs).
ImplementsTransfer == T!Spec

\* Every program stops asking: a time-out is not retried, and there is a last segment.
FetchEnds == <>[](exited \/ pending = {})

=============================================================================
