----------------------------- MODULE NdnfsStore -----------------------------
(***************************************************************************)
(* Ndnfs implements Store.  A handler of many statements takes effect at   *)
(* one of them: mknod, unlink and rename at their first, release when its  *)
(* version becomes current.  From then on until it returns the name is     *)
(* seen as the handler will leave it.                                      *)
(***************************************************************************)
EXTENDS Ndnfs

Making(p)    == {t \in Threads : call[t].pc \in MknodPC /\ call[t].path = p}
Recording(p) == {t \in Threads : call[t].pc = "release_version" /\ call[t].path = p}
Renaming(p, q) ==
    \E t \in Threads : call[t].pc \in RenamePC /\ call[t].path = p /\ call[t].to = q

\* The names whose rows are p's: while a rename moves them they lie under both.
Owned(p) == {q \in Path : \/ q = p /\ ~\E r \in Path : Renaming(p, r)
                          \/ Renaming(q, p)}

\* Where the file of p lies: not there yet, or no longer, or still under the old name.
Places(p) == {q \in Path : IF NameLocked(p) THEN Renaming(q, p) ELSE q = p}

Rows(table, p) == {r \in table : r.path \in Owned(p)}

Entry(p) ==
    ({disk[q] : q \in Places(p)} \ {Absent}) \cup {Regular(<<>>) : t \in Making(p)}

Current(p) ==
    {r.current_version : r \in Rows(fileSystem, p)} \cup {call[t].ver : t \in Making(p)}

Versions(p) ==
    {v.version : v \in Rows(fileVersions, p)}
        \cup {call[t].ver : t \in Making(p) \cup Recording(p)}

Stored(p) ==
    {[version |-> s.version, segment |-> s.segment, signature |-> s.signature] :
        s \in Rows(fileSegments, p)}

Signatures(p, v, d) ==
    {[version |-> v, segment |-> n,
      signature |-> [path |-> p, content |-> Segment(d, n)]] : n \in 0..LastSegment(d)}

\* What the current version needs and has; a release that has begun will store the rest.
Complete(p) ==
    LET needed == UNION {Signatures(p, v, e.data) : v \in Current(p), e \in Entry(p)} IN
    IF dirty[p] \/ NameLocked(p) THEN {}
    ELSE IF Releasing(p) THEN needed
    ELSE needed \cap Stored(p)

Shown(p) ==
    [entry    |-> Entry(p),
     current  |-> Current(p),
     versions |-> Versions(p),
     signed   |-> Complete(p),
     old      |-> {s \in Stored(p) : s.version \notin Current(p)}]

Nothing == [entry |-> {}, current |-> {}, versions |-> {}, signed |-> {}, old |-> {}]

S == INSTANCE Store
     WITH Faulty  <- Faults # {},
          names   <- [p \in Path |-> IF blemish[p] = {} THEN Shown(p) ELSE Nothing],
          damaged <- {p \in Path : blemish[p] # {}}

\* With one FUSE thread, handlers cut at their statements make files that are created,
\* changed, released, unlinked and renamed as a whole, and every version's signatures
\* are complete when the next one takes its place; the names that no fault or collision
\* hits stay as they are (ndnfs_mknod, ndnfs_release, ndnfs_unlink, ndnfs_rename).
ImplementsStore == S!Spec

=============================================================================
