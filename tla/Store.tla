------------------------------- MODULE Store -------------------------------
(***************************************************************************)
(* What NDNFS promises of the files under its names, without tables, disk, *)
(* statements or threads: mknod, release, unlink and rename take effect at *)
(* once.  A release signs the whole file, and no later one touches the     *)
(* signatures of the versions before it.  Nothing is promised of a damaged *)
(* name: one that met a fault, or a rename onto a name with versions.      *)
(* Module Ndnfs implements it, with one FUSE thread (module NdnfsStore).   *)
(***************************************************************************)
EXTENDS Naturals

CONSTANTS
    Path,
    Faulty,           \* whether statements may be lost, processes die, calls fail
    Signatures(_, _, _) \* the signatures a version of a name needs for some bytes

VARIABLES
    names,     \* per name: the entry in the directory and the current version, if any,
               \* all versions, the current one's signatures if it has all of them,
               \* and the signatures of the others
    damaged    \* the names nothing is promised of

vars == <<names, damaged>>

Nothing == [entry |-> {}, current |-> {}, versions |-> {}, signed |-> {}, old |-> {}]

Init ==
    /\ names = [p \in Path |-> Nothing]
    /\ damaged = {}

\* p becomes n.  No signature of a version that is not current is lost, and the ones
\* that join them were the current version's.
Become(p, n) ==
    LET m   == names[p]
        old == names'[p].old
    IN
    /\ p \notin damaged
    /\ names' = [names EXCEPT ![p] = [n EXCEPT !.old = old]]
    /\ {s \in m.old \cup m.signed : s.version \notin n.current} \subseteq old
    /\ \A s \in old : /\ s.version \notin n.current
                      /\ s \in m.old \/ s.version \in m.current
    /\ UNCHANGED damaged

-----------------------------------------------------------------------------

\* A new file has no bytes and no signature; its version is no earlier than those
\* the name had.
Create(p, now) ==
    /\ names[p].entry = {} /\ names[p].current = {}
    /\ \A v \in names[p].versions : v <= now
    /\ Become(p, [names[p] EXCEPT !.entry = {[kind |-> "reg", data |-> <<>>]},
                                  !.current = {now}, !.versions = @ \cup {now}])

Link(p) ==
    /\ names[p].entry = {}
    /\ Become(p, [names[p] EXCEPT !.entry = {[kind |-> "link", data |-> <<>>]}])

\* Other bytes, and the signatures are not the file's any more.
Change(p) ==
    \E e \in names'[p].entry :
        /\ e.kind = "reg" /\ names[p].current # {}
        /\ Become(p, [names[p] EXCEPT !.entry = {e}, !.signed = {}])

\* The file as it is becomes a version, signed from beginning to end.
Release(p, now) ==
    /\ names[p].current # {}
    /\ \A v \in names[p].versions : v <= now
    /\ Become(p, [names[p] EXCEPT
                     !.current = {now}, !.versions = @ \cup {now},
                     !.signed = UNION {Signatures(p, now, e.data) : e \in names[p].entry}])

\* The versions and their signatures stay.
Unlink(p) ==
    /\ names[p].entry # {}
    /\ Become(p, [names[p] EXCEPT !.entry = {}, !.current = {}, !.signed = {}])

\* Everything of one name becomes another's, but the signatures are over the old name.
Rename(from, to) ==
    /\ from # to /\ {from, to} \cap damaged = {}
    /\ names[from].entry # {} /\ names[to].versions = {}
    /\ names' = [names EXCEPT ![to] = [names[from] EXCEPT !.signed = {}],
                              ![from] = Nothing]
    /\ UNCHANGED damaged

-----------------------------------------------------------------------------

Damage(ps) ==
    /\ damaged' = damaged \cup ps
    /\ names' = [p \in Path |-> IF p \in ps THEN Nothing ELSE names[p]]

\* A rename onto a name that has versions, or between names one of which is damaged.
Collide(from, to) ==
    /\ from # to
    /\ names[from].entry # {} \/ from \in damaged
    /\ names[to].versions # {} \/ {from, to} \cap damaged # {}
    /\ Damage({from, to})

Fault == Faulty /\ \E ps \in SUBSET Path : Damage(ps)

-----------------------------------------------------------------------------

Next ==
    \/ \E p \in Path :
        \/ Link(p) \/ Change(p) \/ Unlink(p)
        \/ \E now \in names'[p].current : Create(p, now) \/ Release(p, now)
    \/ \E from, to \in Path : Rename(from, to) \/ Collide(from, to)
    \/ Fault

Spec == Init /\ [][Next]_vars

=============================================================================
