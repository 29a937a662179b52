----------------------------- MODULE TreeProofs -----------------------------
(* Theorems about Tree for every tree of names and any number of files. *)
EXTENDS Tree, SequenceTheorems, WellFoundedInduction, TLAPS

-----------------------------------------------------------------------------
(* Names *)

Component == DOMAIN Extension

LEMMA PathIsSeq ==
    ASSUME NEW p \in Path
    PROVE  /\ p \in Seq(Component) /\ Len(p) \in Nat \ {0}
           /\ Parent(p) \in Node
<1>1. p \in Seq(Component) /\ Parent(p) \in Node /\ p # <<>>
  BY PathAssumption DEF Component, Root
<1> QED
  BY <1>1, EmptySeq

LEMMA NodeIsSeq ==
    ASSUME NEW q \in Node
    PROVE  q \in Seq(Component) /\ Len(q) \in Nat
<1>1. CASE q \in Path
  BY <1>1, PathIsSeq
<1>2. CASE q = <<>>
  BY <1>2
<1> QED
  BY <1>1, <1>2 DEF Node, Root

LEMMA RootNotInPath == Root \notin Path
BY PathAssumption

(* The part of a name behind a prefix. *)
LEMMA Rest ==
    ASSUME NEW q \in Seq(Component), NEW n \in Nat, n <= Len(q)
    PROVE  /\ SubSeq(q, n + 1, Len(q)) \in Seq(Component)
           /\ Len(SubSeq(q, n + 1, Len(q))) = Len(q) - n
           /\ \A i \in 1..Len(q) - n : SubSeq(q, n + 1, Len(q))[i] = q[n + i]
           /\ SubSeq(q, 1, n) \in Seq(Component)
           /\ Len(SubSeq(q, 1, n)) = n
           /\ \A i \in 1..n : SubSeq(q, 1, n)[i] = q[i]
<1>1. \A i \in n + 1..Len(q) : q[i] \in Component
  OBVIOUS
<1>2. \A i \in 1..n : q[i] \in Component
  OBVIOUS
<1>3. Len(q) \in Nat
  OBVIOUS
<1>4. /\ SubSeq(q, n + 1, Len(q)) \in Seq(Component)
      /\ Len(SubSeq(q, n + 1, Len(q))) =
             IF n + 1 <= Len(q) THEN Len(q) - (n + 1) + 1 ELSE 0
      /\ \A i \in 1..Len(q) - (n + 1) + 1 :
             SubSeq(q, n + 1, Len(q))[i] = q[n + 1 + i - 1]
  BY <1>1, <1>3, SubSeqProperties
<1>5. /\ SubSeq(q, 1, n) \in Seq(Component)
      /\ Len(SubSeq(q, 1, n)) = IF 1 <= n THEN n - 1 + 1 ELSE 0
      /\ \A i \in 1..n - 1 + 1 : SubSeq(q, 1, n)[i] = q[1 + i - 1]
  BY <1>2, SubSeqProperties
<1>6. /\ Len(q) - (n + 1) + 1 = Len(q) - n
      /\ (IF n + 1 <= Len(q) THEN Len(q) - (n + 1) + 1 ELSE 0) = Len(q) - n
      /\ (IF 1 <= n THEN n - 1 + 1 ELSE 0) = n /\ n - 1 + 1 = n
      /\ \A i \in 1..n : 1 + i - 1 = i
      /\ \A i \in 1..Len(q) - n : n + 1 + i - 1 = n + i
  BY <1>3
<1> QED
  BY <1>4, <1>5, <1>6

LEMMA ImageProperties ==
    ASSUME NEW from \in Seq(Component), NEW to \in Seq(Component),
           NEW q \in Seq(Component), Len(from) <= Len(q)
    PROVE  /\ Image(q, from, to) \in Seq(Component)
           /\ Len(Image(q, from, to)) = Len(to) + Len(q) - Len(from)
           /\ \A i \in 1..Len(to) : Image(q, from, to)[i] = to[i]
           /\ \A i \in 1..Len(q) - Len(from) :
                  Image(q, from, to)[Len(to) + i] = q[Len(from) + i]
<1> DEFINE r == SubSeq(q, Len(from) + 1, Len(q))
<1>1. Len(from) \in Nat /\ Len(to) \in Nat /\ Len(q) \in Nat
  OBVIOUS
<1>2. /\ r \in Seq(Component) /\ Len(r) = Len(q) - Len(from)
      /\ \A i \in 1..Len(q) - Len(from) : r[i] = q[Len(from) + i]
  BY <1>1, Rest
<1>3. Image(q, from, to) = to \o r
  BY DEF Image
<1> HIDE DEF r
<1>4. /\ to \o r \in Seq(Component)
      /\ Len(to \o r) = Len(to) + Len(r)
      /\ \A i \in 1..Len(to) + Len(r) :
             (to \o r)[i] = IF i <= Len(to) THEN to[i] ELSE r[i - Len(to)]
  BY <1>2, ConcatProperties
<1>5. \A i \in 1..Len(to) : i \in 1..Len(to) + Len(r) /\ i <= Len(to)
  BY <1>1, <1>2
<1>6. \A i \in 1..Len(r) :
          /\ Len(to) + i \in 1..Len(to) + Len(r)
          /\ ~(Len(to) + i <= Len(to)) /\ Len(to) + i - Len(to) = i
  BY <1>1, <1>2
<1>7. \A i \in 1..Len(to) : (to \o r)[i] = to[i]
  BY <1>4, <1>5
<1>8. \A i \in 1..Len(r) : (to \o r)[Len(to) + i] = r[i]
  BY <1>4, <1>6
<1>9. Len(to) + Len(r) = Len(to) + Len(q) - Len(from)
  BY <1>1, <1>2
<1> QED
  BY <1>2, <1>3, <1>4, <1>7, <1>8, <1>9

LEMMA Same ==
    ASSUME NEW s \in Seq(Component), NEW t \in Seq(Component),
           Len(s) = Len(t), \A i \in 1..Len(s) : s[i] = t[i]
    PROVE  s = t
BY SeqEqual

LEMMA Prefix ==
    ASSUME NEW q \in Seq(Component), NEW d \in Seq(Component), Len(d) <= Len(q)
    PROVE  SubSeq(q, 1, Len(d)) = d <=> \A i \in 1..Len(d) : q[i] = d[i]
<1>1. Len(d) \in Nat
  OBVIOUS
<1>2. /\ SubSeq(q, 1, Len(d)) \in Seq(Component)
      /\ Len(SubSeq(q, 1, Len(d))) = Len(d)
      /\ \A i \in 1..Len(d) : SubSeq(q, 1, Len(d))[i] = q[i]
  BY <1>1, Rest
<1>3. ASSUME \A i \in 1..Len(d) : q[i] = d[i]
      PROVE  SubSeq(q, 1, Len(d)) = d
  BY <1>2, <1>3, Same
<1> QED
  BY <1>2, <1>3

LEMMA BelowIs ==
    ASSUME NEW d \in Seq(Component), NEW q \in Path
    PROVE  q \in Below(d) <=> /\ Len(q) > Len(d)
                              /\ \A i \in 1..Len(d) : q[i] = d[i]
BY PathIsSeq, Prefix DEF Below

(* Moving a name there and back. *)
LEMMA ImageBack ==
    ASSUME NEW from \in Seq(Component), NEW to \in Seq(Component),
           NEW q \in Seq(Component), Len(from) <= Len(q),
           \A i \in 1..Len(from) : q[i] = from[i]
    PROVE  Image(Image(q, from, to), to, from) = q
<1> DEFINE m == Image(q, from, to)
<1>1. Len(from) \in Nat /\ Len(to) \in Nat /\ Len(q) \in Nat
  OBVIOUS
<1>2. /\ m \in Seq(Component) /\ Len(m) = Len(to) + Len(q) - Len(from)
      /\ \A i \in 1..Len(q) - Len(from) : m[Len(to) + i] = q[Len(from) + i]
  BY ImageProperties
<1> HIDE DEF m
<1>3. Len(to) <= Len(m)
  BY <1>1, <1>2
<1>4. /\ Image(m, to, from) \in Seq(Component)
      /\ Len(Image(m, to, from)) = Len(from) + Len(m) - Len(to)
      /\ \A i \in 1..Len(from) : Image(m, to, from)[i] = from[i]
      /\ \A i \in 1..Len(m) - Len(to) :
             Image(m, to, from)[Len(from) + i] = m[Len(to) + i]
  BY <1>2, <1>3, ImageProperties
<1>5. Len(Image(m, to, from)) = Len(q) /\ Len(m) - Len(to) = Len(q) - Len(from)
  BY <1>1, <1>2, <1>4
<1>6. ASSUME NEW i \in 1..Len(q)
      PROVE  Image(m, to, from)[i] = q[i]
  <2>1. CASE i <= Len(from)
    BY <1>1, <1>4, <2>1
  <2>2. CASE ~(i <= Len(from))
    <3>1. i - Len(from) \in 1..Len(q) - Len(from) /\ Len(from) + (i - Len(from)) = i
      BY <1>1, <2>2
    <3>2. Image(m, to, from)[Len(from) + (i - Len(from))]
              = q[Len(from) + (i - Len(from))]
      BY <1>2, <1>4, <1>5, <3>1
    <3> QED
      BY <3>1, <3>2
  <2> QED
    BY <2>1, <2>2
<1>7. Image(m, to, from) = q
  BY <1>4, <1>5, <1>6, Same
<1> QED
  BY <1>7 DEF m

LEMMA ImageOfSelf ==
    ASSUME NEW from \in Seq(Component), NEW to \in Seq(Component)
    PROVE  Image(from, from, to) = to
<1>1. Len(from) \in Nat /\ Len(to) \in Nat
  OBVIOUS
<1>2. /\ Image(from, from, to) \in Seq(Component)
      /\ Len(Image(from, from, to)) = Len(to)
      /\ \A i \in 1..Len(to) : Image(from, from, to)[i] = to[i]
  BY <1>1, ImageProperties
<1> QED
  BY <1>2, Same

LEMMA ImageBelow ==
    ASSUME NEW from \in Path, NEW to \in Path, NEW q \in Below(from)
    PROVE  /\ Image(q, from, to) \in Path => Image(q, from, to) \in Below(to)
           /\ Image(Image(q, from, to), to, from) = q
           /\ q \in Path
<1>1. /\ from \in Seq(Component) /\ to \in Seq(Component) /\ q \in Path
      /\ q \in Seq(Component) /\ Len(from) \in Nat /\ Len(to) \in Nat
      /\ Len(q) \in Nat
  BY PathIsSeq DEF Below
<1>2. Len(q) > Len(from) /\ \A i \in 1..Len(from) : q[i] = from[i]
  BY <1>1, BelowIs
<1>3. /\ Len(Image(q, from, to)) = Len(to) + Len(q) - Len(from)
      /\ \A i \in 1..Len(to) : Image(q, from, to)[i] = to[i]
  BY <1>1, <1>2, ImageProperties
<1>4. Len(Image(q, from, to)) > Len(to)
  BY <1>1, <1>2, <1>3
<1>5. Image(q, from, to) \in Path => Image(q, from, to) \in Below(to)
  BY <1>1, <1>3, <1>4, BelowIs
<1> QED
  BY <1>1, <1>2, <1>5, ImageBack

LEMMA ParentIs ==
    ASSUME NEW q \in Path
    PROVE  /\ Parent(q) \in Seq(Component)
           /\ Len(Parent(q)) = Len(q) - 1
           /\ \A i \in 1..Len(q) - 1 : Parent(q)[i] = q[i]
<1>1. q \in Seq(Component) /\ Len(q) - 1 \in Nat /\ Len(q) - 1 <= Len(q)
  BY PathIsSeq
<1> QED
  BY <1>1, Rest DEF Parent

(* What is below a directory is, or is below, one of its entries. *)
LEMMA ParentBelow ==
    ASSUME NEW from \in Path, NEW q \in Path
    PROVE  q \in Below(from) <=> (Parent(q) = from \/ Parent(q) \in Below(from))
<1>1. /\ from \in Seq(Component) /\ q \in Seq(Component)
      /\ Len(from) \in Nat \ {0} /\ Len(q) \in Nat \ {0} /\ Parent(q) \in Node
  BY PathIsSeq
<1>2. /\ Parent(q) \in Seq(Component) /\ Len(Parent(q)) = Len(q) - 1
      /\ \A i \in 1..Len(q) - 1 : Parent(q)[i] = q[i]
  BY ParentIs
<1>3. q \in Below(from) <=> /\ Len(q) > Len(from)
                            /\ \A i \in 1..Len(from) : q[i] = from[i]
  BY <1>1, BelowIs
<1>4. ASSUME q \in Below(from) PROVE Parent(q) = from \/ Parent(q) \in Below(from)
  <2>1. \A i \in 1..Len(from) : Parent(q)[i] = from[i]
    BY <1>1, <1>2, <1>3, <1>4
  <2>2. CASE Len(q) - 1 = Len(from)
    BY <1>1, <1>2, <2>1, <2>2, Same
  <2>3. CASE Len(q) - 1 > Len(from)
    <3>1. Len(Parent(q)) # 0
      BY <1>1, <1>2, <2>3
    <3>2. Parent(q) \in Path
      BY <1>1, <3>1, EmptySeq DEF Node, Root
    <3> QED
      BY <1>1, <1>2, <2>1, <2>3, <3>2, BelowIs
  <2> QED
    BY <1>1, <1>3, <1>4, <2>2, <2>3
<1>5. ASSUME Parent(q) = from PROVE q \in Below(from)
  BY <1>1, <1>2, <1>3, <1>5
<1>6. ASSUME Parent(q) \in Below(from) PROVE q \in Below(from)
  <2>1. Parent(q) \in Path
    BY <1>6 DEF Below
  <2>2. Len(Parent(q)) > Len(from) /\ \A i \in 1..Len(from) : Parent(q)[i] = from[i]
    BY <1>1, <1>6, <2>1, BelowIs
  <2> QED
    BY <1>1, <1>2, <1>3, <2>2
<1> QED
  BY <1>4, <1>5, <1>6

(* Of two names neither of which is below the other nothing is below both. *)
LEMMA Disjoint ==
    ASSUME NEW from \in Path, NEW to \in Path, from # to,
           to \notin Below(from), from \notin Below(to)
    PROVE  Below(from) \cap Below(to) = {}
<1> SUFFICES ASSUME NEW q \in Path, q \in Below(from), q \in Below(to)
             PROVE  FALSE
  BY DEF Below
<1>1. /\ from \in Seq(Component) /\ to \in Seq(Component) /\ q \in Seq(Component)
      /\ Len(from) \in Nat /\ Len(to) \in Nat
  BY PathIsSeq
<1>2. /\ \A i \in 1..Len(from) : q[i] = from[i]
      /\ \A i \in 1..Len(to) : q[i] = to[i]
  BY <1>1, BelowIs
<1>3. CASE Len(from) < Len(to)
  BY <1>1, <1>2, <1>3, BelowIs
<1>4. CASE Len(to) < Len(from)
  BY <1>1, <1>2, <1>4, BelowIs
<1>5. CASE Len(to) = Len(from)
  BY <1>1, <1>2, <1>5, Same
<1> QED
  BY <1>1, <1>3, <1>4, <1>5

-----------------------------------------------------------------------------
(* Types *)

LEMMA EntryTypes ==
    /\ Absent \in Entry /\ SymLink \in Entry
    /\ \A f \in Files : Regular(f) \in Entry
    /\ \A t \in Nat : Directory(t, TRUE) \in Entry /\ Directory(t, FALSE) \in Entry
BY DEF Entry, Absent, SymLink, Regular, Directory

LEMMA TouchType ==
    ASSUME NEW t \in [Node -> Entry], NEW ds, clock \in Nat, tree' = Touch(t, ds)
    PROVE  /\ tree' \in [Node -> Entry]
           /\ \A q \in Node : /\ tree'[q].kind = t[q].kind
                              /\ t[q].kind # "dir" => tree'[q] = t[q]
                              /\ q \notin ds => tree'[q] = t[q]
<1>1. \A q \in Node : (IF q \in ds /\ t[q].kind = "dir" THEN Directory(clock, FALSE)
                       ELSE t[q]) \in Entry
  BY EntryTypes
<1> QED
  BY <1>1 DEF Touch, Directory

LEMMA SetEntryType ==
    ASSUME TypeOK, NEW p \in Path, NEW e \in Entry, SetEntry(p, e)
    PROVE  /\ tree' \in [Node -> Entry]
           /\ tree'[Root].kind = "dir"
           /\ \A q \in Node \ {p} : tree'[q].kind = tree[q].kind
           /\ \A q \in Node \ {p} : tree[q].kind # "dir" => tree'[q] = tree[q]
           /\ \A q \in Node \ {p} : q # Parent(p) => tree'[q] = tree[q]
           /\ tree'[p].kind = e.kind
           /\ e.kind # "dir" => tree'[p] = e
<1>0. PICK t : t = [tree EXCEPT ![p] = e]
  OBVIOUS
<1>1. t \in [Node -> Entry] /\ p \in Node
  BY <1>0 DEF TypeOK, Node
<1>2. t[p] = e /\ \A q \in Node \ {p} : t[q] = tree[q]
  BY <1>0, <1>1 DEF TypeOK
<1>3. tree' = Touch(t, {Parent(p)})
  BY <1>0 DEF SetEntry
<1>4. Root \in Node /\ Root # p
  BY RootNotInPath DEF Node
<1>5. clock \in Nat /\ tree[Root].kind = "dir"
  BY DEF TypeOK
<1>6. /\ tree' \in [Node -> Entry]
      /\ \A q \in Node : /\ tree'[q].kind = t[q].kind
                         /\ t[q].kind # "dir" => tree'[q] = t[q]
                         /\ q \notin {Parent(p)} => tree'[q] = t[q]
  BY <1>1, <1>3, <1>5, TouchType
<1> QED
  BY <1>1, <1>2, <1>3, <1>4, <1>5, <1>6

(* What rename(2) does to each name. *)
LEMMA MovedTreeIs ==
    ASSUME TypeOK, NEW from \in Path, NEW to \in Path, Rename(from, to)
    PROVE  /\ tree' \in [Node -> Entry]
           /\ tree'[Root].kind = "dir"
           /\ \A q \in {from} \cup Below(from) : tree'[q] = Absent
           /\ tree'[to].kind = tree[from].kind
           /\ tree[from].kind # "dir" => tree'[to] = tree[from]
           /\ \A q \in Below(to) :
                  tree'[q].kind = IF Image(q, to, from) \in Path
                                  THEN tree[Image(q, to, from)].kind ELSE "none"
           /\ \A q \in Node \ ({from, to} \cup Below(from) \cup Below(to)) :
                  /\ tree'[q].kind = tree[q].kind
                  /\ tree[q].kind # "dir" => tree'[q] = tree[q]
                  /\ q \notin {Parent(from), Parent(to)} => tree'[q] = tree[q]
<1>0. PICK t : t = MovedTree(from, to)
  OBVIOUS
<1> DEFINE ds == {Parent(from), Parent(to)}
<1>1. /\ from # to /\ to \notin Below(from) /\ from \notin Below(to)
      /\ tree' = Touch(t, ds)
  BY <1>0 DEF Rename, Renamable
<1>2. /\ Below(from) \subseteq Path /\ Below(to) \subseteq Path
      /\ Path \subseteq Node /\ Root \in Node /\ Root \notin Path
  BY RootNotInPath DEF Below, Node
<1>3. tree \in [Node -> Entry] /\ clock \in Nat /\ tree[Root].kind = "dir"
  BY DEF TypeOK
<1>4. t \in [Node -> Entry]
  <2>1. \A q \in Node : t[q] \in Entry
    BY <1>0, <1>2, <1>3, EntryTypes DEF MovedTree
  <2> QED
    BY <1>0, <2>1 DEF MovedTree
<1>5. Below(from) \cap Below(to) = {}
  BY <1>1, Disjoint
<1>6. \A q \in {from} \cup Below(from) : t[q] = Absent
  BY <1>0, <1>2 DEF MovedTree
<1>7. t[to] = tree[from]
  BY <1>0, <1>1, <1>2 DEF MovedTree
<1>8. \A q \in Below(to) :
          t[q] = IF Image(q, to, from) \in Path THEN tree[Image(q, to, from)]
                 ELSE Absent
  <2>1. to \notin Below(to)
    BY PathIsSeq DEF Below
  <2> QED
    BY <1>0, <1>1, <1>2, <1>5, <2>1 DEF MovedTree
<1>9. \A q \in Node \ ({from, to} \cup Below(from) \cup Below(to)) : t[q] = tree[q]
  BY <1>0 DEF MovedTree
<1> HIDE DEF ds
<1>10. /\ tree' \in [Node -> Entry]
       /\ \A q \in Node : /\ tree'[q].kind = t[q].kind
                          /\ t[q].kind # "dir" => tree'[q] = t[q]
                          /\ q \notin ds => tree'[q] = t[q]
  BY <1>1, <1>3, <1>4, TouchType
<1>11. Absent.kind = "none"
  BY DEF Absent
<1>12. \A q \in {from} \cup Below(from) : tree'[q] = Absent
  BY <1>1, <1>2, <1>6, <1>10, <1>11
<1>13. \A q \in Below(to) :
           tree'[q].kind = IF Image(q, to, from) \in Path
                           THEN tree[Image(q, to, from)].kind ELSE "none"
  BY <1>1, <1>2, <1>8, <1>10, <1>11
<1>14. tree'[Root].kind = "dir"
  BY <1>1, <1>2, <1>3, <1>9, <1>10
<1>15. tree'[to].kind = tree[from].kind
       /\ (tree[from].kind # "dir" => tree'[to] = tree[from])
  BY <1>1, <1>2, <1>7, <1>10
<1>16. \A q \in Node \ ({from, to} \cup Below(from) \cup Below(to)) :
           /\ tree'[q].kind = tree[q].kind
           /\ tree[q].kind # "dir" => tree'[q] = tree[q]
           /\ q \notin ds => tree'[q] = tree[q]
  BY <1>1, <1>9, <1>10
<1> QED
  BY <1>1, <1>10, <1>12, <1>13, <1>14, <1>15, <1>16 DEF ds

-----------------------------------------------------------------------------
(* The directory a listing has opened is one, whatever became of its name. *)

ListingOpen == listing # IdleListing => \A q \in listing.at : tree[q].kind = "dir"

TypeInv == TypeOK /\ ListingOpen

LEMMA ListingAt ==
    ASSUME NEW l \in Listing, NEW X \in SUBSET Node
    PROVE  /\ [l EXCEPT !.at = X] \in Listing
           /\ [l EXCEPT !.at = X].at = X
           /\ l # IdleListing
<1>1. CASE l \in [pc : {"stat"}, path : Node, at : SUBSET Node]
  BY <1>1 DEF Listing, IdleListing
<1>2. CASE l \in [pc : {"read"}, at : SUBSET Node, version : Nat, asked : Nat]
  BY <1>2 DEF Listing, IdleListing
<1>3. CASE l \in [pc : {"reply"}, at : SUBSET Node, version : Nat, asked : Nat,
                  names : SUBSET DOMAIN Extension]
  BY <1>3 DEF Listing, IdleListing
<1> QED
  BY <1>1, <1>2, <1>3 DEF Listing

LEMMA ListingParts ==
    ASSUME TypeOK, listing # IdleListing
    PROVE  /\ listing \in Listing /\ listing.at \in SUBSET Node
           /\ listing.pc = "stat" =>
                  listing \in [pc : {"stat"}, path : Node, at : SUBSET Node]
           /\ listing.pc = "read" =>
                  listing \in [pc : {"read"}, at : SUBSET Node,
                               version : Nat, asked : Nat]
           /\ listing.pc = "reply" =>
                  listing \in [pc : {"reply"}, at : SUBSET Node,
                               version : Nat, asked : Nat,
                               names : SUBSET DOMAIN Extension]
BY DEF TypeOK, Listing

(* A change of one entry that is no directory, or that the listing forgets. *)
LEMMA EntryStep ==
    ASSUME TypeInv, NEW p \in Path, NEW e \in Entry, SetEntry(p, e),
           \/ tree[p].kind # "dir" /\ listing' = listing
           \/ Forget(p)
    PROVE  /\ tree' \in [Node -> Entry] /\ tree'[Root].kind = "dir"
           /\ listing' \in {IdleListing} \cup Listing
           /\ ListingOpen'
<1>1. /\ tree' \in [Node -> Entry] /\ tree'[Root].kind = "dir"
      /\ \A q \in Node \ {p} : tree'[q].kind = tree[q].kind
  BY SetEntryType DEF TypeInv
<1>2. listing \in {IdleListing} \cup Listing
  BY DEF TypeInv, TypeOK
<1>3. CASE listing = IdleListing
  BY <1>1, <1>3 DEF Forget, ListingOpen
<1>4. CASE listing # IdleListing
  <2>1. /\ listing \in Listing /\ listing.at \in SUBSET Node
        /\ \A q \in listing.at : tree[q].kind = "dir"
    BY <1>4, ListingParts DEF TypeInv, ListingOpen
  <2>2. CASE tree[p].kind # "dir" /\ listing' = listing
    BY <1>1, <2>1, <2>2 DEF ListingOpen
  <2>3. CASE Forget(p)
    <3>1. listing' = [listing EXCEPT !.at = listing.at \ {p}]
      BY <1>4, <2>3 DEF Forget
    <3>2. listing.at \ {p} \in SUBSET Node
      BY <2>1
    <3>3. listing' \in Listing /\ listing'.at = listing.at \ {p}
      BY <2>1, <3>1, <3>2, ListingAt
    <3> QED
      BY <1>1, <2>1, <3>3 DEF ListingOpen
  <2> QED
    BY <2>2, <2>3
<1> QED
  BY <1>3, <1>4

(* The directories opened stay directories when they move with a rename. *)
LEMMA RenameStep ==
    ASSUME TypeInv, NEW from \in Path, NEW to \in Path, Rename(from, to)
    PROVE  /\ tree' \in [Node -> Entry] /\ tree'[Root].kind = "dir"
           /\ listing' \in {IdleListing} \cup Listing
           /\ ListingOpen'
<1>1. /\ tree' \in [Node -> Entry] /\ tree'[Root].kind = "dir"
      /\ tree'[to].kind = tree[from].kind
      /\ \A q \in Below(to) :
             tree'[q].kind = IF Image(q, to, from) \in Path
                             THEN tree[Image(q, to, from)].kind ELSE "none"
      /\ \A q \in Node \ ({from, to} \cup Below(from) \cup Below(to)) :
             tree'[q].kind = tree[q].kind
  BY MovedTreeIs DEF TypeInv
<1>2. /\ \A q \in Below(from) : IsAbsent(q) \/ Image(q, from, to) \in Path
      /\ \A q \in Below(to) : IsAbsent(q)
      /\ Follow(from, to)
  BY DEF Rename, Empty
<1>3. CASE listing = IdleListing
  BY <1>1, <1>2, <1>3 DEF Follow, ListingOpen
<1>4. CASE listing # IdleListing
  <2>1. /\ listing \in Listing /\ listing.at \in SUBSET Node
        /\ \A q \in listing.at : tree[q].kind = "dir"
    BY <1>4, ListingParts DEF TypeInv, ListingOpen
  <2> DEFINE new(q) == IF q = from \/ q \in Below(from) THEN Image(q, from, to) ELSE q
             at     == {new(q) : q \in listing.at \ {to}}
  <2>2. ASSUME NEW q \in listing.at \ {to}
        PROVE  new(q) \in Node /\ tree'[new(q)].kind = "dir"
    <3>1. tree[q].kind = "dir" /\ q \in Node
      BY <2>1
    <3>2. CASE q = from
      <4>1. new(q) = to
        BY <3>2, PathIsSeq, ImageOfSelf
      <4> QED
        BY <1>1, <3>1, <3>2, <4>1 DEF Node
    <3>3. CASE q \in Below(from)
      <4>1. Image(q, from, to) \in Path
        BY <1>2, <3>1, <3>3 DEF IsAbsent
      <4>2. /\ Image(q, from, to) \in Below(to) /\ q \in Path
            /\ Image(Image(q, from, to), to, from) = q
        BY <3>3, <4>1, ImageBelow
      <4> QED
        BY <1>1, <3>1, <3>3, <4>1, <4>2 DEF Node
    <3>4. CASE q # from /\ q \notin Below(from)
      <4>1. q \notin Below(to)
        BY <1>2, <3>1 DEF IsAbsent
      <4> QED
        BY <1>1, <3>1, <3>4, <4>1
    <3> QED
      BY <3>2, <3>3, <3>4
  <2>3. at \in SUBSET Node /\ \A q \in at : tree'[q].kind = "dir"
    BY <2>2
  <2>4. listing' = [listing EXCEPT !.at = at]
    BY <1>2, <1>4 DEF Follow
  <2> HIDE DEF at
  <2>5. listing' \in Listing /\ listing'.at = at
    BY <2>1, <2>3, <2>4, ListingAt
  <2> QED
    BY <1>1, <2>3, <2>5 DEF ListingOpen
<1> QED
  BY <1>3, <1>4

-----------------------------------------------------------------------------
(* Type correctness *)

LEMMA TypeInit == ASSUME Init PROVE TypeInv
<1>1. Root \in Node /\ 0 \in Nat
  BY DEF Node
<1>2. tree \in [Node -> Entry] /\ tree[Root] = Directory(0, FALSE)
  BY <1>1, EntryTypes DEF Init
<1>3. tree[Root].kind = "dir"
  BY <1>2 DEF Directory
<1> QED
  BY <1>1, <1>2, <1>3 DEF Init, TypeInv, TypeOK, ListingOpen

(* The rows that a rename moves keep their types. *)
LEMMA RenameRowsType ==
    ASSUME TypeOK, NEW from \in Path, NEW to \in Path, RenameRows(from, to)
    PROVE  fileSystem' \subseteq SystemRow /\ fileVersions' \subseteq Path
<1>1. \A r \in SystemRow : [r EXCEPT !.path = to] \in SystemRow
  BY DEF SystemRow
<1>2. fileSystem' \subseteq SystemRow
  BY <1>1 DEF RenameRows, UpdatePath, TypeOK
<1>3. fileVersions' \subseteq Path
  BY DEF RenameRows, UpdateVersions, TypeOK
<1> QED
  BY <1>2, <1>3

LEMMA ListStepType ==
    ASSUME TypeInv, ListDir
    PROVE  TypeInv'
<1>1. listing # IdleListing => listing.at \in SUBSET Node
  BY ListingParts DEF TypeInv
<1>2. UNCHANGED <<tree, tables, clock, parted>> /\ clock \in Nat
  BY DEF ListDir, TypeInv, TypeOK
<1>3. ASSUME listing.pc \in {"stat", "read"} PROVE listing # IdleListing
  BY <1>3 DEF IdleListing
<1>4. CASE \E v \in 0..MaxClock : StatDir(v)
  <2>1. PICK v \in 0..MaxClock : StatDir(v)
    BY <1>4
  <2>2. /\ listing' = [pc |-> "read", at |-> listing.at, version |-> v,
                       asked |-> clock]
        /\ listing.at \in SUBSET Node
        /\ v \in Nat /\ listing # IdleListing
    BY <1>1, <1>3, <2>1, ClockAssumption DEF StatDir
  <2>3. listing' \in Listing /\ listing'.at = listing.at
    BY <1>2, <2>2 DEF Listing
  <2> QED
    BY <1>2, <2>2, <2>3 DEF TypeInv, TypeOK, ListingOpen, tables
<1>5. CASE ReadDir
  <2>1. /\ listing.pc = "read" /\ listing # IdleListing
        /\ listing' = [pc |-> "reply", at |-> listing.at,
                       version |-> listing.version, asked |-> listing.asked,
                       names |-> NamesIn(listing.at)]
    BY <1>3, <1>5 DEF ReadDir
  <2>2. /\ listing.at \in SUBSET Node
        /\ listing.version \in Nat /\ listing.asked \in Nat
    BY <2>1, ListingParts DEF TypeInv
  <2>3. NamesIn(listing.at) \subseteq DOMAIN Extension
    <3>1. \A q \in Path : Name(q) \in DOMAIN Extension
      BY PathIsSeq DEF Name, Component
    <3> QED
      BY <3>1 DEF NamesIn, Children
  <2> HIDE DEF NamesIn
  <2>4. listing' \in Listing /\ listing'.at = listing.at
    BY <2>1, <2>2, <2>3 DEF Listing
  <2> QED
    BY <1>2, <2>1, <2>4 DEF TypeInv, TypeOK, ListingOpen, tables
<1> QED
  BY <1>4, <1>5 DEF ListDir, StatThenRead

LEMMA TypeStep == ASSUME TypeInv, [Next]_vars PROVE TypeInv'
<1>1. TypeOK /\ ListingOpen
  BY DEF TypeInv
<1>2. ASSUME NEW p \in Path, NEW f \in Files, Mknod(p, f) PROVE TypeInv'
  <2>1. [path |-> p, mime_type |-> MimeInfer(p), file |-> f] \in SystemRow
    BY DEF SystemRow
  <2>2. /\ tree[p].kind # "dir" /\ SetEntry(p, Regular(f)) /\ listing' = listing
        /\ Regular(f) \in Entry
    BY <1>2, EntryTypes DEF Mknod, Free, IsAbsent, Unmoved
  <2>3. /\ tree' \in [Node -> Entry] /\ tree'[Root].kind = "dir"
        /\ listing' \in {IdleListing} \cup Listing /\ ListingOpen'
    BY <2>2, EntryStep
  <2> QED
    BY <1>1, <1>2, <2>1, <2>3 DEF TypeInv, TypeOK, Mknod
<1>3. ASSUME NEW p \in Path, Symlink(p) PROVE TypeInv'
  <2>1. /\ tree[p].kind # "dir" /\ SetEntry(p, SymLink) /\ listing' = listing
        /\ SymLink \in Entry
    BY <1>3, EntryTypes DEF Symlink, Free, IsAbsent, Unmoved
  <2>2. /\ tree' \in [Node -> Entry] /\ tree'[Root].kind = "dir"
        /\ listing' \in {IdleListing} \cup Listing /\ ListingOpen'
    BY <2>1, EntryStep
  <2> QED
    BY <1>1, <1>3, <2>2 DEF TypeInv, TypeOK, Symlink, tables
<1>4. ASSUME NEW from \in Path, NEW to \in Path, Link(from, to) PROVE TypeInv'
  <2>1. /\ tree[to].kind # "dir" /\ SetEntry(to, tree[from]) /\ listing' = listing
        /\ tree[from] \in Entry
    BY <1>1, <1>4 DEF Link, Free, IsAbsent, Unmoved, TypeOK, Node
  <2>2. /\ tree' \in [Node -> Entry] /\ tree'[Root].kind = "dir"
        /\ listing' \in {IdleListing} \cup Listing /\ ListingOpen'
    BY <2>1, EntryStep
  <2> QED
    BY <1>1, <1>4, <2>2 DEF TypeInv, TypeOK, Link, tables
<1>5. ASSUME NEW p \in Path, Unlink(p) PROVE TypeInv'
  <2>1. /\ tree[p].kind # "dir" /\ SetEntry(p, Absent) /\ listing' = listing
        /\ Absent \in Entry
    BY <1>5, EntryTypes DEF Unlink, Unmoved
  <2>2. /\ tree' \in [Node -> Entry] /\ tree'[Root].kind = "dir"
        /\ listing' \in {IdleListing} \cup Listing /\ ListingOpen'
    BY <2>1, EntryStep
  <2> QED
    BY <1>1, <1>5, <2>2 DEF TypeInv, TypeOK, Unlink, RemoveFileEntry
<1>6. ASSUME NEW p \in Path, Mkdir(p) PROVE TypeInv'
  <2>1. /\ tree[p].kind # "dir" /\ SetEntry(p, Directory(clock, FALSE))
        /\ listing' = listing /\ Directory(clock, FALSE) \in Entry
    BY <1>1, <1>6, EntryTypes DEF Mkdir, Free, IsAbsent, Unmoved, TypeOK
  <2>2. /\ tree' \in [Node -> Entry] /\ tree'[Root].kind = "dir"
        /\ listing' \in {IdleListing} \cup Listing /\ ListingOpen'
    BY <2>1, EntryStep
  <2> QED
    BY <1>1, <1>6, <2>2 DEF TypeInv, TypeOK, Mkdir, tables
<1>7. ASSUME NEW p \in Path, Rmdir(p) PROVE TypeInv'
  <2>1. SetEntry(p, Absent) /\ Forget(p) /\ Absent \in Entry
    BY <1>7, EntryTypes DEF Rmdir
  <2>2. /\ tree' \in [Node -> Entry] /\ tree'[Root].kind = "dir"
        /\ listing' \in {IdleListing} \cup Listing /\ ListingOpen'
    BY <2>1, EntryStep
  <2> QED
    BY <1>1, <1>7, <2>2 DEF TypeInv, TypeOK, Rmdir, tables
<1>8. ASSUME NEW from \in Path, NEW to \in Path, Rename(from, to) PROVE TypeInv'
  <2>1. /\ tree' \in [Node -> Entry] /\ tree'[Root].kind = "dir"
        /\ listing' \in {IdleListing} \cup Listing /\ ListingOpen'
    BY <1>8, RenameStep
  <2>2. fileSystem' \subseteq SystemRow /\ fileVersions' \subseteq Path
    BY <1>1, <1>8, RenameRowsType DEF Rename
  <2>3. parted' \subseteq Path
    BY <1>1, <1>8 DEF Rename, Parts, Below, TypeOK
  <2> QED
    BY <1>1, <1>8, <2>1, <2>2, <2>3 DEF TypeInv, TypeOK, Rename
<1>9. ASSUME NEW from \in Path, NEW to \in Path, RenameRowsOnly(from, to)
      PROVE  TypeInv'
  <2>1. fileSystem' \subseteq SystemRow /\ fileVersions' \subseteq Path
    BY <1>1, <1>9, RenameRowsType DEF RenameRowsOnly
  <2> QED
    BY <1>1, <1>9, <2>1
       DEF TypeInv, TypeOK, RenameRowsOnly, ListingOpen, Unmoved
<1>10. ASSUME NEW d \in Node, NEW t \in 0..MaxClock, Utimens(d, t) PROVE TypeInv'
  <2>1. /\ tree' = [tree EXCEPT ![d] = Directory(t, TRUE)] /\ tree[d].kind = "dir"
    BY <1>10 DEF Utimens, IsDir
  <2>0. t \in Nat
    BY ClockAssumption
  <2>4. Directory(t, TRUE) \in Entry
    BY <2>0, EntryTypes
  <2>5. Directory(t, TRUE).kind = "dir"
    BY DEF Directory
  <2>2. /\ tree' \in [Node -> Entry]
        /\ \A q \in Node : tree'[q].kind = tree[q].kind
    BY <1>1, <2>1, <2>4, <2>5 DEF TypeOK
  <2>3. Root \in Node /\ (listing # IdleListing => listing.at \in SUBSET Node)
    BY <1>1, ListingParts DEF Node
  <2> QED
    BY <1>1, <1>10, <2>2, <2>3 DEF TypeInv, TypeOK, Utimens, ListingOpen, Unmoved, tables
<1>11. ASSUME NEW d \in Node, NEW ending \in BOOLEAN, OpenDir(d, ending)
       PROVE  TypeInv'
  <2>1. /\ listing' = [pc |-> "stat", path |-> d, at |-> {d}]
        /\ tree[d].kind = "dir" /\ UNCHANGED <<tree, tables, clock, parted>>
    BY <1>11 DEF OpenDir, IsDir
  <2>2. listing' \in Listing /\ listing'.at = {d}
    BY <2>1 DEF Listing
  <2> QED
    BY <1>1, <2>1, <2>2 DEF TypeInv, TypeOK, ListingOpen, tables
<1>12. ASSUME ReplyDir PROVE TypeInv'
  BY <1>1, <1>12 DEF ReplyDir, TypeInv, TypeOK, ListingOpen, tables
<1>13. ASSUME Tick PROVE TypeInv'
  BY <1>1, <1>13 DEF Tick, TypeInv, TypeOK, ListingOpen, tables
<1>14. ASSUME UNCHANGED vars PROVE TypeInv'
  BY <1>1, <1>14 DEF vars, TypeInv, TypeOK, ListingOpen
<1> QED
  BY <1>2, <1>3, <1>4, <1>5, <1>6, <1>7, <1>8, <1>9, <1>10, <1>11, <1>12, <1>13,
     <1>14, ListStepType DEF Next

(* Tree, tables and the directory a listing has open keep their types, and that *)
(* directory is one as long as it exists, whatever is renamed over or around it. *)
THEOREM TypeCorrect == Spec => []TypeOK
<1>1. Init => TypeInv
  BY TypeInit
<1>2. TypeInv /\ [Next]_vars => TypeInv'
  BY TypeStep
<1>3. TypeInv => TypeOK
  BY DEF TypeInv
<1> QED
  BY <1>1, <1>2, <1>3, PTL DEF Spec

-----------------------------------------------------------------------------
(* Rows and files *)

RowsAgree == FilesHaveRows /\ RowsHaveFiles /\ HistoryWithRow

RowsInv == TypeInv /\ RowsAgree

LEMMA RegularIs ==
    /\ \A f \in Files : Regular(f).kind = "reg" /\ Regular(f).file = f
    /\ \A e \in Entry : e.kind = "reg" => e = Regular(e.file) /\ e.file \in Files
BY DEF Regular, Entry, Absent, SymLink

(* An entry changes from and to something that is no regular file, or its name *)
(* is given up, and no row changes.                                            *)
LEMMA EntryRows ==
    ASSUME RowsInv, NEW p \in Path, NEW e \in Entry, SetEntry(p, e),
           UNCHANGED tables, tree[p].kind # "reg",
           e.kind # "reg" \/ p \in parted', parted \subseteq parted'
    PROVE  RowsAgree'
<1>1. /\ \A q \in Node \ {p} : tree'[q].kind = tree[q].kind
      /\ \A q \in Node \ {p} : tree[q].kind # "dir" => tree'[q] = tree[q]
      /\ tree'[p].kind = e.kind
  BY SetEntryType DEF RowsInv, TypeInv
<1>2. /\ Path \subseteq Node
      /\ \A r \in fileSystem : r.path \in Path /\ r.file \in Files
      /\ fileSystem' = fileSystem /\ fileVersions' = fileVersions
  BY DEF RowsInv, TypeInv, TypeOK, SystemRow, Node, tables
<1>3. FilesHaveRows'
  <2> SUFFICES ASSUME NEW q \in Path \ parted', tree'[q].kind = "reg"
               PROVE  \E r \in fileSystem : r.path = q /\ r.file = tree'[q].file
    BY <1>2 DEF FilesHaveRows, IsRegular
  <2>1. q # p /\ q \in Node
    BY <1>1, <1>2
  <2>2. tree[q].kind = "reg" /\ tree'[q] = tree[q] /\ q \notin parted
    BY <1>1, <2>1
  <2> QED
    BY <2>2 DEF RowsInv, RowsAgree, FilesHaveRows, IsRegular
<1>4. RowsHaveFiles'
  <2> SUFFICES ASSUME NEW r \in fileSystem, r.path \notin parted'
               PROVE  tree'[r.path] = Regular(r.file)
    BY <1>2 DEF RowsHaveFiles
  <2>1. tree[r.path] = Regular(r.file)
    BY DEF RowsInv, RowsAgree, RowsHaveFiles
  <2>2. tree[r.path].kind = "reg"
    BY <1>2, <2>1, RegularIs
  <2>3. tree'[r.path] = tree[r.path]
    BY <1>1, <1>2, <2>2
  <2> QED
    BY <2>1, <2>3
<1>5. HistoryWithRow'
  BY <1>2 DEF RowsInv, RowsAgree, HistoryWithRow
<1> QED
  BY <1>3, <1>4, <1>5 DEF RowsAgree

LEMMA MknodRows ==
    ASSUME RowsInv, NEW p \in Path, NEW f \in Files, Mknod(p, f)
    PROVE  RowsAgree'
<1> DEFINE new == [path |-> p, mime_type |-> MimeInfer(p), file |-> f]
<1>1. /\ SetEntry(p, Regular(f)) /\ parted' = parted \ {p}
      /\ fileSystem' = fileSystem \cup {new} /\ fileVersions' = fileVersions \cup {p}
      /\ \A r \in fileSystem : r.path # p
  BY DEF Mknod, HasRow
<1>2. new.path = p /\ new.file = f
  OBVIOUS
<1>3. Regular(f) \in Entry /\ Regular(f).kind = "reg" /\ Regular(f).file = f
  BY EntryTypes, RegularIs
<1>4. /\ \A q \in Node \ {p} : tree'[q].kind = tree[q].kind
      /\ \A q \in Node \ {p} : tree[q].kind # "dir" => tree'[q] = tree[q]
      /\ tree'[p] = Regular(f)
  BY <1>1, <1>3, SetEntryType DEF RowsInv, TypeInv
<1>5. Path \subseteq Node /\ \A r \in fileSystem : r.path \in Path /\ r.file \in Files
  BY DEF RowsInv, TypeInv, TypeOK, SystemRow, Node
<1> HIDE DEF new
<1>6. FilesHaveRows'
  <2> SUFFICES ASSUME NEW q \in Path \ parted', tree'[q].kind = "reg"
               PROVE  \E r \in fileSystem' : r.path = q /\ r.file = tree'[q].file
    BY DEF FilesHaveRows, IsRegular
  <2>1. CASE q = p
    BY <1>1, <1>2, <1>3, <1>4, <2>1
  <2>2. CASE q # p
    <3>1. tree[q].kind = "reg" /\ tree'[q] = tree[q] /\ q \notin parted
      BY <1>1, <1>4, <1>5, <2>2
    <3>2. \E r \in fileSystem : r.path = q /\ r.file = tree[q].file
      BY <3>1 DEF RowsInv, RowsAgree, FilesHaveRows, IsRegular
    <3> QED
      BY <1>1, <3>1, <3>2
  <2> QED
    BY <2>1, <2>2
<1>7. RowsHaveFiles'
  <2> SUFFICES ASSUME NEW r \in fileSystem', r.path \notin parted'
               PROVE  tree'[r.path] = Regular(r.file)
    BY DEF RowsHaveFiles
  <2>1. CASE r = new
    BY <1>2, <1>4, <2>1
  <2>2. CASE r \in fileSystem
    <3>1. r.path # p /\ tree[r.path] = Regular(r.file)
      BY <1>1, <2>2 DEF RowsInv, RowsAgree, RowsHaveFiles
    <3>2. tree[r.path].kind = "reg"
      BY <1>5, <2>2, <3>1, RegularIs
    <3> QED
      BY <1>4, <1>5, <2>2, <3>1, <3>2
  <2> QED
    BY <1>1, <2>1, <2>2
<1>8. HistoryWithRow'
  BY <1>1, <1>2 DEF RowsInv, RowsAgree, HistoryWithRow
<1> QED
  BY <1>6, <1>7, <1>8 DEF RowsAgree

LEMMA UnlinkRows ==
    ASSUME RowsInv, NEW p \in Path, Unlink(p)
    PROVE  RowsAgree'
<1>1. /\ SetEntry(p, Absent) /\ parted' = parted \ {p} /\ fileVersions' = fileVersions
      /\ fileSystem' = {r \in fileSystem : r.path # p}
  BY DEF Unlink, RemoveFileEntry
<1>2. Absent \in Entry /\ Absent.kind = "none"
  BY EntryTypes DEF Absent
<1>3. /\ \A q \in Node \ {p} : tree'[q].kind = tree[q].kind
      /\ \A q \in Node \ {p} : tree[q].kind # "dir" => tree'[q] = tree[q]
      /\ tree'[p].kind = "none"
  BY <1>1, <1>2, SetEntryType DEF RowsInv, TypeInv
<1>4. Path \subseteq Node /\ \A r \in fileSystem : r.path \in Path /\ r.file \in Files
  BY DEF RowsInv, TypeInv, TypeOK, SystemRow, Node
<1>5. FilesHaveRows'
  <2> SUFFICES ASSUME NEW q \in Path \ parted', tree'[q].kind = "reg"
               PROVE  \E r \in fileSystem' : r.path = q /\ r.file = tree'[q].file
    BY DEF FilesHaveRows, IsRegular
  <2>1. q # p
    BY <1>3
  <2>2. tree[q].kind = "reg" /\ tree'[q] = tree[q] /\ q \notin parted
    BY <1>1, <1>3, <1>4, <2>1
  <2>3. \E r \in fileSystem : r.path = q /\ r.file = tree[q].file
    BY <2>2 DEF RowsInv, RowsAgree, FilesHaveRows, IsRegular
  <2> QED
    BY <1>1, <2>1, <2>2, <2>3
<1>6. RowsHaveFiles'
  <2> SUFFICES ASSUME NEW r \in fileSystem', r.path \notin parted'
               PROVE  tree'[r.path] = Regular(r.file)
    BY DEF RowsHaveFiles
  <2>1. r \in fileSystem /\ r.path # p /\ tree[r.path] = Regular(r.file)
    BY <1>1 DEF RowsInv, RowsAgree, RowsHaveFiles
  <2>2. tree[r.path].kind = "reg"
    BY <1>4, <2>1, RegularIs
  <2> QED
    BY <1>3, <1>4, <2>1, <2>2
<1>7. HistoryWithRow'
  BY <1>1 DEF RowsInv, RowsAgree, HistoryWithRow
<1> QED
  BY <1>5, <1>6, <1>7 DEF RowsAgree

(* What the UPDATEs of a rename do to the rows of every name. *)
LEMMA RenameRowsIs ==
    ASSUME TypeOK, NEW from \in Path, NEW to \in Path, from # to,
           RenameRows(from, to)
    PROVE  /\ \A r \in fileSystem : r.path \notin {from, to} => r \in fileSystem'
           /\ \A r \in fileSystem' : r.path \notin {from, to} => r \in fileSystem
           /\ ~HasRow(to) =>
                  /\ \A r \in fileSystem' :
                         /\ r.path # from
                         /\ r.path = to =>
                                \E s \in fileSystem : s.path = from /\ s.file = r.file
                  /\ \A s \in fileSystem : s.path = from =>
                         \E r \in fileSystem' : r.path = to /\ r.file = s.file
           /\ \A q \in Path \ {from, to} : q \in fileVersions => q \in fileVersions'
           /\ from \in fileVersions => to \in fileVersions'
<1> DEFINE moved(r) == [r EXCEPT !.path = to]
<1>1. \A r \in fileSystem : moved(r).path = to /\ moved(r).file = r.file
  BY DEF TypeOK, SystemRow
<1>2. fileSystem' = IF HasRow(from) /\ HasRow(to) THEN fileSystem
                    ELSE {IF r.path = from THEN moved(r) ELSE r : r \in fileSystem}
  BY DEF RenameRows, UpdatePath
<1>3. fileVersions' \in UpdateVersions(from, to)
  BY DEF RenameRows
<1> HIDE DEF moved
<1>4. CASE HasRow(from) /\ HasRow(to)
  BY <1>2, <1>3, <1>4 DEF UpdateVersions
<1>5. CASE ~(HasRow(from) /\ HasRow(to))
  <2>1. fileSystem' = {IF r.path = from THEN moved(r) ELSE r : r \in fileSystem}
    BY <1>2, <1>5
  <2>2. \A r \in fileSystem : r.path \notin {from, to} => r \in fileSystem'
    BY <2>1
  <2>3. \A r \in fileSystem' : r.path \notin {from, to} => r \in fileSystem
    BY <1>1, <2>1
  <2>4. ASSUME ~HasRow(to), NEW r \in fileSystem'
        PROVE  /\ r.path # from
               /\ r.path = to =>
                      \E s \in fileSystem : s.path = from /\ s.file = r.file
    <3>1. PICK s \in fileSystem : r = IF s.path = from THEN moved(s) ELSE s
      BY <2>1
    <3>2. s.path # to
      BY <2>4 DEF HasRow
    <3> QED
      BY <1>1, <3>1, <3>2
  <2>5. ASSUME NEW s \in fileSystem, s.path = from
        PROVE  \E r \in fileSystem' : r.path = to /\ r.file = s.file
    <3>1. moved(s) \in fileSystem'
      BY <2>1, <2>5
    <3> QED
      BY <1>1, <3>1
  <2> QED
    BY <1>3, <2>2, <2>3, <2>4, <2>5 DEF UpdateVersions
<1> QED
  BY <1>4, <1>5

LEMMA RenameRowsAgree ==
    ASSUME RowsInv, NEW from \in Path, NEW to \in Path, Rename(from, to)
    PROVE  RowsAgree'
<1> DEFINE Else == Node \ ({from, to} \cup Below(from) \cup Below(to))
<1>1. /\ \A q \in {from} \cup Below(from) : tree'[q] = Absent
      /\ tree'[to].kind = tree[from].kind
      /\ tree[from].kind # "dir" => tree'[to] = tree[from]
      /\ \A q \in Below(to) :
             tree'[q].kind = IF Image(q, to, from) \in Path
                             THEN tree[Image(q, to, from)].kind ELSE "none"
      /\ \A q \in Else : /\ tree'[q].kind = tree[q].kind
                         /\ tree[q].kind # "dir" => tree'[q] = tree[q]
  BY MovedTreeIs DEF RowsInv, TypeInv
<1>2. /\ from # to /\ RenameRows(from, to) /\ parted' = parted \cup Parts(from, to)
      /\ \A q \in Below(to) : tree[q].kind = "none"
      /\ ~SameFile(from, to)
  BY DEF Rename, Renamable, Empty, IsAbsent
<1>3. /\ Path \subseteq Node
      /\ \A r \in fileSystem : r.path \in Path /\ r.file \in Files
      /\ fileSystem' \subseteq SystemRow
  BY <1>2, RenameRowsType DEF RowsInv, TypeInv, TypeOK, SystemRow, Node
<1>4. \A r \in fileSystem' : r.path \in Path /\ r.file \in Files
  BY <1>3 DEF SystemRow
<1>5. /\ \A q \in Below(from) : tree[q].kind = "reg" => q \in parted'
      /\ \A q \in Below(to) :
             Image(q, to, from) \in Path /\ tree[Image(q, to, from)].kind = "reg"
                 => q \in parted'
      /\ \A q \in parted : q \in parted'
  BY <1>2 DEF Parts, IsRegular
<1>6. \/ from \in parted' /\ to \in parted'
      \/ ~HasRow(to) /\ from \notin parted /\ to \notin parted
  BY <1>2 DEF Parts
<1>7. /\ \A r \in fileSystem : r.path \notin {from, to} => r \in fileSystem'
      /\ \A r \in fileSystem' : r.path \notin {from, to} => r \in fileSystem
      /\ ~HasRow(to) =>
             /\ \A r \in fileSystem' :
                    /\ r.path # from
                    /\ r.path = to =>
                           \E s \in fileSystem : s.path = from /\ s.file = r.file
             /\ \A s \in fileSystem : s.path = from =>
                    \E r \in fileSystem' : r.path = to /\ r.file = s.file
      /\ \A q \in Path \ {from, to} : q \in fileVersions => q \in fileVersions'
      /\ from \in fileVersions => to \in fileVersions'
  BY <1>2, RenameRowsIs DEF RowsInv, TypeInv
<1>8. /\ \A q \in Path \ parted : tree[q].kind = "reg" =>
             \E r \in fileSystem : r.path = q /\ r.file = tree[q].file
      /\ \A r \in fileSystem : r.path \notin parted =>
             /\ tree[r.path] = Regular(r.file) /\ tree[r.path].kind = "reg"
             /\ r.path \in fileVersions
  BY <1>3, RegularIs
     DEF RowsInv, RowsAgree, FilesHaveRows, RowsHaveFiles, HistoryWithRow, IsRegular
<1>9. Absent.kind = "none"
  BY DEF Absent
<1> HIDE DEF Else
<1>10. FilesHaveRows'
  <2> SUFFICES ASSUME NEW q \in Path \ parted', tree'[q].kind = "reg"
               PROVE  \E r \in fileSystem' : r.path = q /\ r.file = tree'[q].file
    BY DEF FilesHaveRows, IsRegular
  <2>1. q # from /\ q \notin Below(from)
    BY <1>1, <1>9
  <2>2. q \notin Below(to)
    BY <1>1, <1>5
  <2>3. CASE q = to
    <3>1. /\ ~HasRow(to) /\ from \notin parted
          /\ tree'[to] = tree[from] /\ tree[from].kind = "reg"
      BY <1>1, <1>6, <2>3
    <3>2. \E s \in fileSystem : s.path = from /\ s.file = tree[from].file
      BY <1>8, <3>1
    <3> QED
      BY <1>7, <2>3, <3>1, <3>2
  <2>4. CASE q # to
    <3>1. q \in Else
      BY <1>3, <2>1, <2>2, <2>4 DEF Else
    <3>2. tree[q].kind = "reg" /\ tree'[q] = tree[q] /\ q \notin parted
      BY <1>1, <1>5, <3>1
    <3>3. PICK r \in fileSystem : r.path = q /\ r.file = tree[q].file
      BY <1>8, <3>2
    <3> QED
      BY <1>7, <2>1, <2>4, <3>2, <3>3
  <2> QED
    BY <2>3, <2>4
<1>11. ASSUME NEW r \in fileSystem', r.path \notin parted'
       PROVE  tree'[r.path] = Regular(r.file) /\ r.path \in fileVersions'
  <2>1. CASE r.path \in {from, to}
    <3>1. ~HasRow(to) /\ from \notin parted
      BY <1>6, <1>11, <2>1
    <3>2. r.path = to
      BY <1>7, <2>1, <3>1
    <3>3. PICK s \in fileSystem : s.path = from /\ s.file = r.file
      BY <1>7, <3>1, <3>2
    <3>4. /\ tree[from] = Regular(r.file) /\ tree[from].kind = "reg"
          /\ from \in fileVersions
      BY <1>8, <3>1, <3>3
    <3> QED
      BY <1>1, <1>7, <3>2, <3>4
  <2>2. CASE r.path \notin {from, to}
    <3>1. r \in fileSystem /\ r.path \notin parted /\ r.path \in Path
      BY <1>4, <1>5, <1>7, <1>11, <2>2
    <3>2. /\ tree[r.path] = Regular(r.file) /\ tree[r.path].kind = "reg"
          /\ r.path \in fileVersions
      BY <1>8, <3>1
    <3>3. r.path \in Else
      BY <1>2, <1>3, <1>5, <1>11, <2>2, <3>1, <3>2 DEF Else
    <3> QED
      BY <1>1, <1>7, <2>2, <3>1, <3>2, <3>3
  <2> QED
    BY <2>1, <2>2
<1>12. RowsHaveFiles' /\ HistoryWithRow'
  BY <1>11 DEF RowsHaveFiles, HistoryWithRow
<1> QED
  BY <1>10, <1>12 DEF RowsAgree

LEMMA RenameOnlyRowsAgree ==
    ASSUME RowsInv, NEW from \in Path, NEW to \in Path, RenameRowsOnly(from, to)
    PROVE  RowsAgree'
<1>1. /\ from # to /\ RenameRows(from, to) /\ tree' = tree
      /\ IsDir(to) \/ SameFile(from, to)
      /\ IsDir(to) => IsDir(from)
      /\ \A q \in parted : q \in parted'
      /\ \/ from \in parted' /\ to \in parted'
         \/ /\ ~HasRow(to) /\ from \notin parted /\ to \notin parted
            /\ ~SameFile(from, to)
  BY DEF RenameRowsOnly, Renamable, IsDir, IsAbsent
<1>2. /\ \A r \in fileSystem : r.path \notin {from, to} => r \in fileSystem'
      /\ \A r \in fileSystem' : r.path \notin {from, to} => r \in fileSystem
      /\ ~HasRow(to) =>
             \A r \in fileSystem' :
                 /\ r.path # from
                 /\ r.path = to => \E s \in fileSystem : s.path = from
      /\ \A q \in Path \ {from, to} : q \in fileVersions => q \in fileVersions'
  BY <1>1, RenameRowsIs DEF RowsInv, TypeInv
<1>3. \A r \in fileSystem : r.path \in Path /\ r.file \in Files
  BY DEF RowsInv, TypeInv, TypeOK, SystemRow
<1>4. /\ \A q \in Path \ parted : tree[q].kind = "reg" =>
             \E r \in fileSystem : r.path = q /\ r.file = tree[q].file
      /\ \A r \in fileSystem : r.path \notin parted =>
             /\ tree[r.path] = Regular(r.file) /\ tree[r.path].kind = "reg"
             /\ r.path \in fileVersions
  BY <1>3, RegularIs
     DEF RowsInv, RowsAgree, FilesHaveRows, RowsHaveFiles, HistoryWithRow, IsRegular
<1>5. CASE from \in parted' /\ to \in parted'
  <2>1. FilesHaveRows'
    <3> SUFFICES ASSUME NEW q \in Path \ parted', tree[q].kind = "reg"
                 PROVE  \E r \in fileSystem' : r.path = q /\ r.file = tree[q].file
      BY <1>1 DEF FilesHaveRows, IsRegular
    <3>1. PICK r \in fileSystem : r.path = q /\ r.file = tree[q].file
      BY <1>1, <1>4
    <3> QED
      BY <1>2, <1>5, <3>1
  <2>2. ASSUME NEW r \in fileSystem', r.path \notin parted'
        PROVE  tree[r.path] = Regular(r.file) /\ r.path \in fileVersions'
    BY <1>1, <1>2, <1>3, <1>4, <1>5, <2>2
  <2> QED
    BY <1>1, <2>1, <2>2 DEF RowsAgree, RowsHaveFiles, HistoryWithRow
<1>6. CASE /\ ~HasRow(to) /\ from \notin parted /\ to \notin parted
           /\ ~SameFile(from, to)
  <2>1. tree[from].kind = "dir" /\ tree[to].kind = "dir"
    BY <1>1, <1>6 DEF IsDir
  <2>2. \A r \in fileSystem : r.path \notin {from, to}
    BY <1>4, <1>6, <2>1 DEF HasRow
  <2>3. fileSystem' = fileSystem /\ \A r \in fileSystem' : r.path \notin {from, to}
    BY <1>2, <1>6, <2>2
  <2>4. FilesHaveRows'
    <3> SUFFICES ASSUME NEW q \in Path \ parted', tree[q].kind = "reg"
                 PROVE  \E r \in fileSystem : r.path = q /\ r.file = tree[q].file
      BY <1>1, <2>3 DEF FilesHaveRows, IsRegular
    <3> QED
      BY <1>1, <1>4
  <2>5. ASSUME NEW r \in fileSystem', r.path \notin parted'
        PROVE  tree[r.path] = Regular(r.file) /\ r.path \in fileVersions'
    BY <1>1, <1>2, <1>3, <1>4, <2>3, <2>5
  <2> QED
    BY <1>1, <2>4, <2>5 DEF RowsAgree, RowsHaveFiles, HistoryWithRow
<1> QED
  BY <1>1, <1>5, <1>6

LEMMA RowsInit == ASSUME Init PROVE RowsInv
<1>1. \A q \in Path : tree[q] = Absent
  BY RootNotInPath DEF Init, Node
<1>2. FilesHaveRows
  BY <1>1 DEF FilesHaveRows, IsRegular, Absent
<1> QED
  BY <1>2, TypeInit DEF Init, RowsInv, RowsAgree, RowsHaveFiles, HistoryWithRow

(* A step that changes nothing of which files there are, nor any row. *)
LEMMA SameRows ==
    ASSUME RowsInv, UNCHANGED tables, UNCHANGED parted,
           \A q \in Path : tree'[q].kind = tree[q].kind,
           \A q \in Path : tree[q].kind = "reg" => tree'[q] = tree[q]
    PROVE  RowsAgree'
<1>1. fileSystem' = fileSystem /\ fileVersions' = fileVersions /\ parted' = parted
  BY DEF tables
<1>2. \A r \in fileSystem : r.path \in Path /\ r.file \in Files
  BY DEF RowsInv, TypeInv, TypeOK, SystemRow
<1>3. FilesHaveRows'
  BY <1>1 DEF RowsInv, RowsAgree, FilesHaveRows, IsRegular
<1>4. RowsHaveFiles'
  BY <1>1, <1>2, RegularIs DEF RowsInv, RowsAgree, RowsHaveFiles
<1>5. HistoryWithRow'
  BY <1>1 DEF RowsInv, RowsAgree, HistoryWithRow
<1> QED
  BY <1>3, <1>4, <1>5 DEF RowsAgree

LEMMA RowsStep == ASSUME RowsInv, [Next]_vars PROVE RowsInv'
<1>1. TypeInv' /\ TypeOK
  BY TypeStep DEF RowsInv, TypeInv
<1> SUFFICES RowsAgree'
  BY <1>1 DEF RowsInv
<1>2. ASSUME NEW p \in Path, NEW f \in Files, Mknod(p, f) PROVE RowsAgree'
  BY <1>2, MknodRows
<1>3. ASSUME NEW p \in Path, Symlink(p) PROVE RowsAgree'
  <2>1. /\ SetEntry(p, SymLink) /\ tree[p].kind # "reg" /\ UNCHANGED tables
        /\ parted \subseteq parted'
    BY <1>3 DEF Symlink, Free, IsAbsent, tables
  <2>2. SymLink \in Entry /\ SymLink.kind # "reg"
    BY EntryTypes DEF SymLink
  <2> QED
    BY <2>1, <2>2, EntryRows
<1>4. ASSUME NEW from \in Path, NEW to \in Path, Link(from, to) PROVE RowsAgree'
  <2>1. /\ SetEntry(to, tree[from]) /\ tree[to].kind # "reg" /\ UNCHANGED tables
        /\ parted \subseteq parted'
        /\ tree[from].kind = "reg" => to \in parted'
    BY <1>4 DEF Link, Free, IsAbsent, IsRegular, tables
  <2>2. tree[from] \in Entry
    BY <1>1 DEF TypeOK, Node
  <2> QED
    BY <2>1, <2>2, EntryRows
<1>5. ASSUME NEW p \in Path, Unlink(p) PROVE RowsAgree'
  BY <1>5, UnlinkRows
<1>6. ASSUME NEW p \in Path, Mkdir(p) PROVE RowsAgree'
  <2>1. /\ SetEntry(p, Directory(clock, FALSE)) /\ tree[p].kind # "reg"
        /\ UNCHANGED tables /\ parted \subseteq parted'
    BY <1>6 DEF Mkdir, Free, IsAbsent, tables
  <2>2. Directory(clock, FALSE) \in Entry
    BY <1>1, EntryTypes DEF TypeOK
  <2>3. Directory(clock, FALSE).kind # "reg"
    BY DEF Directory
  <2> QED
    BY <2>1, <2>2, <2>3, EntryRows
<1>7. ASSUME NEW p \in Path, Rmdir(p) PROVE RowsAgree'
  <2>1. /\ SetEntry(p, Absent) /\ tree[p].kind # "reg" /\ UNCHANGED tables
        /\ parted \subseteq parted'
    BY <1>7 DEF Rmdir, IsDir, tables
  <2>2. Absent \in Entry /\ Absent.kind # "reg"
    BY EntryTypes DEF Absent
  <2> QED
    BY <2>1, <2>2, EntryRows
<1>8. ASSUME NEW from \in Path, NEW to \in Path, Rename(from, to) PROVE RowsAgree'
  BY <1>8, RenameRowsAgree
<1>9. ASSUME NEW from \in Path, NEW to \in Path, RenameRowsOnly(from, to)
      PROVE  RowsAgree'
  BY <1>9, RenameOnlyRowsAgree
<1>10. ASSUME NEW d \in Node, NEW t \in 0..MaxClock, Utimens(d, t) PROVE RowsAgree'
  <2>1. /\ tree' = [tree EXCEPT ![d] = Directory(t, TRUE)] /\ tree[d].kind = "dir"
        /\ UNCHANGED tables /\ UNCHANGED parted
    BY <1>10 DEF Utimens, IsDir, tables
  <2>2. Directory(t, TRUE).kind = "dir"
    BY DEF Directory
  <2>3. tree \in [Node -> Entry] /\ Path \subseteq Node
    BY <1>1 DEF TypeOK, Node
  <2>4. /\ \A q \in Path : tree'[q].kind = tree[q].kind
        /\ \A q \in Path : tree[q].kind = "reg" => tree'[q] = tree[q]
    BY <2>1, <2>2, <2>3
  <2> QED
    BY <2>1, <2>4, SameRows
<1>11. ASSUME UNCHANGED <<tree, tables, parted>> PROVE RowsAgree'
  BY <1>11, SameRows
<1>12. ASSUME NEW d \in Node, NEW ending \in BOOLEAN, OpenDir(d, ending)
       PROVE  RowsAgree'
  BY <1>11, <1>12 DEF OpenDir
<1>13. ASSUME ListDir \/ ReplyDir \/ Tick \/ UNCHANGED vars PROVE RowsAgree'
  BY <1>11, <1>13 DEF ListDir, ReplyDir, Tick, vars, tables
<1> QED
  BY <1>2, <1>3, <1>4, <1>5, <1>6, <1>7, <1>8, <1>9, <1>10, <1>12, <1>13 DEF Next

(* A file that kept clear of links, directory moves and renames onto rows has its *)
(* row, in every tree of directories.                                             *)
THEOREM FilesFound == Spec => []FilesHaveRows
<1>1. RowsInv => FilesHaveRows
  BY DEF RowsInv, RowsAgree
<1> QED
  BY <1>1, RowsInit, RowsStep, PTL DEF Spec

(* ... and its row is about that file; no directory, link or free name has one. *)
THEOREM RowsTrue == Spec => []RowsHaveFiles
<1>1. RowsInv => RowsHaveFiles
  BY DEF RowsInv, RowsAgree
<1> QED
  BY <1>1, RowsInit, RowsStep, PTL DEF Spec

(* ... and its versions are under its name. *)
THEOREM HistoryFound == Spec => []HistoryWithRow
<1>1. RowsInv => HistoryWithRow
  BY DEF RowsInv, RowsAgree
<1> QED
  BY <1>1, RowsInit, RowsStep, PTL DEF Spec

-----------------------------------------------------------------------------
(* Versions of listings *)

LEMMA ImageParent ==
    ASSUME NEW from \in Path, NEW to \in Path, NEW q \in Below(from)
    PROVE  /\ Parent(Image(q, from, to)) = Image(Parent(q), from, to)
           /\ Name(Image(q, from, to)) = Name(q)
<1> DEFINE m == Image(q, from, to)
           u == Parent(q)
           n == Image(u, from, to)
<1>1. /\ from \in Seq(Component) /\ to \in Seq(Component) /\ q \in Seq(Component)
      /\ Len(from) \in Nat \ {0} /\ Len(to) \in Nat \ {0} /\ Len(q) \in Nat \ {0}
      /\ q \in Path
  BY PathIsSeq DEF Below
<1>2. Len(q) > Len(from) /\ \A i \in 1..Len(from) : q[i] = from[i]
  BY <1>1, BelowIs
<1>3. /\ m \in Seq(Component) /\ Len(m) = Len(to) + Len(q) - Len(from)
      /\ \A i \in 1..Len(to) : m[i] = to[i]
      /\ \A i \in 1..Len(q) - Len(from) : m[Len(to) + i] = q[Len(from) + i]
  <2>1. Len(from) <= Len(q)
    BY <1>1, <1>2
  <2> QED
    BY <1>1, <2>1, ImageProperties
<1>4. /\ u \in Seq(Component) /\ Len(u) = Len(q) - 1
      /\ \A i \in 1..Len(q) - 1 : u[i] = q[i]
  BY <1>1, ParentIs
<1> HIDE DEF u
<1>5. /\ n \in Seq(Component) /\ Len(n) = Len(to) + Len(u) - Len(from)
      /\ \A i \in 1..Len(to) : n[i] = to[i]
      /\ \A i \in 1..Len(u) - Len(from) : n[Len(to) + i] = u[Len(from) + i]
  <2>1. Len(from) <= Len(u)
    BY <1>1, <1>2, <1>4
  <2>2. from \in Seq(Component) /\ to \in Seq(Component) /\ u \in Seq(Component)
    BY <1>1, <1>4
  <2> QED
    BY <2>1, <2>2, ImageProperties, Zenon
<1> HIDE DEF m, n
<1>6. /\ SubSeq(m, 1, Len(m) - 1) \in Seq(Component)
      /\ Len(SubSeq(m, 1, Len(m) - 1)) = Len(m) - 1
      /\ \A i \in 1..Len(m) - 1 : SubSeq(m, 1, Len(m) - 1)[i] = m[i]
  <2>1. Len(m) - 1 \in Nat /\ Len(m) - 1 <= Len(m)
    BY <1>1, <1>2, <1>3
  <2> QED
    BY <1>3, <2>1, Rest
<1>7. Len(n) = Len(m) - 1 /\ Len(m) - 1 \in Nat
  BY <1>1, <1>2, <1>3, <1>4, <1>5
<1>8. ASSUME NEW i \in 1..Len(n)
      PROVE  m[i] = n[i]
  <2>1. CASE i <= Len(to)
    BY <1>1, <1>3, <1>5, <2>1
  <2>2. CASE ~(i <= Len(to))
    <3> DEFINE k == i - Len(to)
    <3>1. /\ k \in 1..Len(q) - Len(from) /\ k \in 1..Len(u) - Len(from)
          /\ Len(to) + k = i /\ Len(from) + k \in 1..Len(q) - 1
      BY <1>1, <1>2, <1>3, <1>4, <1>7, <2>2
    <3> HIDE DEF k
    <3>2. m[Len(to) + k] = q[Len(from) + k] /\ n[Len(to) + k] = u[Len(from) + k]
      BY <1>3, <1>5, <3>1
    <3> QED
      BY <1>4, <3>1, <3>2
  <2> QED
    BY <2>1, <2>2
<1>9. SubSeq(m, 1, Len(m) - 1) = n
  BY <1>5, <1>6, <1>7, <1>8, Same
<1>10. m[Len(m)] = q[Len(q)]
  <2>1. /\ Len(q) - Len(from) \in 1..Len(q) - Len(from)
        /\ Len(from) + (Len(q) - Len(from)) = Len(q)
        /\ Len(to) + (Len(q) - Len(from)) = Len(m)
    BY <1>1, <1>2, <1>3
  <2> QED
    BY <1>3, <2>1
<1> QED
  BY <1>9, <1>10 DEF Parent, Name, m, n, u

(* The date of a directory after a step: as before, or the present second. *)
LEMMA TouchDate ==
    ASSUME NEW t \in [Node -> Entry], NEW ds, tree' = Touch(t, ds)
    PROVE  \A q \in Node :
               IF q \in ds /\ t[q].kind = "dir" THEN tree'[q] = Directory(clock, FALSE)
               ELSE tree'[q] = t[q]
BY DEF Touch

LEMMA NamesKept ==
    ASSUME NEW d,
           \A q \in Path : Parent(q) = d =>
               (tree'[q].kind = "none" <=> tree[q].kind = "none")
    PROVE  NamesIn({d})' = NamesIn({d})
BY DEF NamesIn, Children, IsAbsent

\* While its date is older than the second of the lstat nothing has changed in
\* the directory since it was read.
ListingFresh ==
    /\ listing # IdleListing =>
           \A d, g \in listing.at : d = g
    /\ listing.pc \in {"read", "reply"} => listing.asked <= clock
    /\ listing.pc = "reply" =>
           \A d \in listing.at :
               (~tree[d].dated /\ tree[d].mtime < listing.asked)
               => listing.names = NamesIn({d})

ListInv == TypeInv /\ ListingFresh

(* The directory at d in the tree before a step is at g after it. *)
StillFresh(d, g) ==
    \/ tree'[g].dated = FALSE /\ tree'[g].mtime = clock
    \/ tree'[g].dated = TRUE
    \/ tree'[g] = tree[d] /\ NamesIn({g})' = NamesIn({d})

LEMMA FreshStep ==
    ASSUME ListInv, listing # IdleListing, clock' = clock,
           NEW at \in SUBSET Node, listing' = [listing EXCEPT !.at = at],
           \A g, h \in at : g = h,
           \A g \in at : \E d \in listing.at : StillFresh(d, g)
    PROVE  ListingFresh'
<1>1. /\ listing \in Listing /\ listing.at \in SUBSET Node
      /\ listing.pc = "stat" =>
             listing \in [pc : {"stat"}, path : Node, at : SUBSET Node]
      /\ listing.pc = "read" =>
             listing \in [pc : {"read"}, at : SUBSET Node, version : Nat, asked : Nat]
      /\ listing.pc = "reply" =>
             listing \in [pc : {"reply"}, at : SUBSET Node, version : Nat,
                          asked : Nat, names : SUBSET DOMAIN Extension]
  BY ListingParts DEF ListInv, TypeInv
<1>2. listing'.at = at /\ listing' # IdleListing
  BY <1>1, ListingAt
<1>3. clock \in Nat
  BY DEF ListInv, TypeInv, TypeOK
<1>4. CASE listing.pc = "stat"
  <2>1. listing'.pc = "stat"
    BY <1>1, <1>4
  <2> QED
    BY <1>2, <2>1 DEF ListingFresh
<1>5. CASE listing.pc = "read"
  <2>1. listing'.pc = "read" /\ listing'.asked = listing.asked
    BY <1>1, <1>5
  <2> QED
    BY <1>2, <1>5, <2>1 DEF ListInv, ListingFresh
<1>6. CASE listing.pc = "reply"
  <2>1. /\ listing'.pc = "reply" /\ listing'.asked = listing.asked
        /\ listing'.names = listing.names /\ listing.asked \in Nat
        /\ listing.asked <= clock
    BY <1>1, <1>6 DEF ListInv, ListingFresh
  <2>2. ASSUME NEW g \in at, ~tree'[g].dated, tree'[g].mtime < listing.asked
        PROVE  listing.names = NamesIn({g})'
    <3>1. tree'[g].mtime # clock
      BY <1>3, <2>1, <2>2
    <3>2. PICK d \in listing.at : tree'[g] = tree[d] /\ NamesIn({g})' = NamesIn({d})
      BY <2>2, <3>1 DEF StillFresh
    <3>3. listing.names = NamesIn({d})
      BY <1>6, <2>2, <3>2 DEF ListInv, ListingFresh
    <3> QED
      BY <3>2, <3>3
  <2> QED
    BY <1>2, <2>1, <2>2 DEF ListingFresh
<1> QED
  BY <1>1, <1>4, <1>5, <1>6 DEF Listing

(* One entry changes. *)
LEMMA FreshEntry ==
    ASSUME ListInv, NEW p \in Path, NEW e \in Entry, SetEntry(p, e), clock' = clock,
           \/ tree[p].kind # "dir" /\ listing' = listing
           \/ Forget(p)
    PROVE  ListingFresh'
<1>1. CASE listing = IdleListing
  <2>1. listing' = IdleListing
    BY <1>1 DEF Forget
  <2> QED
    BY <2>1 DEF ListingFresh, IdleListing
<1>2. CASE listing # IdleListing
  <2>1. /\ listing \in Listing /\ listing.at \in SUBSET Node
        /\ \A q \in listing.at : tree[q].kind = "dir"
        /\ \A d, g \in listing.at : d = g
        /\ tree \in [Node -> Entry] /\ p \in Node
    BY <1>2, ListingParts
       DEF ListInv, TypeInv, TypeOK, ListingOpen, ListingFresh, Node
  <2>2. PICK at : /\ at \subseteq listing.at /\ p \notin at
                  /\ listing' = [listing EXCEPT !.at = at]
    <3>1. CASE Forget(p)
      BY <1>2, <3>1 DEF Forget
    <3>2. CASE tree[p].kind # "dir" /\ listing' = listing
      <4>1. listing = [listing EXCEPT !.at = listing.at]
        BY <2>1 DEF Listing
      <4> QED
        BY <2>1, <3>2, <4>1
    <3> QED
      BY <3>1, <3>2
  <2>3. PICK t : t = [tree EXCEPT ![p] = e]
    OBVIOUS
  <2>4. t \in [Node -> Entry] /\ t[p] = e /\ \A q \in Node \ {p} : t[q] = tree[q]
    BY <2>1, <2>3
  <2>5. tree' = Touch(t, {Parent(p)})
    BY <2>3 DEF SetEntry
  <2>6. \A q \in Node :
            IF q \in {Parent(p)} /\ t[q].kind = "dir"
            THEN tree'[q] = Directory(clock, FALSE) ELSE tree'[q] = t[q]
    BY <2>4, <2>5, TouchDate
  <2>7. \A q \in Node \ {p} : tree'[q].kind = tree[q].kind
    BY <2>4, <2>6 DEF Directory
  <2>8. ASSUME NEW g \in at
        PROVE  \E d \in listing.at : StillFresh(d, g)
    <3>1. g \in listing.at /\ g \in Node /\ g # p /\ tree[g].kind = "dir"
      BY <2>1, <2>2
    <3>2. CASE g = Parent(p)
      <4>1. tree'[g] = Directory(clock, FALSE)
        BY <2>4, <2>6, <3>1, <3>2
      <4>2. tree'[g].dated = FALSE /\ tree'[g].mtime = clock
        BY <4>1 DEF Directory
      <4> QED
        BY <3>1, <4>2 DEF StillFresh
    <3>3. CASE g # Parent(p)
      <4>1. tree'[g] = tree[g]
        BY <2>4, <2>6, <3>1, <3>3
      <4>2. \A q \in Path : Parent(q) = g =>
                (tree'[q].kind = "none" <=> tree[q].kind = "none")
        BY <2>7, <3>3 DEF Node
      <4>3. NamesIn({g})' = NamesIn({g})
        BY <4>2, NamesKept
      <4> QED
        BY <3>1, <4>1, <4>3 DEF StillFresh
    <3> QED
      BY <3>2, <3>3
  <2>9. at \in SUBSET Node /\ \A g, h \in at : g = h
    BY <2>1, <2>2
  <2> QED
    BY <1>2, <2>2, <2>8, <2>9, FreshStep
<1> QED
  BY <1>1, <1>2

(* A rename, which may move the directory that is being listed. *)
LEMMA FreshRename ==
    ASSUME ListInv, NEW from \in Path, NEW to \in Path, Rename(from, to)
    PROVE  ListingFresh'
<1> DEFINE Else == Node \ ({from, to} \cup Below(from) \cup Below(to))
           ds   == {Parent(from), Parent(to)}
<1>1. /\ \A q \in Below(from) : IsAbsent(q) \/ Image(q, from, to) \in Path
      /\ \A q \in Below(to) : IsAbsent(q)
      /\ Follow(from, to) /\ clock' = clock
      /\ from # to /\ to \notin Below(from) /\ from \notin Below(to)
      /\ tree' = Touch(MovedTree(from, to), ds)
  BY DEF Rename, Renamable, Empty
<1>2. CASE listing = IdleListing
  <2>1. listing' = IdleListing
    BY <1>1, <1>2 DEF Follow
  <2> QED
    BY <2>1 DEF ListingFresh, IdleListing
<1>3. CASE listing # IdleListing
  <2>1. /\ listing \in Listing /\ listing.at \in SUBSET Node
        /\ \A q \in listing.at : tree[q].kind = "dir"
        /\ \A d, g \in listing.at : d = g
        /\ tree \in [Node -> Entry]
    BY <1>3, ListingParts DEF ListInv, TypeInv, TypeOK, ListingOpen, ListingFresh
  <2>2. /\ Below(from) \subseteq Path /\ Below(to) \subseteq Path
        /\ Path \subseteq Node /\ from \in Node /\ to \in Node
        /\ Below(from) \cap Below(to) = {} /\ to \notin Below(to)
        /\ from \in Seq(Component) /\ to \in Seq(Component)
    BY <1>1, Disjoint, PathIsSeq DEF Below, Node
  <2>3. PICK t : t = MovedTree(from, to)
    OBVIOUS
  <2>4. t \in [Node -> Entry]
    <3>1. \A q \in Node : t[q] \in Entry
      BY <2>1, <2>2, <2>3, EntryTypes DEF MovedTree
    <3> QED
      BY <2>3, <3>1 DEF MovedTree
  <2>5. /\ t[to] = tree[from]
        /\ \A q \in {from} \cup Below(from) : t[q] = Absent
        /\ \A q \in Below(to) :
               t[q] = IF Image(q, to, from) \in Path THEN tree[Image(q, to, from)]
                      ELSE Absent
        /\ \A q \in Else : t[q] = tree[q]
    BY <1>1, <2>2, <2>3 DEF MovedTree
  <2>6. \A q \in Node :
            IF q \in ds /\ t[q].kind = "dir"
            THEN tree'[q] = Directory(clock, FALSE) ELSE tree'[q] = t[q]
    BY <1>1, <2>3, <2>4, TouchDate
  <2>7. /\ Directory(clock, FALSE).kind = "dir" /\ Absent.kind = "none"
        /\ Directory(clock, FALSE).dated = FALSE
        /\ Directory(clock, FALSE).mtime = clock
    BY DEF Directory, Absent
  <2>8. \A q \in Node : tree'[q].kind = t[q].kind
    BY <2>6, <2>7
  <2> HIDE DEF Else, ds
  <2>9. ASSUME NEW d \in listing.at \ {to}, d # from, d \notin Below(from)
        PROVE  StillFresh(d, d)
    <3>1. d \in Node /\ tree[d].kind = "dir"
      BY <2>1
    <3>2. d \notin Below(to)
      BY <1>1, <3>1 DEF IsAbsent
    <3>3. d \in Else
      BY <2>9, <3>1, <3>2 DEF Else
    <3>4. CASE d \in ds
      BY <2>5, <2>6, <2>7, <3>1, <3>3, <3>4 DEF StillFresh
    <3>5. CASE d \notin ds
      <4>1. tree'[d] = tree[d]
        BY <2>5, <2>6, <3>1, <3>3, <3>5
      <4>2. ASSUME NEW q \in Path, Parent(q) = d
            PROVE  tree'[q].kind = "none" <=> tree[q].kind = "none"
        <5>1. q # from /\ q # to
          BY <3>5, <4>2 DEF ds
        <5>2. q \notin Below(from) /\ q \notin Below(to)
          BY <2>9, <3>2, <4>2, ParentBelow
        <5>3. q \in Else
          BY <2>2, <5>1, <5>2 DEF Else
        <5> QED
          BY <2>2, <2>5, <2>8, <5>3
      <4>3. NamesIn({d})' = NamesIn({d})
        BY <4>2, NamesKept
      <4> QED
        BY <4>1, <4>3 DEF StillFresh
    <3> QED
      BY <3>4, <3>5
  <2>10. ASSUME NEW d \in listing.at \ {to}, d = from \/ d \in Below(from)
         PROVE  StillFresh(d, Image(d, from, to)) /\ Image(d, from, to) \in Node
    <3>0. PICK g : g = Image(d, from, to)
      OBVIOUS
    <3>1. tree[d].kind = "dir" /\ d \in Path
      BY <2>1, <2>2, <2>10
    <3>2. /\ g \in Path /\ (g = to \/ g \in Below(to))
          /\ Image(g, to, from) = d
      <4>1. CASE d = from
        BY <2>2, <3>0, <4>1, ImageOfSelf
      <4>2. CASE d \in Below(from)
        BY <1>1, <3>0, <3>1, <4>2, ImageBelow DEF IsAbsent
      <4> QED
        BY <2>10, <4>1, <4>2
    <3>3. t[g] = tree[d]
      <4>1. CASE g = to
        <5>1. d = from
          BY <2>2, <3>2, <4>1, ImageOfSelf
        <5> QED
          BY <2>5, <4>1, <5>1
      <4>2. CASE g \in Below(to)
        BY <2>5, <3>1, <3>2, <4>2
      <4> QED
        BY <3>2, <4>1, <4>2
    <3>4. \A q \in Path : Parent(q) = d /\ tree[q].kind # "none" =>
              /\ Image(q, from, to) \in Path
              /\ Parent(Image(q, from, to)) = g
              /\ Name(Image(q, from, to)) = Name(q)
              /\ tree'[Image(q, from, to)].kind # "none"
      <4> SUFFICES ASSUME NEW q \in Path, Parent(q) = d, tree[q].kind # "none"
                   PROVE  /\ Image(q, from, to) \in Path
                          /\ Parent(Image(q, from, to)) = g
                          /\ Name(Image(q, from, to)) = Name(q)
                          /\ tree'[Image(q, from, to)].kind # "none"
        OBVIOUS
      <4>1. q \in Below(from)
        BY <2>10, ParentBelow
      <4>2. Image(q, from, to) \in Path
        BY <1>1, <4>1 DEF IsAbsent
      <4>3. /\ Image(q, from, to) \in Below(to)
            /\ Image(Image(q, from, to), to, from) = q
        BY <4>1, <4>2, ImageBelow
      <4>4. tree'[Image(q, from, to)].kind = tree[q].kind
        BY <2>2, <2>5, <2>8, <4>2, <4>3
      <4> QED
        BY <3>0, <4>1, <4>2, <4>4, ImageParent
    <3>5. \A q \in Path : Parent(q) = g /\ tree'[q].kind # "none" =>
              /\ Image(q, to, from) \in Path
              /\ Parent(Image(q, to, from)) = d
              /\ Name(Image(q, to, from)) = Name(q)
              /\ tree[Image(q, to, from)].kind # "none"
      <4> SUFFICES ASSUME NEW q \in Path, Parent(q) = g, tree'[q].kind # "none"
                   PROVE  /\ Image(q, to, from) \in Path
                          /\ Parent(Image(q, to, from)) = d
                          /\ Name(Image(q, to, from)) = Name(q)
                          /\ tree[Image(q, to, from)].kind # "none"
        OBVIOUS
      <4>1. q \in Below(to)
        BY <3>2, ParentBelow
      <4>2. /\ Image(q, to, from) \in Path
            /\ tree'[q].kind = tree[Image(q, to, from)].kind
        BY <2>2, <2>5, <2>7, <2>8, <4>1
      <4> QED
        BY <3>2, <4>1, <4>2, ImageParent
    <3>6. NamesIn({g})' = NamesIn({d})
      <4>1. \A x : x \in NamesIn({d}) <=>
                \E q \in Path : Parent(q) = d /\ tree[q].kind # "none" /\ x = Name(q)
        BY DEF NamesIn, Children, IsAbsent
      <4>2. \A x : x \in NamesIn({g})' <=>
                \E q \in Path : Parent(q) = g /\ tree'[q].kind # "none" /\ x = Name(q)
        BY DEF NamesIn, Children, IsAbsent
      <4>3. ASSUME NEW x \in NamesIn({d}) PROVE x \in NamesIn({g})'
        BY <3>4, <4>1, <4>2
      <4>4. ASSUME NEW x \in NamesIn({g})' PROVE x \in NamesIn({d})
        BY <3>5, <4>1, <4>2
      <4> QED
        BY <4>3, <4>4
    <3>7. ASSUME g \in ds PROVE StillFresh(d, g)
      BY <2>2, <2>6, <2>7, <3>1, <3>2, <3>3, <3>7 DEF StillFresh
    <3>8. ASSUME g \notin ds PROVE StillFresh(d, g)
      BY <2>2, <2>6, <3>2, <3>3, <3>6, <3>8 DEF StillFresh
    <3> QED
      BY <2>2, <3>0, <3>2, <3>7, <3>8
  <2> DEFINE new(q) == IF q = from \/ q \in Below(from) THEN Image(q, from, to) ELSE q
  <2>11. PICK at : at = {new(q) : q \in listing.at \ {to}}
    OBVIOUS
  <2>12. listing' = [listing EXCEPT !.at = at]
    BY <1>1, <1>3, <2>11 DEF Follow
  <2>13. \A q \in listing.at \ {to} : new(q) \in Node /\ StillFresh(q, new(q))
    BY <2>1, <2>9, <2>10
  <2> HIDE DEF new
  <2>14. at \in SUBSET Node /\ \A g \in at : \E d \in listing.at : StillFresh(d, g)
    BY <2>11, <2>13
  <2>15. \A g, h \in at : g = h
    BY <2>1, <2>11
  <2> QED
    BY <1>1, <1>3, <2>12, <2>14, <2>15, FreshStep
<1> QED
  BY <1>2, <1>3

(* A step in which the listing stands still and the names of no directory change. *)
LEMMA FreshStill ==
    ASSUME ListInv, UNCHANGED <<tree, listing>>, clock' \in Nat, clock <= clock'
    PROVE  ListingFresh'
<1>1. clock \in Nat /\ tree' = tree /\ listing' = listing
  BY DEF ListInv, TypeInv, TypeOK
<1>2. \A d \in listing.at : NamesIn({d})' = NamesIn({d})
  BY <1>1, NamesKept
<1>3. listing.pc \in {"read", "reply"} => listing.asked \in Nat
  <2>1. ASSUME listing.pc \in {"read", "reply"} PROVE listing # IdleListing
    BY <2>1 DEF IdleListing
  <2> QED
    BY <2>1, ListingParts DEF ListInv, TypeInv
<1>4. listing.pc \in {"read", "reply"} => listing.asked <= clock'
  BY <1>1, <1>3 DEF ListInv, ListingFresh
<1> QED
  BY <1>1, <1>2, <1>4 DEF ListInv, ListingFresh

LEMMA FreshList == ASSUME ListInv, ListDir PROVE ListingFresh'
<1>1. /\ UNCHANGED <<tree, clock>> /\ clock \in Nat
      /\ \A d, g \in listing.at : listing # IdleListing => d = g
  BY DEF ListDir, ListInv, TypeInv, TypeOK, ListingFresh
<1>2. ASSUME listing.pc \in {"stat", "read"} PROVE listing # IdleListing
  BY <1>2 DEF IdleListing
<1>3. CASE \E v \in 0..MaxClock : StatDir(v)
  <2>1. PICK v \in 0..MaxClock : StatDir(v)
    BY <1>3
  <2>2. /\ listing' = [pc |-> "read", at |-> listing.at, version |-> v,
                       asked |-> clock]
        /\ listing.pc = "stat"
    BY <2>1 DEF StatDir
  <2>3. /\ listing'.pc = "read" /\ listing'.at = listing.at
        /\ listing'.asked = clock
    BY <2>2
  <2> QED
    BY <1>1, <1>2, <2>2, <2>3 DEF ListingFresh
<1>4. CASE ReadDir
  <2>1. /\ listing.pc = "read"
        /\ listing' = [pc |-> "reply", at |-> listing.at,
                       version |-> listing.version, asked |-> listing.asked,
                       names |-> NamesIn(listing.at)]
    BY <1>4 DEF ReadDir
  <2>2. PICK at, names : at = listing.at /\ names = NamesIn(listing.at)
    OBVIOUS
  <2>3. /\ listing'.pc = "reply" /\ listing'.at = at /\ listing'.names = names
        /\ listing'.asked = listing.asked /\ listing.asked <= clock
    BY <2>1, <2>2 DEF ListInv, ListingFresh
  <2>4. \A d, g \in at : d = g
    BY <1>1, <1>2, <2>1, <2>2
  <2>5. ASSUME NEW d \in at PROVE names = NamesIn({d})'
    <3>1. at = {d}
      BY <2>4
    <3>2. names = NamesIn({d})
      BY <2>2, <3>1
    <3>3. NamesIn({d})' = NamesIn({d})
      BY <1>1, NamesKept
    <3> QED
      BY <3>2, <3>3
  <2> QED
    BY <1>1, <2>3, <2>4, <2>5 DEF ListingFresh
<1> QED
  BY <1>3, <1>4 DEF ListDir, StatThenRead

LEMMA ListStep == ASSUME ListInv, [Next]_vars PROVE ListInv'
<1>1. TypeInv' /\ TypeOK /\ clock \in Nat /\ clock' \in Nat
  BY TypeStep DEF ListInv, TypeInv, TypeOK
<1> SUFFICES ListingFresh'
  BY <1>1 DEF ListInv
<1>2. ASSUME NEW p \in Path, NEW f \in Files, Mknod(p, f) PROVE ListingFresh'
  <2>1. /\ SetEntry(p, Regular(f)) /\ tree[p].kind # "dir" /\ listing' = listing
        /\ clock' = clock /\ Regular(f) \in Entry
    BY <1>2, EntryTypes DEF Mknod, Free, IsAbsent, Unmoved
  <2> QED
    BY <2>1, FreshEntry
<1>3. ASSUME NEW p \in Path, Symlink(p) PROVE ListingFresh'
  <2>1. /\ SetEntry(p, SymLink) /\ tree[p].kind # "dir" /\ listing' = listing
        /\ clock' = clock /\ SymLink \in Entry
    BY <1>3, EntryTypes DEF Symlink, Free, IsAbsent, Unmoved
  <2> QED
    BY <2>1, FreshEntry
<1>4. ASSUME NEW from \in Path, NEW to \in Path, Link(from, to) PROVE ListingFresh'
  <2>1. /\ SetEntry(to, tree[from]) /\ tree[to].kind # "dir" /\ listing' = listing
        /\ clock' = clock
    BY <1>4 DEF Link, Free, IsAbsent, Unmoved
  <2>2. tree[from] \in Entry
    BY <1>1 DEF TypeOK, Node
  <2> QED
    BY <2>1, <2>2, FreshEntry
<1>5. ASSUME NEW p \in Path, Unlink(p) PROVE ListingFresh'
  <2>1. /\ SetEntry(p, Absent) /\ tree[p].kind # "dir" /\ listing' = listing
        /\ clock' = clock /\ Absent \in Entry
    BY <1>5, EntryTypes DEF Unlink, Unmoved
  <2> QED
    BY <2>1, FreshEntry
<1>6. ASSUME NEW p \in Path, Mkdir(p) PROVE ListingFresh'
  <2>1. /\ SetEntry(p, Directory(clock, FALSE)) /\ tree[p].kind # "dir"
        /\ listing' = listing /\ clock' = clock
    BY <1>6 DEF Mkdir, Free, IsAbsent, Unmoved
  <2>2. Directory(clock, FALSE) \in Entry
    BY <1>1, EntryTypes
  <2> QED
    BY <2>1, <2>2, FreshEntry
<1>7. ASSUME NEW p \in Path, Rmdir(p) PROVE ListingFresh'
  <2>1. SetEntry(p, Absent) /\ Forget(p) /\ clock' = clock /\ Absent \in Entry
    BY <1>7, EntryTypes DEF Rmdir
  <2> QED
    BY <2>1, FreshEntry
<1>8. ASSUME NEW from \in Path, NEW to \in Path, Rename(from, to) PROVE ListingFresh'
  BY <1>8, FreshRename
<1>9. ASSUME NEW from \in Path, NEW to \in Path, RenameRowsOnly(from, to)
      PROVE  ListingFresh'
  BY <1>1, <1>9, FreshStill DEF RenameRowsOnly, Unmoved
<1>10. ASSUME NEW d \in Node, NEW t \in 0..MaxClock, Utimens(d, t)
       PROVE  ListingFresh'
  <2>1. /\ tree' = [tree EXCEPT ![d] = Directory(t, TRUE)] /\ tree[d].kind = "dir"
        /\ listing' = listing /\ clock' = clock
    BY <1>10 DEF Utimens, IsDir, Unmoved
  <2>2. Directory(t, TRUE).kind = "dir" /\ Directory(t, TRUE).dated = TRUE
    BY DEF Directory
  <2>3. tree \in [Node -> Entry] /\ Path \subseteq Node
    BY <1>1 DEF TypeOK, Node
  <2>4. \A q \in Path : tree'[q].kind = "none" <=> tree[q].kind = "none"
    BY <2>1, <2>2, <2>3
  <2>5. CASE listing = IdleListing
    BY <2>1, <2>5 DEF ListingFresh, IdleListing
  <2>6. CASE listing # IdleListing
    <3>1. /\ listing \in Listing /\ listing.at \in SUBSET Node
          /\ \A g, h \in listing.at : g = h
      BY <2>6, ListingParts DEF ListInv, TypeInv, ListingFresh
    <3>2. ASSUME NEW g \in listing.at PROVE StillFresh(g, g)
      <4>1. NamesIn({g})' = NamesIn({g})
        BY <2>4, NamesKept
      <4>2. CASE g = d
        BY <2>1, <2>2, <2>3, <4>2 DEF StillFresh
      <4>3. CASE g # d
        <5>1. tree'[g] = tree[g]
          BY <2>1, <2>3, <3>1, <4>3
        <5> QED
          BY <4>1, <5>1 DEF StillFresh
      <4> QED
        BY <4>2, <4>3
    <3>3. listing' = [listing EXCEPT !.at = listing.at]
      BY <2>1, <3>1 DEF Listing
    <3>4. PICK at : at = listing.at
      OBVIOUS
    <3>5. /\ at \in SUBSET Node /\ listing' = [listing EXCEPT !.at = at]
          /\ \A g, h \in at : g = h
          /\ \A g \in at : \E e \in listing.at : StillFresh(e, g)
      BY <3>1, <3>2, <3>3, <3>4
    <3> QED
      BY <2>1, <2>6, <3>5, FreshStep
  <2> QED
    BY <2>5, <2>6
<1>11. ASSUME NEW d \in Node, NEW ending \in BOOLEAN, OpenDir(d, ending)
       PROVE  ListingFresh'
  <2>1. listing' = [pc |-> "stat", path |-> d, at |-> {d}]
    BY <1>11 DEF OpenDir
  <2>2. listing'.pc = "stat" /\ listing'.at = {d}
    BY <2>1
  <2> QED
    BY <2>2 DEF ListingFresh
<1>12. ASSUME ReplyDir PROVE ListingFresh'
  BY <1>12 DEF ReplyDir, ListingFresh, IdleListing
<1>13. ASSUME Tick PROVE ListingFresh'
  <2>1. clock <= clock' /\ UNCHANGED <<tree, listing>>
    BY <1>1, <1>13 DEF Tick
  <2> QED
    BY <1>1, <2>1, FreshStill
<1>14. ASSUME UNCHANGED vars PROVE ListingFresh'
  BY <1>1, <1>14, FreshStill DEF vars
<1> QED
  BY <1>2, <1>3, <1>4, <1>5, <1>6, <1>7, <1>8, <1>9, <1>10, <1>11, <1>12, <1>13,
     <1>14, FreshList DEF Next, ListInv

(* A listing and the directory it was made from agree for as long as the date that *)
(* is the listing's version is that of the directory, if it was over by then; in   *)
(* a tree of any depth, with the directory moved or others put in its place.       *)
THEOREM ListingsVersioned == Spec => []ListingVersioned
<1>1. Init => ListInv
  BY TypeInit DEF Init, ListInv, ListingFresh, IdleListing
<1>2. ListInv /\ [Next]_vars => ListInv'
  BY ListStep
<1>3. ListInv => ListingVersioned
  BY DEF ListInv, ListingFresh, ListingVersioned
<1> QED
  BY <1>1, <1>2, <1>3, PTL DEF Spec

-----------------------------------------------------------------------------
(***************************************************************************)
(* Types of files.  The table is what a recursive function leaves, so that *)
(* these lemmas go by induction: over a least counterexample.              *)
(***************************************************************************)

LEMMA LeastNat ==
    ASSUME NEW S, S \subseteq Nat, S # {}
    PROVE  \E n \in S : \A m \in S : n <= m
<1>1. PICK n \in S : \A m \in S : ~(<<m, n>> \in OpToRel(<, Nat))
  BY WFMin, NatLessThanWellFounded, Zenon
<1>2. \A m \in S : ~(m < n)
  BY <1>1, Zenon DEF OpToRel
<1> QED
  BY <1>2

\* f is the table after each of the first n insertions.
Filled(f, n) ==
    f = [k \in 0..n |-> IF k = 0 THEN <<>> ELSE Insert(f[k - 1], ExtMimePairs[k])]

Pairs == Len(ExtMimePairs)

LEMMA PairsNat == Pairs \in Nat
BY PairsAssumption DEF Pairs

LEMMA FilledExists == \A n \in 0..Pairs : \E f : Filled(f, n)
<1> DEFINE Bad == {n \in 0..Pairs : ~\E f : Filled(f, n)}
<1> SUFFICES ASSUME Bad # {} PROVE FALSE
  OBVIOUS
<1>1. Bad \subseteq Nat
  BY PairsNat
<1>2. PICK n \in Bad : \A m \in Bad : n <= m
  BY <1>1, LeastNat
<1>3. n # 0
  <2>1. Filled([k \in 0..0 |-> <<>>], 0)
    BY DEF Filled
  <2> QED
    BY <1>2, <2>1
<1>4. n - 1 \in 0..Pairs /\ n - 1 \notin Bad
  BY <1>2, <1>3, PairsNat
<1>5. PICK g : Filled(g, n - 1)
  BY <1>4
<1> DEFINE h == [k \in 0..n |-> IF k = n THEN Insert(g[n - 1], ExtMimePairs[n]) ELSE g[k]]
<1>6. ASSUME NEW k \in 0..n
      PROVE  h[k] = IF k = 0 THEN <<>> ELSE Insert(h[k - 1], ExtMimePairs[k])
  <2>1. CASE k = n
    <3>1. h[k - 1] = g[n - 1] /\ h[k] = Insert(g[n - 1], ExtMimePairs[n])
      BY <1>2, <1>3, <2>1, PairsNat
    <3> QED
      BY <3>1, <2>1, <1>3
  <2>2. CASE k # n
    <3>1. k \in 0..(n - 1) /\ h[k] = g[k]
      BY <2>2, <1>2, <1>3, PairsNat
    <3>2. g[k] = IF k = 0 THEN <<>> ELSE Insert(g[k - 1], ExtMimePairs[k])
      BY <1>5, <3>1 DEF Filled
    <3>3. k # 0 => h[k - 1] = g[k - 1]
      BY <2>2, <1>2, <1>3, PairsNat
    <3> QED
      BY <3>1, <3>2, <3>3
  <2> QED
    BY <2>1, <2>2
<1>7. h = [k \in 0..n |-> IF k = 0 THEN <<>> ELSE Insert(h[k - 1], ExtMimePairs[k])]
  BY <1>6
<1> QED
  BY <1>7, <1>2 DEF Filled

LEMMA InsertedFilled == Filled(Inserted, Pairs)
<1>1. \E f : Filled(f, Pairs)
  BY FilledExists, PairsNat
<1>2. \E f : f = [n \in 0..Len(ExtMimePairs) |->
                     IF n = 0 THEN <<>> ELSE Insert(f[n - 1], ExtMimePairs[n])]
  BY <1>1 DEF Filled, Pairs
<1>3. Inserted = [n \in 0..Len(ExtMimePairs) |->
                     IF n = 0 THEN <<>> ELSE Insert(Inserted[n - 1], ExtMimePairs[n])]
  BY <1>2 DEF Inserted
<1> QED
  BY <1>3 DEF Filled, Pairs

\* The first n pairs, and the first of them that lists an extension.
Key(i) == ExtMimePairs[i][1]
First(n, i) == i \in 1..n /\ \A j \in 1..n : Key(j) = Key(i) => i <= j

Held(n) ==
    /\ DOMAIN Inserted[n] = {Key(i) : i \in 1..n}
    /\ \A i \in 1..n : First(n, i) => Inserted[n][Key(i)] = ExtMimePairs[i][2]

LEMMA TableHolds == \A n \in 0..Pairs : Held(n)
<1> DEFINE Bad == {n \in 0..Pairs : ~Held(n)}
<1> SUFFICES ASSUME Bad # {} PROVE FALSE
  OBVIOUS
<1>1. Bad \subseteq Nat
  BY PairsNat
<1>2. PICK n \in Bad : \A m \in Bad : n <= m
  BY <1>1, LeastNat
<1>3. Inserted[0] = <<>> /\ (n # 0 => Inserted[n] = Insert(Inserted[n - 1], ExtMimePairs[n]))
  BY <1>2, InsertedFilled, PairsNat DEF Filled
<1>4. n # 0
  <2>1. Held(0)
    BY <1>3 DEF Held
  <2> QED
    BY <1>2, <2>1
<1>5. n - 1 \in 0..Pairs /\ Held(n - 1) /\ n \in 1..Pairs
  BY <1>2, <1>4, PairsNat
<1> DEFINE old == Inserted[n - 1]
           new == Inserted[n]
<1>6. new = IF Key(n) \in DOMAIN old THEN old
            ELSE [x \in DOMAIN old \cup {Key(n)} |->
                     IF x = Key(n) THEN ExtMimePairs[n][2] ELSE old[x]]
  BY <1>3, <1>4 DEF Insert, Key
<1>7. DOMAIN old = {Key(i) : i \in 1..(n - 1)}
  BY <1>5 DEF Held
<1>8. 1..n = 1..(n - 1) \cup {n} /\ n \notin 1..(n - 1)
  BY <1>5, PairsNat
<1>9. DOMAIN new = {Key(i) : i \in 1..n}
  <2>1. DOMAIN new = DOMAIN old \cup {Key(n)}
    BY <1>6
  <2> QED
    BY <2>1, <1>7, <1>8
<1>10. ASSUME NEW i \in 1..n, First(n, i)
       PROVE  new[Key(i)] = ExtMimePairs[i][2]
  <2>1. CASE i = n
    <3>1. Key(n) \notin DOMAIN old
      BY <1>10, <1>7, <1>8, <2>1, PairsNat DEF First
    <3> QED
      BY <3>1, <2>1, <1>6
  <2>2. CASE i # n
    <3>1. i \in 1..(n - 1) /\ First(n - 1, i)
      BY <1>10, <1>8, <2>2 DEF First
    <3>2. old[Key(i)] = ExtMimePairs[i][2] /\ Key(i) \in DOMAIN old
      BY <3>1, <1>5, <1>7 DEF Held
    <3>3. Key(n) \notin DOMAIN old => new[Key(i)] = old[Key(i)]
      BY <3>2, <1>6
    <3> QED
      BY <3>2, <3>3, <1>6
  <2> QED
    BY <2>1, <2>2
<1> QED
  BY <1>2, <1>9, <1>10 DEF Held

LEMMA LeastPair ==
    ASSUME NEW ext, \E i \in 1..Pairs : Key(i) = ext
    PROVE  \E i \in 1..Pairs : Key(i) = ext /\ First(Pairs, i)
<1> DEFINE S == {i \in 1..Pairs : Key(i) = ext}
<1>1. S \subseteq Nat /\ S # {}
  BY PairsNat
<1>2. PICK i \in S : \A j \in S : i <= j
  BY <1>1, LeastNat
<1> QED
  BY <1>2 DEF First

\* What the table holds for an extension is the first type listed for it.
LEMMA TableFirst ==
    ASSUME NEW ext
    PROVE  (IF <<ext>> \in DOMAIN ExtMimeMap THEN ExtMimeMap[<<ext>>] ELSE "")
               = FirstListed(ext)
<1> DEFINE listed == {i \in 1..Len(ExtMimePairs) : ExtMimePairs[i][1] = <<ext>>}
           least  == CHOOSE i \in listed : \A j \in listed : i <= j
<1>1. Held(Pairs) /\ ExtMimeMap = Inserted[Pairs]
  BY TableHolds, PairsNat DEF ExtMimeMap, Pairs
<1>2. listed = {i \in 1..Pairs : Key(i) = <<ext>>}
  BY DEF Pairs, Key
<1>3. <<ext>> \in DOMAIN ExtMimeMap <=> listed # {}
  BY <1>1, <1>2 DEF Held
<1>4. FirstListed(ext) = IF listed = {} THEN "" ELSE ExtMimePairs[least][2]
  BY DEF FirstListed
<1>5. ASSUME listed # {}
      PROVE  ExtMimeMap[<<ext>>] = ExtMimePairs[least][2]
  <2>1. \E i \in listed : \A j \in listed : i <= j
    BY <1>2, <1>5, LeastPair DEF First
  <2>2. least \in listed /\ \A j \in listed : least <= j
    BY <2>1
  <2> HIDE DEF least
  <2>3. Key(least) = <<ext>> /\ First(Pairs, least) /\ least \in 1..Pairs
    BY <1>2, <2>2 DEF First
  <2> QED
    BY <1>1, <2>3 DEF Held
<1> HIDE DEF listed, least
<1> QED
  BY <1>3, <1>4, <1>5

LEMMA NothingListed == FirstListed(NoExtension) = ""
<1>1. {i \in 1..Len(ExtMimePairs) : ExtMimePairs[i][1] = <<NoExtension>>} = {}
  BY DottedAssumption
<1> QED
  BY <1>1 DEF FirstListed

(* The look-up takes the last dot of the whole path; when that is not in the last *)
(* component, what follows it has a slash and is in no list.                      *)
LEMMA MimeOfName ==
    ASSUME NEW p \in Path
    PROVE  MimeInfer(p) = FirstListed(Extension[Name(p)])
<1> DEFINE dotted == {i \in 1..Len(p) : Extension[p[i]] # NoExtension}
           last   == CHOOSE i \in dotted : \A j \in dotted : j <= i
           ext    == <<Extension[p[last]]>> \o SubSeq(p, last + 1, Len(p))
<1>1. p \in Seq(Component) /\ Len(p) \in Nat \ {0} /\ Name(p) = p[Len(p)]
  BY PathIsSeq DEF Name
<1>2. MimeInfer(p) = IF dotted = {} \/ ext \notin DOMAIN ExtMimeMap THEN ""
                     ELSE ExtMimeMap[ext]
  BY DEF MimeInfer
<1>3. CASE Extension[Name(p)] # NoExtension
  <2>1. Len(p) \in dotted /\ \A j \in dotted : j <= Len(p)
    BY <1>1, <1>3
  <2>2. last = Len(p)
    <3>1. last \in dotted /\ \A j \in dotted : j <= last
      BY <2>1
    <3>2. last \in 1..Len(p) /\ Len(p) <= last
      BY <2>1, <3>1
    <3> QED
      BY <1>1, <3>2
  <2> HIDE DEF last
  <2>3. ext = <<Extension[Name(p)]>>
    <3>1. SubSeq(p, Len(p) + 1, Len(p)) = <<>>
      BY <1>1
    <3>2. ext = <<Extension[Name(p)]>> \o <<>>
      BY <1>1, <2>2, <3>1
    <3>3. ASSUME NEW x PROVE <<x>> \o <<>> = <<x>>
      OBVIOUS
    <3> HIDE DEF ext
    <3> QED
      BY <3>2, <3>3
  <2> HIDE DEF dotted, ext
  <2> QED
    BY <1>2, <2>1, <2>3, TableFirst
<1>4. CASE Extension[Name(p)] = NoExtension
  <2>1. ASSUME dotted # {} PROVE ext \notin DOMAIN ExtMimeMap
    <3>1. PICK i \in dotted : \A j \in dotted : j <= i
      <4> DEFINE S == {Len(p) - j : j \in dotted}
      <4>1. S \subseteq Nat /\ S # {}
        BY <1>1, <2>1
      <4>2. PICK n \in S : \A m \in S : n <= m
        BY <4>1, LeastNat
      <4>3. PICK i \in dotted : n = Len(p) - i
        BY <4>2
      <4>4. ASSUME NEW j \in dotted PROVE j <= i
        <5>1. Len(p) - i <= Len(p) - j
          BY <4>2, <4>3
        <5> QED
          BY <5>1, <1>1
      <4> QED
        BY <4>4
    <3>2. last \in dotted
      BY <3>1
    <3>3. last \in 1..Len(p) /\ last # Len(p)
      BY <1>1, <1>4, <3>2
    <3> HIDE DEF last
    <3>4. SubSeq(p, last + 1, Len(p)) \in Seq(Component)
          /\ Len(SubSeq(p, last + 1, Len(p))) = Len(p) - last
      BY <1>1, <3>3
    <3> DEFINE rest == SubSeq(p, last + 1, Len(p))
    <3> HIDE DEF rest
    <3>5. Len(<<Extension[p[last]]>> \o rest) = 1 + Len(rest)
      <4>1. rest \in Seq(Component)
        BY <3>4 DEF rest
      <4> QED
        BY <4>1
    <3>6. Len(ext) > 1
      BY <1>1, <3>3, <3>4, <3>5 DEF rest
    <3>7. \A m \in 1..Pairs : Len(Key(m)) = 1
      BY DottedAssumption DEF Pairs, Key
    <3>8. DOMAIN ExtMimeMap = {Key(m) : m \in 1..Pairs}
      BY TableHolds, PairsNat DEF ExtMimeMap, Held, Pairs
    <3> HIDE DEF ext
    <3>9. ASSUME ext \in DOMAIN ExtMimeMap PROVE FALSE
      <4>1. PICK k \in 1..Pairs : ext = Key(k)
        BY <3>8, <3>9
      <4>2. Len(ext) = 1
        BY <3>7, <4>1
      <4> QED
        BY <3>6, <4>2
    <3> QED
      BY <3>9
  <2> HIDE DEF dotted, ext
  <2> QED
    BY <1>2, <1>4, <2>1, NothingListed
<1> QED
  BY <1>3, <1>4

TypeKept(r) == \E s \in fileSystem : s.file = r.file /\ s.mime_type = r.mime_type

LEMMA RenameTypes ==
    ASSUME TypeOK, NEW from \in Path, NEW to \in Path, RenameRows(from, to)
    PROVE  \A r \in fileSystem' : TypeKept(r)
<1>1. fileSystem' = UpdatePath(from, to) /\ fileSystem \subseteq SystemRow
  BY DEF RenameRows, TypeOK
<1>2. ASSUME NEW s \in fileSystem
      PROVE  /\ [s EXCEPT !.path = to].file = s.file
             /\ [s EXCEPT !.path = to].mime_type = s.mime_type
  BY <1>1 DEF SystemRow
<1> QED
  BY <1>1, <1>2 DEF UpdatePath, TypeKept

\* A file keeps the type it was made with, and a new one has the type of its name.
LEMMA TypesStep ==
    ASSUME TypeOK, [Next]_vars
    PROVE  \A r \in fileSystem' :
               \/ TypeKept(r)
               \/ /\ \A s \in fileSystem : s.file # r.file
                  /\ r.mime_type = FirstListed(Extension[Name(r.path)])
<1>1. fileSystem' = fileSystem => \A r \in fileSystem' : TypeKept(r)
  BY DEF TypeKept
<1>2. ASSUME NEW p \in Path, NEW f \in Files, Mknod(p, f), NEW r \in fileSystem'
      PROVE  \/ TypeKept(r)
             \/ /\ \A s \in fileSystem : s.file # r.file
                /\ r.mime_type = FirstListed(Extension[Name(r.path)])
  <2>1. /\ \A s \in fileSystem : s.file # f
        /\ r \in fileSystem \/ r = [path |-> p, mime_type |-> MimeInfer(p), file |-> f]
    BY <1>2 DEF Mknod
  <2>2. CASE r \in fileSystem
    BY <2>2 DEF TypeKept
  <2>3. CASE r = [path |-> p, mime_type |-> MimeInfer(p), file |-> f]
    <3>1. r.path = p /\ r.mime_type = MimeInfer(p) /\ r.file = f
      BY <2>3
    <3> QED
      BY <2>1, <3>1, MimeOfName
  <2> QED
    BY <2>1, <2>2, <2>3
<1>3. ASSUME NEW p \in Path, Unlink(p) PROVE \A r \in fileSystem' : TypeKept(r)
  BY <1>3 DEF Unlink, RemoveFileEntry, TypeKept
<1>4. ASSUME NEW p \in Path, NEW q \in Path, Rename(p, q) \/ RenameRowsOnly(p, q)
      PROVE  \A r \in fileSystem' : TypeKept(r)
  BY <1>4, RenameTypes DEF Rename, RenameRowsOnly
<1>5. \/ \E p \in Path : (\E f \in Files : Mknod(p, f)) \/ Unlink(p)
      \/ \E p, q \in Path : Rename(p, q) \/ RenameRowsOnly(p, q)
      \/ fileSystem' = fileSystem
  BY DEF Next, vars, tables, Symlink, Mkdir, Rmdir, Link, Utimens, OpenDir, ListDir,
         ReplyDir, Tick
<1> QED
  BY <1>1, <1>2, <1>3, <1>4, <1>5

(* The type of a file is the first one listed for what follows the last dot of the *)
(* name it was made with, for any list of pairs and any depth of directories, and  *)
(* stays with the file; by induction over the list (mime_infer, ndnfs_mknod).      *)
THEOREM TypesAsListed == Spec => MimeAsListed
<1>1. TypeOK /\ [Next]_vars =>
          [\A r \in fileSystem' :
              \/ \E s \in fileSystem : s.file = r.file /\ s.mime_type = r.mime_type
              \/ /\ \A s \in fileSystem : s.file # r.file
                 /\ r.mime_type = FirstListed(Extension[Name(r.path)])]_vars
  BY TypesStep DEF TypeKept
<1> QED
  BY <1>1, TypeCorrect, PTL DEF Spec, MimeAsListed
=============================================================================
