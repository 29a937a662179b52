------------------------------- MODULE MCTree -------------------------------
(* Two directories, each with room for one file, and a name beside them. *)
EXTENDS Tree, FiniteSets, TLC

CONSTANTS d, e, f,    \* components
          MaxParted   \* bound on the names parted

Dotted == d :> ".zip" @@ e :> ".zip" @@ f :> ""
Pairs  == << <<<<".zip">>, "application/x-compressed">>,
             <<<<".html">>, "text/html">>, <<<<".zip">>, "application/zip">> >>
Names  == {<<d>>, <<e>>, <<d, f>>, <<e, f>>}

TreeSymmetry == Permutations(Files) \cup Permutations({d, e})

Bounded ==
    /\ Cardinality(parted) <= MaxParted
    /\ \A q \in Node : IsDir(q) /\ tree[q].dated =>
          listing.pc # "idle" /\ q \in listing.at
=============================================================================
