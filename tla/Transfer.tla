------------------------------ MODULE Transfer ------------------------------
(***************************************************************************)
(* What a fetch promises, without interests, answers and time-outs: the    *)
(* segments of a file are received one at a time, each at most once, by the*)
(* saving programs in the order of the file, from any edition that has     *)
(* them; the transfer may end early, and nothing is received after its end.*)
(* Module Fetch implements it.                                             *)
(***************************************************************************)
EXTENDS Integers, Sequences

VARIABLES
    blocks,     \* for each edition of the file its segments that are not empty
    ordered,    \* segments are received in the order of the file
    saved,      \* the segments received
    over        \* the transfer has ended

vars == <<blocks, ordered, saved, over>>

-----------------------------------------------------------------------------

Init ==
    /\ Len(blocks) = 1 /\ blocks[1] \in Nat
    /\ ordered \in BOOLEAN
    /\ saved = <<>>
    /\ over = FALSE

\* The segment n may be the next one received.
Acceptable(n) ==
    IF ordered THEN n = Len(saved) ELSE \A k \in 1..Len(saved) : saved[k].seg # n

\* A segment arrives, as it is in some edition; the transfer may be over with it.
Save(n, e) ==
    /\ ~over
    /\ Acceptable(n)
    /\ saved' = Append(saved, [seg |-> n, edition |-> e])
    /\ over' \in BOOLEAN
    /\ UNCHANGED <<blocks, ordered>>

End ==
    /\ ~over
    /\ over' = TRUE
    /\ UNCHANGED <<blocks, ordered, saved>>

\* The file changes.
Publish ==
    /\ Len(blocks') = Len(blocks) + 1 /\ blocks'[Len(blocks')] \in Nat
    /\ \A e \in 1..Len(blocks) : blocks'[e] = blocks[e]
    /\ UNCHANGED <<ordered, saved, over>>

Next ==
    \/ \E e \in 1..Len(blocks) : \E n \in 0..(blocks[e] - 1) : Save(n, e)
    \/ End
    \/ Publish

Spec == Init /\ [][Next]_vars

=============================================================================
