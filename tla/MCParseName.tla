---------------------------- MODULE MCParseName ----------------------------
(* ParseName and Offsets on every name of at most MaxComponents components. *)
EXTENDS Offsets, SequencesExt

CONSTANT MaxComponents

MCInit == \E n \in BoundedSeq(Component, MaxComponents) : InitWith(n)
MCSpec == MCInit /\ [][Next]_vars
=============================================================================
