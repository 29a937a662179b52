------------------------------ MODULE MCNdnfs ------------------------------
(* Instances of Ndnfs for TLC. *)
EXTENDS NdnfsStore, FiniteSets, TLC

CONSTANTS MaxBlemish,  \* bound on the faults and collisions of all names
          MaxVersions, \* bound on the rows of file_versions
          MaxSegments  \* bound on the rows of file_segments

PathSymmetry == Permutations(Path)
FileSymmetry == Permutations(Path) \cup Permutations(Threads)

Bounded ==
    /\ Cardinality({<<p, f>> \in Path \X Blemish :
                       f \in blemish[p]}) <= MaxBlemish
    /\ Cardinality(fileVersions) <= MaxVersions
    /\ Cardinality(fileSegments) <= MaxSegments
=============================================================================
