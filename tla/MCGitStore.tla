----------------------------- MODULE MCGitStore -----------------------------
(* Instances of GitStore for TLC: two processes with one thread each.    *)
EXTENDS GitStoreRefinement, TLC

CONSTANTS c1, c2, i1, i2, v1, v2

TwoProcesses  == (c1 :> i1) @@ (c2 :> i2)
NoGenerations == [b \in Bodies |-> NoGeneration]

\* Bodies without generations are interchangeable, and so are the two
\* processes together with their threads.
SwapProcesses == (c1 :> c2) @@ (c2 :> c1) @@ (i1 :> i2) @@ (i2 :> i1)
Symmetry      == Permutations({v1, v2}) \cup {SwapProcesses}
=============================================================================
