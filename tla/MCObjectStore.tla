--------------------------- MODULE MCObjectStore ----------------------------
(* Instances of ObjectStore for TLC: two processes with one thread each. *)
EXTENDS ObjectStoreRefinement, TLC

CONSTANTS c1, c2, i1, i2, v1, v2

TwoProcesses  == (c1 :> i1) @@ (c2 :> i2)
NoGenerations == [b \in Bodies |-> NoGeneration]

\* Bodies without generations are interchangeable, and so are the two
\* processes together with their threads.
SwapProcesses == (c1 :> c2) @@ (c2 :> c1) @@ (i1 :> i2) @@ (i2 :> i1)
Symmetry      == Permutations({v1, v2}) \cup {SwapProcesses}

\* The bodies in the store, in a call or on their way.
UsedBodies ==
    ({obj[k].body : k \in Keys} \cup {call[c].body : c \in Clients}
        \cup {m.put.object.body : m \in late}) \cap Bodies

\* Where the instance goes on: time passes where one body is in use, since it
\* bears on leases alone, and up to time 1 if a PUT fails too.
Scenarios ==
    \/ now = 0
    \/ Cardinality(UsedBodies) <= 1 /\ (now <= 1 \/ failures = 0)
=============================================================================
