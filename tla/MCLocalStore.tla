---------------------------- MODULE MCLocalStore ----------------------------
(* Instances of LocalStore for TLC: two processes with one thread each.    *)
EXTENDS LocalStoreRefinement, TLC

CONSTANTS c1, c2, i1, i2, v1, v2

TwoProcesses  == (c1 :> i1) @@ (c2 :> i2)
NoGenerations == [b \in Bodies |-> NoGeneration]

\* Bodies without generations are interchangeable, and so are the two
\* processes together with their threads.
SwapProcesses == (c1 :> c2) @@ (c2 :> c1) @@ (i1 :> i2) @@ (i2 :> i1)
Symmetry      == Permutations({v1, v2}) \cup {SwapProcesses}

\* Where the instances go on, so that no bound multiplies with every other:
\* while no time passes, two crashes or tears, or os.replace calls that fail
\* and one of them; and leases that run out and are taken over around two writes,
\* or around one with a crash.
Tears == Cardinality({p \in Positions : journal[p] = Torn})

Scenarios ==
    \/ /\ now = 0 /\ tokens <= 2 /\ crashes + Tears <= 2
       /\ refused = {} \/ (crashes + Tears <= 1 /\ tokens <= 1)
    \/ /\ crashes + now + tokens <= 4 /\ Len(journal) <= 2
       /\ refused = {} /\ Tears = 0
       /\ \/ crashes = 0 /\ tokens <= 2
          \/ crashes + now + tokens <= 3
          \/ crashes = 1 /\ Len(journal) = 1

\* A joint bound on crashes and lock() calls.  No step under fairness changes
\* either, so it is a bound as MaxCrashes and MaxLocks are.
FewCrashesAndLocks == crashes + tokens <= 3
=============================================================================
