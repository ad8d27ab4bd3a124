-------------------------- MODULE MCPostgresStore ---------------------------
(* Instances of PostgresStore for TLC: two processes with one thread each.*)
EXTENDS PostgresStoreRefinement, TLC

CONSTANTS c1, c2, i1, i2, v1, v2

TwoProcesses  == (c1 :> i1) @@ (c2 :> i2)
RisingBodies  == (v1 :> 1) @@ (v2 :> 2)

\* Where the instance goes on: something fails, or time passes.  Neither is among
\* the steps FairSpec is fair to.
Scenarios == now = 0 \/ failures = 0
=============================================================================
