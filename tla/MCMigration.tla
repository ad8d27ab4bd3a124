---------------------------- MODULE MCMigration -----------------------------
(* Instances of Migration for TLC: a run in a process of its own, whose    *)
(* advisory locks nobody else sees, and two runs in one process.           *)
EXTENDS Migration, TLC

CONSTANTS a, b, c, p, q, u, v, w

SharedByTwo == (a :> p) @@ (b :> q) @@ (c :> p)

Symmetry == Permutations({a, c}) \cup Permutations({u, v})

Begun == {r \in Runs : run[r].pc # "start"}

\* Where the instance goes on.  Two of the three runs begin, the first by time 1,
\* and the last key is not on the target before.  Either the sources
\* agree, the target holds the first of their keys, and the control key is free or
\* a dead run's: then time passes, and runs meet in one process, or up to time 2 a
\* call fails or a process dies.  Or one key of a source or the target differs or
\* holds a secret, whatever the control key holds, and one call fails or one unit
\* of time passes.
Agree == \E f \in [Keys -> Bodies \ Secrets] :
            /\ source = [r \in Runs |-> f]
            /\ \A k \in Keys : f[k] = f[1] /\ target[k] \in {f[k], Absent}
            /\ \A k \in Keys : target[k] # Absent => \A j \in 1..k : target[j] # Absent

OneOdd == \E body \in Bodies \ Secrets :
            LET odd == {<<r, k>> \in Runs \X Keys : source[r][k] # body} IN
            /\ Cardinality(odd) + Cardinality({k \in Keys : target[k] \notin {body, Absent}}) <= 1
            /\ Cardinality(Begun) = 2 => \A rk \in odd : rk[1] \in Begun

Scenarios ==
    /\ Cardinality(Begun) <= 2
    /\ Begun = {} => /\ now <= 1
                     /\ \A r \in Runs : target[NKeys] # source[r][NKeys]
                     /\ Agree => doc.status \notin {"data", "released"}
    /\ \/ Agree /\ faults + crashes <= (IF now <= 2 /\ Begun # {a, c} THEN 1 ELSE 0)
       \/ OneOdd /\ now + faults <= 1 /\ crashes = 0 /\ Begun # {a, c}
=============================================================================
