---------------------------- MODULE MCReconcile -----------------------------
(* Instances of Reconcile for TLC: three callers of one key.               *)
EXTENDS Reconcile, TLC

CONSTANTS c1, c2, c3, v1, v2

Symmetry == Permutations({v1, v2}) \cup Permutations({c1, c2, c3})
=============================================================================
