---------------------------- MODULE MCMcpServer -----------------------------
(* Instances of McpServer for TLC: two servers with one registry (a local  *)
(* store), or with one each (a store behind a network).                    *)
EXTENDS McpServer, TLC

CONSTANTS s1, s2, r1, r2, v1, v2

OneRegistry == [s \in Servers |-> r1]
TwoRegistries == (s1 :> r1) @@ (s2 :> r2)

Symmetry == Permutations({v1, v2}) \cup Permutations({s1, s2})
=============================================================================
