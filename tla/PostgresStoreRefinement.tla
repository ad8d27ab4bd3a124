----------------------- MODULE PostgresStoreRefinement -----------------------
(* PostgresBackend implements the store contract of a store behind a       *)
(* network.                                                                *)
EXTENDS PostgresStore

WriteOf(k, body, prior, kind) ==
    [key |-> k, body |-> body, prior |-> prior, fenced |-> kind = "update"]

\* A write is open from its last statement to the answer to COMMIT; it states
\* the value its caller expects, not the one it found.
OpOf(c) ==
    IF In(c, "commit", Writes)
    THEN [stage |-> "open",
          write |-> WriteOf(call[c].key, call[c].body,
                           IF call[c].kind = "create" THEN Absent ELSE call[c].expected,
                           call[c].kind)]
    ELSE [stage |-> "idle"]

\* A lost session has the rows locked: the value it replaces is still there.
\* A create finds none.
Orphans ==
    {WriteOf(k, lost[k].body, value[k], IF value[k] = Absent THEN "create" ELSE "update") :
        k \in {x \in Keys : lost[x].body # None}}

Contract == INSTANCE StoreContract WITH
    fence <- [k \in Keys |-> fence[k].owner],
    lease <- [c \in Clients |-> [key |-> lease[c].key, fence |-> lease[c].fence]],
    op <- [c \in Clients |-> OpOf(c)],
    orphans <- Orphans,
    AnswersMayBeLost <- TRUE

\* Transactions on two rows, of several processes whose connections drop, do
\* nothing the atomic store could not.
ImplementsContract == Contract!Spec

=============================================================================
