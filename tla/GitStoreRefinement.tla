------------------------- MODULE GitStoreRefinement --------------------------
(* GitBackend implements the store contract of a store behind a network.   *)
EXTENDS GitStore

\* A write is open while its commit is being pushed; it states the value its
\* caller expects, not the one it found.
OpOf(c) ==
    IF Writing(c, "push")
    THEN [stage |-> "open",
          write |-> [key |-> call[c].key, body |-> call[c].body,
                     prior |-> IF call[c].kind = "create" THEN Absent ELSE call[c].expected,
                     fenced |-> call[c].kind = "update"]]
    ELSE [stage |-> "idle"]

\* A late push can only land on the tip it was built on.
Orphan(m) == [key |-> m.key, body |-> m.body, prior |-> tip.blob[m.key],
              fenced |-> m.sidecar # NoSidecar]

Contract == INSTANCE StoreContract WITH
    value <- tip.blob,
    fence <- [k \in Keys |-> tip.fence[k].owner],
    lease <- [c \in Clients |-> [key |-> lease[c].key, fence |-> lease[c].fence]],
    op <- [c \in Clients |-> OpOf(c)],
    orphans <- {Orphan(m.commit) : m \in {x \in late : x.commit.body # None}},
    AnswersMayBeLost <- TRUE

\* Fetching, comparing, committing and pushing by several processes, with
\* pushes that fail and land late, does nothing the atomic store could not.
ImplementsContract == Contract!Spec

=============================================================================
