------------------------ MODULE ObjectStoreRefinement ------------------------
(* ObjectStoreBackend implements the store contract of a store behind a    *)
(* network.                                                                *)
EXTENDS ObjectStore

WriteOf(put, kind) ==
    [key |-> put.key, body |-> put.object.body, prior |-> put.match.body,
     fenced |-> kind = "update"]

\* A write is open while its PUT is on its way; it states the value its caller
\* expects, not the one it found.
OpOf(c) ==
    IF In(c, "put", Writes)
    THEN [stage |-> "open",
          write |-> [key |-> call[c].key, body |-> call[c].body,
                     prior |-> IF call[c].kind = "create" THEN Absent ELSE call[c].expected,
                     fenced |-> call[c].kind = "update"]]
    ELSE [stage |-> "idle"]

\* A late PUT can land only while nobody has locked the key since it was read.
Orphans ==
    {WriteOf(m.put, m.kind) :
        m \in {x \in late : x.kind \in Writes
                            /\ x.put.match.fence.owner = obj[x.put.key].fence.owner}}

Contract == INSTANCE StoreContract WITH
    value <- [k \in Keys |-> obj[k].body],
    fence <- [k \in Keys |-> obj[k].fence.owner],
    lease <- [c \in Clients |-> [key |-> lease[c].key, fence |-> lease[c].fence]],
    op <- [c \in Clients |-> OpOf(c)],
    orphans <- Orphans,
    AnswersMayBeLost <- TRUE

\* Conditional PUTs of whole envelopes by several processes, with phantoms,
\* retries and PUTs that arrive late, do nothing the atomic store could not.
ImplementsContract == Contract!Spec

=============================================================================
