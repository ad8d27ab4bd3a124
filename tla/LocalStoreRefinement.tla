------------------------ MODULE LocalStoreRefinement -------------------------
(* LocalBackend implements the store contract when no journal append is    *)
(* torn and os.replace does not fail (with either, it does not: see the    *)
(* properties at the end of LocalStore).                                   *)
EXTENDS LocalStore

\* The version replay of the journal would restore.
Replayed(k) == IF Latest(k) = 0 THEN Absent ELSE journal[Latest(k)].body

\* A name reservation is not a value.
Visible(b) == IF b = Empty THEN Absent ELSE b

\* While a process serves, the value of a key is what read() returns; while
\* none does, it is what the next one will restore.
Value == [k \in Keys |-> IF Up THEN Visible(published[k].body) ELSE Replayed(k)]

\* A lease is granted when its fence is durable, before lock() returns.
LeaseOf(c) ==
    IF pc[c] = "l_advisory" THEN [key |-> call[c].key, fence |-> call[c].own.fence]
    ELSE [key |-> lease[c].key, fence |-> lease[c].fence]

OpenWrite(c) ==
    [key |-> call[c].key, body |-> call[c].body,
     prior |-> IF call[c].expected \in Bodies THEN call[c].expected ELSE Absent,
     fenced |-> call[c].expected # None]

\* A write is open while cas.lock is held for it, and landed once readers see
\* it.  A write that lost its fence is decided.
OpOf(c) ==
    CASE pc[c] \in {"w_decide", "w_append", "w_reserve", "w_replace"}
            -> [stage |-> "open", write |-> OpenWrite(c)]
      [] pc[c] = "w_sync" -> [stage |-> "landed"]
      [] OTHER -> [stage |-> "idle"]

\* The record at position p is being published by the call that wrote it.
InFlight(p) == p = Len(journal) /\ \E c \in Clients : pc[c] \in {"w_reserve", "w_replace"}

\* Records replay would restore over what readers see: left by dead processes.
Orphan(k) ==
    LET r == journal[Latest(k)] IN
    [key |-> k, body |-> r.body,
     prior |-> IF r.base = 0 THEN Absent ELSE journal[r.base].body,
     fenced |-> r.fence > 0]

Orphans ==
    {Orphan(k) : k \in {x \in Keys : Up /\ Latest(x) > published[x].pos /\ ~InFlight(Latest(x))}}

Contract == INSTANCE StoreContract WITH
    value <- Value,
    fence <- [k \in Keys |-> owner[k].fence],
    lease <- [c \in Clients |-> LeaseOf(c)],
    op <- [c \in Clients |-> OpOf(c)],
    orphans <- Orphans,
    AnswersMayBeLost <- FALSE

\* The journal, publish and resume protocol of LocalBackend, in several
\* processes that crash and restart, does nothing the atomic store could not.
ImplementsContract == Contract!Spec

=============================================================================
