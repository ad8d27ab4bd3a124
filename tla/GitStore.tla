------------------------------ MODULE GitStore -------------------------------
(***************************************************************************)
(* GitBackend (src/store/git_backend.py): the store is the tree at the tip *)
(* of one branch of a remote repository.  The value of a key is a blob;    *)
(* its fence record is a sidecar blob in the same tree.  Every change is a *)
(* commit on the captured head, published by a plain fast-forward push, so *)
(* a push lands only if nothing landed since the fetch.                    *)
(*                                                                         *)
(* The network may lose a push or its answer: the client gives up and the  *)
(* push is late; it may still land while the tip is the commit's parent.   *)
(* A fetch and the local steps on what it brought are one step.  A failure *)
(* before anything was sent (fetch, commit, scan) changes nothing and is a *)
(* stuttering step; so are BackendBusyError and False before the fetch.    *)
(*                                                                         *)
(* A definition named X_fault is X with a plausible programming fault.     *)
(***************************************************************************)
EXTENDS LeaseRegistry, FiniteSets

CONSTANTS
    MaxAttempts,  \* _FENCE_COMMIT_RETRY_ATTEMPTS
    MaxCommits,   \* bound: commits on the branch and in flight
    MaxFailures   \* bound: pushes the network fails and crashes

ASSUME GitAssumption ==
    MaxAttempts \in Nat \ {0} /\ {MaxCommits, MaxFailures} \subseteq Nat

VARIABLES
    tip,      \* the branch: its length, its tree, and the commit that made it
    pc,       \* where each client is in its call
    call,     \* arguments and local variables of that call
    late,     \* pushes whose client has given up, and what it was told
    failures  \* failed pushes and crashes so far

vars == <<now, leases, tip, pc, call, late, failures>>

-----------------------------------------------------------------------------
\* A commit sets the blob of a key, its sidecar, or both (None: unchanged).
NoSidecar == [NoFence EXCEPT !.token = -1]
Commit == [base: Nat, key: Keys, body: Bodies \cup {None}, sidecar: Fence \cup {NoSidecar}]
NoCommit == [base |-> 0, key |-> None, body |-> None, sidecar |-> NoSidecar]

Tip == [id: Nat, blob: [Keys -> Bodies \cup {Absent}], fence: [Keys -> Fence],
        made: Commit \cup {NoCommit}]

Call == [kind: {"create", "update", "lock", "renew", "none"},
         key: Keys \cup {None}, body: Bodies \cup {None}, expected: Bodies \cup {None},
         head: Tip, commit: Commit \cup {NoCommit},
         token: Nat, expiry: Nat, attempts: 0..MaxAttempts]

EmptyTip == [id |-> 0, blob |-> [k \in Keys |-> Absent], fence |-> [k \in Keys |-> NoFence],
             made |-> NoCommit]
NoCall == [kind |-> "none", key |-> None, body |-> None, expected |-> None,
           head |-> EmptyTip, commit |-> NoCommit, token |-> 0, expiry |-> 0, attempts |-> 0]

\* Types.  What is being pushed was built on the head the call captured, and
\* the retries of lock() and renew() are counted.
TypeOK ==
    /\ LeasesOK
    /\ tip \in Tip
    /\ pc \in [Clients -> {"idle", "decide", "push"}]
    /\ call \in [Clients -> Call]
    /\ \A c \in Clients : pc[c] = "push" => call[c].commit.base = call[c].head.id
    /\ \A m \in late : m.commit \in Commit /\ m.told \in {"NETWORK", "raised", "BUSY", "crash"}
    /\ failures \in Nat

Init ==
    /\ LeasesInit
    /\ tip = EmptyTip
    /\ pc = [c \in Clients |-> "idle"]
    /\ call = [c \in Clients |-> NoCall]
    /\ late = {}
    /\ failures = 0

Goto(c, label) == pc' = [pc EXCEPT ![c] = label]
Return(c) == Goto(c, "idle") /\ call' = [call EXCEPT ![c] = NoCall]

\* How many commits the calls under way may still push.
InFlight == Cardinality({c \in Clients : pc[c] # "idle"})
CommitBudget == tip.id + InFlight < MaxCommits

-----------------------------------------------------------------------------
(* The branch.                                                             *)

Applied(m) ==
    [id    |-> m.base + 1,
     blob  |-> IF m.body = None THEN tip.blob ELSE [tip.blob EXCEPT ![m.key] = m.body],
     fence |-> IF m.sidecar = NoSidecar THEN tip.fence
                                        ELSE [tip.fence EXCEPT ![m.key] = m.sidecar],
     made  |-> m]

\* A fast-forward.  Every other commit was built on the old tip and is lost.
Lands(m) ==
    /\ tip.id = m.base
    /\ tip' = Applied(m)
    /\ late' = {}

\* git answers "Everything up-to-date" to a push of the very commit at the tip:
\* two clients that build the same change in the same second build one commit.
UpToDate(m) == tip.made = m /\ UNCHANGED <<tip, late>>

\* The push reaches the remote and its answer the client.
Pushed(m) == Lands(m) \/ UpToDate(m)
Rejected(m) == tip.id # m.base

-----------------------------------------------------------------------------
(* write().                                                                *)

\* _fetch_head(): capture the tip.
BeginWrite(c, kind, k, b, e) ==
    /\ pc[c] = "idle"
    /\ CommitBudget
    /\ call' = [call EXCEPT ![c] = [NoCall EXCEPT !.kind = kind, !.key = k, !.body = b,
                                                  !.expected = e, !.head = tip]]
    /\ Goto(c, "decide")
    /\ UNCHANGED <<now, leases, tip, late, failures>>

BeginCreate(c) == \E k \in Keys, b \in Bodies : BeginWrite(c, "create", k, b, None)

\* An Overwrite carries a lease for the key it writes; the lease may be stale.
BeginUpdate(c) ==
    /\ lease[c].key \in Keys
    /\ \E b, e \in Bodies : BeginWrite(c, "update", lease[c].key, b, e)

Writing(c, label) == pc[c] = label /\ call[c].kind \in {"create", "update"}

Current(c) == call[c].head.blob[call[c].key]
Sidecar(c) == call[c].head.fence[call[c].key]

CreateAdmitted(c) == call[c].kind = "create" /\ Current(c) = Absent

\* Fault: the hash is left to git's fast-forward check.
UpdateAdmitted_anyHash(c) ==
    /\ call[c].kind = "update"
    /\ FenceOk(lease[c], Sidecar(c))
    /\ Current(c) # Absent

UpdateAdmitted(c) ==
    /\ call[c].kind = "update"
    /\ FenceOk(lease[c], Sidecar(c))
    /\ Current(c) = call[c].expected
    /\ GenerationOk(call[c].body, Current(c))

\* The commit: a create brings the blob, an update the blob and the sidecar
\* that accepts its fence.
WriteCommit(c) ==
    [base |-> call[c].head.id, key |-> call[c].key, body |-> call[c].body,
     sidecar |-> IF call[c].kind = "create" THEN NoSidecar
                 ELSE [Sidecar(c) EXCEPT !.accepted = lease[c].fence]]

BuildWrite(c) ==
    /\ Writing(c, "decide")
    /\ CreateAdmitted(c) \/ UpdateAdmitted(c)
    /\ call' = [call EXCEPT ![c].commit = WriteCommit(c)]
    /\ Goto(c, "push")
    /\ UNCHANGED <<now, leases, tip, late, failures>>

\* OK for a repeated create, EXISTS, STALE, or STALE(FENCE) after one re-read.
RefuseWrite(c) ==
    /\ Writing(c, "decide")
    /\ ~CreateAdmitted(c) /\ ~UpdateAdmitted(c)
    /\ Return(c)
    /\ UNCHANGED <<now, leases, tip, late, failures>>

\* OK.
PushWrite(c) ==
    /\ Writing(c, "push")
    /\ Pushed(call[c].commit)
    /\ Return(c)
    /\ UNCHANGED <<now, leases, failures>>

\* Re-read and report EXISTS, CONFLICT_UNKNOWN or STALE, without a retry.
PushWriteRejected(c) ==
    /\ Writing(c, "push")
    /\ Rejected(call[c].commit)
    /\ Return(c)
    /\ UNCHANGED <<now, leases, tip, late, failures>>

\* The push fails or times out: the client is told so, and the commit is late
\* (lost, if the tip has moved already).
GiveUp(c, told) ==
    /\ failures < MaxFailures
    /\ failures' = failures + 1
    /\ late' = late \cup {m \in {[commit |-> call[c].commit, told |-> told]} : ~Rejected(m.commit)}

\* ERROR(NETWORK) from git's exit code, GitBackendError from its timeout.
PushWriteFails(c) ==
    /\ Writing(c, "push")
    /\ \E told \in {"NETWORK", "raised"} : GiveUp(c, told)
    /\ Return(c)
    /\ UNCHANGED <<now, leases, tip>>

-----------------------------------------------------------------------------
(* lock() and renew(): the sidecar is read at a fresh head and pushed back *)
(* changed, again after a rejection, while the mutex is held.              *)

FenceCommit(c, head) ==
    [base |-> head.id, key |-> call[c].key, body |-> None,
     sidecar |-> IF call[c].kind = "lock"
                 THEN Advanced(head.fence[call[c].key], call[c].token, call[c].expiry)
                 ELSE Renewed(head.fence[call[c].key], call[c].expiry)]

\* The registry must not hold the key; draw a token.
BeginLock(c) ==
    \E k \in Keys, ttl \in TTLs :
        /\ pc[c] = "idle"
        /\ CommitBudget
        /\ tokens < MaxLocks
        /\ EntryFree(c, k)
        /\ TakeMutex(c)
        /\ tokens' = tokens + 1
        /\ call' = [call EXCEPT ![c] = [NoCall EXCEPT !.kind = "lock", !.key = k,
                        !.token = tokens + 1, !.expiry = now + ttl]]
        /\ Goto(c, "decide")
        /\ UNCHANGED <<now, registry, lease, tip, late, failures>>

\* The registry must hold the key for this token.
BeginRenew(c) ==
    \E ttl \in TTLs :
        /\ pc[c] = "idle"
        /\ CommitBudget
        /\ OwnsEntry(c)
        /\ TakeMutex(c)
        /\ call' = [call EXCEPT ![c] = [NoCall EXCEPT !.kind = "renew", !.key = lease[c].key,
                        !.token = lease[c].token, !.expiry = now + ttl]]
        /\ Goto(c, "decide")
        /\ UNCHANGED <<now, tokens, registry, lease, tip, late, failures>>

Fencing(c, label) == pc[c] = label /\ call[c].kind \in {"lock", "renew"}

\* Fetch, read the sidecar, build the commit.  renew() goes on only while the
\* sidecar names its token.
BuildFence(c) ==
    /\ Fencing(c, "decide")
    /\ call[c].kind = "renew" => tip.fence[call[c].key].token = call[c].token
    /\ call' = [call EXCEPT ![c] = [@ EXCEPT !.head = tip, !.commit = FenceCommit(c, tip),
                                             !.attempts = call[c].attempts + 1]]
    /\ Goto(c, "push")
    /\ UNCHANGED <<now, leases, tip, late, failures>>

\* False from renew(): another token owns the key now.
RenewSuperseded(c) ==
    /\ Fencing(c, "decide")
    /\ call[c].kind = "renew"
    /\ tip.fence[call[c].key].token # call[c].token
    /\ ReleaseMutex(c)
    /\ Return(c)
    /\ UNCHANGED <<now, tokens, registry, lease, tip, late, failures>>

PushLock(c) ==
    /\ Fencing(c, "push") /\ call[c].kind = "lock"
    /\ Pushed(call[c].commit)
    /\ Granted(c, call[c].key, call[c].token, call[c].expiry, call[c].commit.sidecar.owner)
    /\ Return(c)
    /\ UNCHANGED <<now, failures>>

PushRenew(c) ==
    /\ Fencing(c, "push") /\ call[c].kind = "renew"
    /\ Pushed(call[c].commit)
    /\ SetEntry(c, call[c].key, call[c].token, call[c].expiry)
    /\ ReleaseMutex(c)
    /\ Return(c)
    /\ UNCHANGED <<now, tokens, lease, failures>>

\* Rejected: fetch again, a bounded number of times.
RetryFence(c) ==
    /\ Fencing(c, "push")
    /\ Rejected(call[c].commit)
    /\ call[c].attempts < MaxAttempts
    /\ Goto(c, "decide")
    /\ UNCHANGED <<now, leases, tip, call, late, failures>>

\* BackendBusyError from lock(), False from renew().
GiveUpFence(c) ==
    /\ Fencing(c, "push")
    /\ Rejected(call[c].commit)
    /\ call[c].attempts = MaxAttempts
    /\ ReleaseMutex(c)
    /\ Return(c)
    /\ UNCHANGED <<now, tokens, registry, lease, tip, late, failures>>

\* Fault: renew() extends the entry before it knows that the push landed.
PushFenceFails_extends(c) ==
    /\ Fencing(c, "push")
    /\ GiveUp(c, "BUSY")
    /\ IF call[c].kind = "renew" THEN SetEntry(c, call[c].key, call[c].token, call[c].expiry)
                                 ELSE UNCHANGED registry
    /\ ReleaseMutex(c)
    /\ Return(c)
    /\ UNCHANGED <<now, tokens, lease, tip>>

\* The push fails or times out: same answers, and the commit is late.
PushFenceFails(c) ==
    /\ Fencing(c, "push")
    /\ GiveUp(c, "BUSY")
    /\ ReleaseMutex(c)
    /\ Return(c)
    /\ UNCHANGED <<now, tokens, registry, lease, tip>>

Unlock(c) ==
    /\ pc[c] = "idle"
    /\ Released(c)
    /\ UNCHANGED <<tip, pc, call, late, failures>>

-----------------------------------------------------------------------------
(* The network and the processes.                                          *)

\* The push of a client that has given up reaches the remote after all.
LateLands ==
    /\ \E m \in late : Lands(m.commit)
    /\ UNCHANGED <<now, leases, pc, call, failures>>

\* A process dies; what its callers were pushing is late.
Crash(i) ==
    /\ failures < MaxFailures
    /\ failures' = failures + 1
    /\ LET gone == {c \in Clients : Caller(c) = i} IN
        /\ late' = late \cup {[commit |-> call[c].commit, told |-> "crash"] :
                              c \in {x \in gone : pc[x] = "push" /\ ~Rejected(call[x].commit)}}
        /\ pc' = [c \in Clients |-> IF c \in gone THEN "idle" ELSE pc[c]]
        /\ call' = [c \in Clients |-> IF c \in gone THEN NoCall ELSE call[c]]
    /\ Forgotten(i)
    /\ UNCHANGED tip

Tick ==
    /\ now < MaxTime
    /\ now' = now + 1
    /\ UNCHANGED <<leases, tip, pc, call, late, failures>>

-----------------------------------------------------------------------------
Begin(c) ==
    BeginCreate(c) \/ BeginUpdate(c) \/ BeginLock(c) \/ BeginRenew(c) \/ Unlock(c)

\* The steps a client takes inside a call.
Continue(c) ==
    \/ BuildWrite(c) \/ RefuseWrite(c)
    \/ PushWrite(c) \/ PushWriteRejected(c) \/ PushWriteFails(c)
    \/ BuildFence(c) \/ RenewSuperseded(c)
    \/ PushLock(c) \/ PushRenew(c) \/ RetryFence(c) \/ GiveUpFence(c) \/ PushFenceFails(c)

Next ==
    \/ \E c \in Clients : Begin(c) \/ Continue(c)
    \/ LateLands
    \/ \E i \in Instances : Crash(i)
    \/ Tick

Spec == Init /\ [][Next]_vars

-----------------------------------------------------------------------------
(* What the adapter promises.                                              *)

\* A CAS-update lands, even late, only while its fence is still the one lock()
\* of any process pushed last.
LandsUnderCurrentFence ==
    [][LET m == tip'.made IN
       tip' # tip /\ m.body # None /\ m.sidecar # NoSidecar
       => m.sidecar.accepted = tip.fence[m.key].owner]_vars

\* A holder its own process keeps others BUSY for can write: while the sidecar
\* names its token, the durable lease lasts at least as long as the entry
\* (lock() and renew() enter what they have pushed, and only then).
EntryIsDurable ==
    \A i \in Instances, k \in Keys :
        registry[i][k].token # 0 /\ registry[i][k].token = tip.fence[k].token
        => registry[i][k].expiry <= tip.fence[k].expiry

-----------------------------------------------------------------------------
(* What the documentation says and the code does not do.                   *)

\* Comment of write(): the re-read of a CAS-update that lost the race for the
\* branch finds the winner's hash, not the one it expected.
LoserSeesWinner ==
    [][\A c \in Clients :
        PushWriteRejected(c) /\ call[c].kind = "update"
        => tip.blob[call[c].key] # call[c].expected]_vars

=============================================================================
