----------------------------- MODULE ObjectStore -----------------------------
(***************************************************************************)
(* ObjectStoreBackend and SigV4Client (src/store/objectstore.py): one      *)
(* object per key holds the value and the fence record (the envelope).     *)
(* lock() on a key without a value creates a phantom: fence, no value.     *)
(* Every change is one conditional PUT: If-None-Match:* for a new object,  *)
(* If-Match with the ETag of the object last read for any other.  An ETag  *)
(* is a digest of the content, so equal objects have equal ETags.          *)
(*                                                                         *)
(* A PUT that fails before it was sent never arrives.  One that fails in   *)
(* flight, or is answered by 5xx or by nothing, is late: it may arrive     *)
(* later or never.  A GET and the local steps on what it brought are one   *)
(* step; a GET that fails changes nothing and is a stuttering step.        *)
(* Objects that are no envelopes are not modelled.                         *)
(*                                                                         *)
(* A definition named X_fault is X with a plausible programming fault.     *)
(***************************************************************************)
EXTENDS LeaseRegistry, FiniteSets

CONSTANTS
    MaxAttempts,  \* _FENCE_RETRY_ATTEMPTS
    MaxPolls,     \* bound: polls of the settle loop before its deadline
    MaxFailures   \* bound: requests the network fails and crashes

ASSUME ObjectAssumption ==
    MaxAttempts \in Nat \ {0} /\ {MaxPolls, MaxFailures} \subseteq Nat

VARIABLES
    obj,      \* the object of each key, or NoObject
    pc,       \* where each client is in its call
    call,     \* arguments and local variables of that call
    late,     \* PUTs whose client has given up, and what it was told
    failures  \* failed PUTs and crashes so far

vars == <<now, leases, obj, pc, call, late, failures>>

-----------------------------------------------------------------------------
Object   == [body: Bodies \cup {Absent}, fence: Fence]
NoObject == [body |-> Absent, fence |-> NoFence]

\* A PUT: the content its precondition names (NoObject: If-None-Match:*).
Put   == [key: Keys, match: Object, object: Object]
NoPut == [key |-> None, match |-> NoObject, object |-> NoObject]

Writes == {"create", "update"}
Fences == {"lock", "renew"}
Call == [kind: Writes \cup Fences \cup {"none"},
         key: Keys \cup {None}, body: Bodies \cup {None}, expected: Bodies \cup {None},
         put: Put \cup {NoPut}, token: Nat, expiry: Nat,
         attempts: 0..MaxAttempts, polls: 0..MaxPolls]
NoCall == [kind |-> "none", key |-> None, body |-> None, expected |-> None, put |-> NoPut,
           token |-> 0, expiry |-> 0, attempts |-> 0, polls |-> 0]

Told == {"NETWORK", "TIMEOUT_AFTER_COMMIT", "CONFLICT_UNKNOWN", "BUSY", "crash"}

\* Types.  The retries of a call and the polls of its settle loop are counted.
TypeOK ==
    /\ LeasesOK
    /\ obj \in [Keys -> Object]
    /\ pc \in [Clients -> {"idle", "get", "put", "settle"}]
    /\ call \in [Clients -> Call]
    /\ \A m \in late : m.put \in Put /\ m.kind \in Writes \cup Fences /\ m.told \in Told
    /\ failures \in Nat

Init ==
    /\ LeasesInit
    /\ obj = [k \in Keys |-> NoObject]
    /\ pc = [c \in Clients |-> "idle"]
    /\ call = [c \in Clients |-> NoCall]
    /\ late = {}
    /\ failures = 0

Goto(c, label) == pc' = [pc EXCEPT ![c] = label]
Return(c) == Goto(c, "idle") /\ call' = [call EXCEPT ![c] = NoCall]
In(c, label, kinds) == pc[c] = label /\ call[c].kind \in kinds

Seen(c) == obj[call[c].key]

\* The precondition of a PUT holds when it arrives.
Matches(put) == obj[put.key] = put.match
Lands(put) == Matches(put) /\ obj' = [obj EXCEPT ![put.key] = put.object]

\* Prepare a PUT on the object just read.
Prepare(c, object, attempts) ==
    /\ LET put == [key |-> call[c].key, match |-> Seen(c), object |-> object] IN
        call' = [call EXCEPT ![c] = [@ EXCEPT !.put = put, !.attempts = attempts]]
    /\ Goto(c, "put")

-----------------------------------------------------------------------------
(* write(), create-only: PUT at once; after a 412 look what is there.      *)

BeginCreate(c) ==
    \E k \in Keys, b \in Bodies :
        /\ pc[c] = "idle"
        /\ call' = [call EXCEPT ![c] = [NoCall EXCEPT !.kind = "create", !.key = k, !.body = b,
                        !.put = [key |-> k, match |-> NoObject,
                                 object |-> [body |-> b, fence |-> NoFence]]]]
        /\ Goto(c, "put")
        /\ UNCHANGED <<now, leases, obj, late, failures>>

\* Fault: the phantom is replaced by a fresh envelope.
FillPhantom_fresh(c) ==
    /\ In(c, "get", {"create"})
    /\ Seen(c).body = Absent
    /\ call[c].attempts < MaxAttempts
    /\ Prepare(c, [body |-> call[c].body, fence |-> NoFence], call[c].attempts + 1)
    /\ UNCHANGED <<now, leases, obj, late, failures>>

\* No value yet: fill the phantom in, with its owner and fence as read.
FillPhantom(c) ==
    /\ In(c, "get", {"create"})
    /\ Seen(c).body = Absent
    /\ call[c].attempts < MaxAttempts
    /\ Prepare(c, [Seen(c) EXCEPT !.body = call[c].body], call[c].attempts + 1)
    /\ UNCHANGED <<now, leases, obj, late, failures>>

\* OK if the value is the one to create, EXISTS if it is another;
\* CONFLICT_UNKNOWN when the attempts are used up.
ResolveCreate(c) ==
    /\ In(c, "get", {"create"})
    /\ Seen(c).body # Absent \/ call[c].attempts = MaxAttempts
    /\ Return(c)
    /\ UNCHANGED <<now, leases, obj, late, failures>>

-----------------------------------------------------------------------------
(* write(), CAS-update: one GET brings fence, value and ETag.              *)

\* An Overwrite carries a lease for the key it writes; the lease may be stale.
BeginUpdate(c) ==
    \E b, e \in Bodies :
        /\ pc[c] = "idle"
        /\ lease[c].key \in Keys
        /\ call' = [call EXCEPT ![c] = [NoCall EXCEPT !.kind = "update", !.key = lease[c].key,
                                                      !.body = b, !.expected = e]]
        /\ Goto(c, "get")
        /\ UNCHANGED <<now, leases, obj, late, failures>>

\* Fault: the hash is left to If-Match.
UpdateAdmitted_anyHash(c) ==
    /\ FenceOk(lease[c], Seen(c).fence)
    /\ Seen(c).body # Absent
    /\ GenerationOk(call[c].body, Seen(c).body)

UpdateAdmitted(c) ==
    /\ FenceOk(lease[c], Seen(c).fence)
    /\ Seen(c).body = call[c].expected
    /\ GenerationOk(call[c].body, Seen(c).body)

AdmitUpdate(c) ==
    /\ In(c, "get", {"update"})
    /\ UpdateAdmitted(c)
    /\ Prepare(c, [body |-> call[c].body,
                   fence |-> [Seen(c).fence EXCEPT !.accepted = lease[c].fence]], 0)
    /\ UNCHANGED <<now, leases, obj, late, failures>>

\* STALE: no value, another value, or a generation that does not rise.
RefuseUpdate(c) ==
    /\ In(c, "get", {"update"})
    /\ ~UpdateAdmitted(c)
    /\ Seen(c) = NoObject \/ FenceOk(lease[c], Seen(c).fence)
    /\ Return(c)
    /\ UNCHANGED <<now, leases, obj, late, failures>>

\* STALE(FENCE), once the loop below has settled.
LoseFence(c) ==
    /\ In(c, "get", {"update"})
    /\ Seen(c) # NoObject /\ ~FenceOk(lease[c], Seen(c).fence)
    /\ Goto(c, "settle")
    /\ UNCHANGED <<now, leases, obj, call, late, failures>>

\* The owner's fence is not consumed by a write yet, and its lease lasts.
Pending(f) == f.owner > f.accepted /\ f.expiry > now

Settled(c) == Seen(c).body # call[c].expected \/ ~Pending(Seen(c).fence)

\* Report the hash read last: it moved, nobody is about to move it, or the
\* deadline passed.
SettleReturns(c) ==
    /\ In(c, "settle", {"update"})
    /\ Settled(c) \/ call[c].polls = MaxPolls
    /\ Return(c)
    /\ UNCHANGED <<now, leases, obj, late, failures>>

SettlePolls(c) ==
    /\ In(c, "settle", {"update"})
    /\ ~Settled(c) /\ call[c].polls < MaxPolls
    /\ call' = [call EXCEPT ![c].polls = @ + 1]
    /\ UNCHANGED <<now, leases, obj, pc, late, failures>>

-----------------------------------------------------------------------------
(* lock() and renew(): the envelope is read and put back with its fence    *)
(* changed, again after a 412, while the mutex is held.                    *)

BeginLock(c) ==
    \E k \in Keys, ttl \in TTLs :
        /\ pc[c] = "idle"
        /\ tokens < MaxLocks
        /\ EntryFree(c, k)
        /\ TakeMutex(c)
        /\ tokens' = tokens + 1
        /\ call' = [call EXCEPT ![c] = [NoCall EXCEPT !.kind = "lock", !.key = k,
                        !.token = tokens + 1, !.expiry = now + ttl]]
        /\ Goto(c, "get")
        /\ UNCHANGED <<now, registry, lease, obj, late, failures>>

BeginRenew(c) ==
    \E ttl \in TTLs :
        /\ pc[c] = "idle"
        /\ OwnsEntry(c)
        /\ TakeMutex(c)
        /\ call' = [call EXCEPT ![c] = [NoCall EXCEPT !.kind = "renew", !.key = lease[c].key,
                        !.token = lease[c].token, !.expiry = now + ttl]]
        /\ Goto(c, "get")
        /\ UNCHANGED <<now, tokens, registry, lease, obj, late, failures>>

\* The fence record lock() or renew() puts back.
NewFence(c) ==
    IF call[c].kind = "lock" THEN Advanced(Seen(c).fence, call[c].token, call[c].expiry)
                             ELSE Renewed(Seen(c).fence, call[c].expiry)

\* _read_envelope(), on behalf of lock(), or of renew() while its token owns.
PrepareFence(c) ==
    /\ In(c, "get", Fences)
    /\ call[c].kind = "renew" => Seen(c).fence.token = call[c].token
    /\ Prepare(c, [Seen(c) EXCEPT !.fence = NewFence(c)], call[c].attempts + 1)
    /\ UNCHANGED <<now, leases, obj, late, failures>>

RenewSuperseded(c) ==
    /\ In(c, "get", {"renew"})
    /\ Seen(c).fence.token # call[c].token
    /\ ReleaseMutex(c)
    /\ Return(c)
    /\ UNCHANGED <<now, tokens, registry, lease, obj, late, failures>>

Unlock(c) ==
    /\ pc[c] = "idle"
    /\ Released(c)
    /\ UNCHANGED <<obj, pc, call, late, failures>>

-----------------------------------------------------------------------------
(* The answer to a PUT.                                                    *)

\* 200 for write(): OK.
WriteLands(c) ==
    /\ In(c, "put", Writes)
    /\ Lands(call[c].put)
    /\ Return(c)
    /\ UNCHANGED <<now, leases, late, failures>>

LockLands(c) ==
    /\ In(c, "put", {"lock"})
    /\ Lands(call[c].put)
    /\ Granted(c, call[c].key, call[c].token, call[c].expiry, call[c].put.object.fence.owner)
    /\ Return(c)
    /\ UNCHANGED <<now, late, failures>>

RenewLands(c) ==
    /\ In(c, "put", {"renew"})
    /\ Lands(call[c].put)
    /\ SetEntry(c, call[c].key, call[c].token, call[c].expiry)
    /\ ReleaseMutex(c)
    /\ Return(c)
    /\ UNCHANGED <<now, tokens, lease, late, failures>>

\* Fault: lock() and renew() try again for as long as they are refused.
RefusedRetries_unbounded(c) ==
    /\ In(c, "put", {"create"} \cup Fences)
    /\ ~Matches(call[c].put)
    /\ Goto(c, "get") /\ call' = [call EXCEPT ![c].put = NoPut]
    /\ UNCHANGED <<now, leases, obj, late, failures>>

\* 412.  A create looks what is there; lock() and renew() read again.
RefusedRetries(c) ==
    /\ In(c, "put", {"create"} \cup Fences)
    /\ ~Matches(call[c].put)
    /\ call[c].kind \in Fences => call[c].attempts < MaxAttempts
    /\ Goto(c, "get") /\ call' = [call EXCEPT ![c].put = NoPut]
    /\ UNCHANGED <<now, leases, obj, late, failures>>

\* 412.  STALE, once the loop has settled: lock() may have moved the ETag.
UpdateRefused(c) ==
    /\ In(c, "put", {"update"})
    /\ ~Matches(call[c].put)
    /\ Goto(c, "settle") /\ call' = [call EXCEPT ![c].put = NoPut]
    /\ UNCHANGED <<now, leases, obj, late, failures>>

\* 412 for the last time: BackendBusyError from lock(), False from renew().
FenceGivesUp(c) ==
    /\ In(c, "put", Fences)
    /\ ~Matches(call[c].put)
    /\ call[c].attempts = MaxAttempts
    /\ ReleaseMutex(c)
    /\ Return(c)
    /\ UNCHANGED <<now, tokens, registry, lease, obj, late, failures>>

\* What the caller is told of a PUT that failed while connecting, while
\* sending, or while waiting for its answer (attempts > 0: a create that
\* fills a phantom in).
ToldAfter(c, phase) ==
    CASE call[c].kind \in Fences -> "BUSY"
      [] call[c].attempts > 0 -> "CONFLICT_UNKNOWN"
      [] phase = "connect" -> "NETWORK"
      [] OTHER -> "TIMEOUT_AFTER_COMMIT"

\* The PUT is late unless nothing was sent.
Fails(c, phase) ==
    /\ failures < MaxFailures
    /\ failures' = failures + 1
    /\ late' = IF phase = "connect" THEN late
               ELSE late \cup {[put |-> call[c].put, kind |-> call[c].kind,
                                told |-> ToldAfter(c, phase)]}

WriteFails(c) ==
    /\ In(c, "put", Writes)
    /\ \E phase \in {"connect", "send", "answer"} : Fails(c, phase)
    /\ Return(c)
    /\ UNCHANGED <<now, leases, obj>>

\* Fault: renew() extends the entry before it knows that the PUT landed.
FenceFails_extends(c) ==
    /\ In(c, "put", Fences)
    /\ \E phase \in {"connect", "send", "answer"} : Fails(c, phase)
    /\ IF call[c].kind = "renew" THEN SetEntry(c, call[c].key, call[c].token, call[c].expiry)
                                 ELSE UNCHANGED registry
    /\ ReleaseMutex(c)
    /\ Return(c)
    /\ UNCHANGED <<now, tokens, lease, obj>>

FenceFails(c) ==
    /\ In(c, "put", Fences)
    /\ \E phase \in {"connect", "send", "answer"} : Fails(c, phase)
    /\ ReleaseMutex(c)
    /\ Return(c)
    /\ UNCHANGED <<now, tokens, registry, lease, obj>>

-----------------------------------------------------------------------------
(* The network and the processes.                                          *)

LateLands ==
    /\ \E m \in late : Lands(m.put) /\ late' = late \ {m}
    /\ UNCHANGED <<now, leases, pc, call, failures>>

Crash(i) ==
    /\ failures < MaxFailures
    /\ failures' = failures + 1
    /\ LET gone == {c \in Clients : Caller(c) = i} IN
        /\ late' = late \cup {[put |-> call[c].put, kind |-> call[c].kind, told |-> "crash"] :
                              c \in {x \in gone : pc[x] = "put"}}
        /\ pc' = [c \in Clients |-> IF c \in gone THEN "idle" ELSE pc[c]]
        /\ call' = [c \in Clients |-> IF c \in gone THEN NoCall ELSE call[c]]
    /\ Forgotten(i)
    /\ UNCHANGED obj

Tick ==
    /\ now < MaxTime
    /\ now' = now + 1
    /\ UNCHANGED <<leases, obj, pc, call, late, failures>>

-----------------------------------------------------------------------------
Begin(c) ==
    BeginCreate(c) \/ BeginUpdate(c) \/ BeginLock(c) \/ BeginRenew(c) \/ Unlock(c)

\* The steps a client takes inside a call.
Continue(c) ==
    \/ FillPhantom(c) \/ ResolveCreate(c)
    \/ AdmitUpdate(c) \/ RefuseUpdate(c) \/ LoseFence(c) \/ SettleReturns(c) \/ SettlePolls(c)
    \/ PrepareFence(c) \/ RenewSuperseded(c)
    \/ WriteLands(c) \/ LockLands(c) \/ RenewLands(c)
    \/ RefusedRetries(c) \/ UpdateRefused(c) \/ FenceGivesUp(c)
    \/ WriteFails(c) \/ FenceFails(c)

Next ==
    \/ \E c \in Clients : Begin(c) \/ Continue(c)
    \/ LateLands
    \/ \E i \in Instances : Crash(i)
    \/ Tick

Spec == Init /\ [][Next]_vars

-----------------------------------------------------------------------------
(* What the adapter promises.                                              *)

\* The owner fence and the accepted fence of a key never go down: no create
\* that fills a phantom, no lock(), renew() or update, and no late PUT of
\* them, puts back an envelope older than the one it replaces.
FencesNeverRegress ==
    [][\A k \in Keys : /\ obj'[k].fence.owner >= obj[k].fence.owner
                       /\ obj'[k].fence.accepted >= obj[k].fence.accepted]_vars

\* While the envelope names the token of a holder, the durable lease lasts at
\* least as long as the entry its process keeps others BUSY with.
EntryIsDurable ==
    \A i \in Instances, k \in Keys :
        registry[i][k].token # 0 /\ registry[i][k].token = obj[k].fence.token
        => registry[i][k].expiry <= obj[k].fence.expiry

-----------------------------------------------------------------------------
(* What the documentation says and the code does not do.                   *)

\* Comment of _FENCE_LOSS_SETTLE_MAX_S: no fenced write can land after the
\* owner's lease expired.
NoLandingAfterExpiry ==
    [][\A c \in Clients :
        WriteLands(c) /\ call[c].kind = "update" => obj[call[c].key].fence.expiry > now]_vars

=============================================================================
