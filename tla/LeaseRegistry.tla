---------------------------- MODULE LeaseRegistry ----------------------------
(***************************************************************************)
(* What GitBackend, ObjectStoreBackend and PostgresBackend have in common  *)
(* (src/store/git_backend.py, objectstore.py, postgres.py): the advisory   *)
(* lock registry each process keeps in memory (_locks under _lock_mutex)   *)
(* and the durable fence record of a key that write() checks a lease       *)
(* against.  The adapters differ in where the fence record lives and in    *)
(* how it is changed together with the value; they extend this module.     *)
(*                                                                         *)
(* _lock_mutex is held for as long as lock() or renew() talks to the       *)
(* remote store.  Another process has another registry and another mutex:  *)
(* it is never BUSY because of this one, it takes the fence over.          *)
(***************************************************************************)
EXTENDS Integers

CONSTANTS
    Keys,        \* document keys
    Bodies,      \* document bodies; a body stands for its SHA-256 too
    Absent,      \* no value at the key
    None,        \* no key, no body, no holder
    Clients,     \* threads that call the backend
    Instances,   \* backend objects, one per process
    InstanceOf,  \* the instance a client calls
    Generation,  \* the #knokeep-gen number of a body, or NoGeneration
    TTLs,        \* the ttl_s values callers pass to lock() and renew()
    MaxTime,     \* bound: the clock stops here
    MaxLocks     \* bound: lock() calls that reach the remote store

NoGeneration == -1

ASSUME SentinelAssumption ==
    /\ {Absent, None} \cap Bodies = {}
    /\ Absent # None
    /\ None \notin Keys \cup Clients

ASSUME ShapeAssumption ==
    /\ InstanceOf \in [Clients -> Instances]
    /\ Generation \in [Bodies -> Nat \cup {NoGeneration}]
    /\ TTLs \subseteq Nat \ {0}
    /\ {MaxTime, MaxLocks} \subseteq Nat

VARIABLES
    now,       \* time.time()
    tokens,    \* tokens drawn so far
    registry,  \* _locks of each instance: token and expiry of the holder of a key
    mutex,     \* _lock_mutex of each instance: the client inside lock() or renew()
    lease      \* the Lock each client got last from lock()

leases == <<tokens, registry, mutex, lease>>

-----------------------------------------------------------------------------
Entry == [token: Nat, expiry: Nat]
Fence == [token: Nat, expiry: Nat, owner: Nat, accepted: Nat]
Lease == [key: Keys \cup {None}, token: Nat, fence: Nat]

NoEntry == [token |-> 0, expiry |-> 0]
NoFence == [token |-> 0, expiry |-> 0, owner |-> 0, accepted |-> 0]
NoLease == [key |-> None, token |-> 0, fence |-> 0]

LeasesOK ==
    /\ {now, tokens} \subseteq Nat
    /\ registry \in [Instances -> [Keys -> Entry]]
    /\ mutex \in [Instances -> Clients \cup {None}]
    /\ lease \in [Clients -> Lease]

LeasesInit ==
    /\ now = 0
    /\ tokens = 0
    /\ registry = [i \in Instances |-> [k \in Keys |-> NoEntry]]
    /\ mutex = [i \in Instances |-> None]
    /\ lease = [c \in Clients |-> NoLease]

Caller(c) == InstanceOf[c]

TakeMutex(c) == mutex[Caller(c)] = None /\ mutex' = [mutex EXCEPT ![Caller(c)] = c]
ReleaseMutex(c) == mutex' = [mutex EXCEPT ![Caller(c)] = None]

-----------------------------------------------------------------------------
(* The fence record: token and expiry of the owner, the fence lock()       *)
(* allocated last, and the highest fence a write was accepted under.       *)

\* Fault: the fence is not compared with the owner's.
FenceOk_floor(l, f) == l.token # 0 /\ f.expiry > now /\ l.fence >= f.accepted

\* The lease is the durable owner's, unexpired, and not behind the floor.
FenceOk(l, f) ==
    /\ l.token = f.token
    /\ f.expiry > now
    /\ l.fence = f.owner
    /\ l.fence >= f.accepted

NextFence(f) == (IF f.owner > f.accepted THEN f.owner ELSE f.accepted) + 1

\* The record after lock() by token for ttl, and after renew().
Advanced(f, token, expiry) ==
    [f EXCEPT !.token = token, !.expiry = expiry, !.owner = NextFence(f)]
Renewed(f, expiry) == [f EXCEPT !.expiry = expiry]

GenerationOf(b) == IF b \in Bodies THEN Generation[b] ELSE NoGeneration

GenerationOk(new, old) ==
    \/ NoGeneration \in {GenerationOf(new), GenerationOf(old)}
    \/ GenerationOf(new) > GenerationOf(old)

-----------------------------------------------------------------------------
(* The registry.                                                           *)

\* lock(): the key is not held through this instance.
EntryFree(c, k) == registry[Caller(c)][k].expiry <= now

\* unlock(), renew(): this token holds the key through this instance.
OwnsEntry(c) ==
    /\ lease[c].key \in Keys
    /\ registry[Caller(c)][lease[c].key].token = lease[c].token
    /\ registry[Caller(c)][lease[c].key].expiry > now

SetEntry(c, k, token, expiry) ==
    registry' = [registry EXCEPT ![Caller(c)][k] = [token |-> token, expiry |-> expiry]]

\* The durable half landed: lock() enters the holder and returns its Lock.
Granted(c, k, token, expiry, fence) ==
    /\ SetEntry(c, k, token, expiry)
    /\ lease' = [lease EXCEPT ![c] = [key |-> k, token |-> token, fence |-> fence]]
    /\ ReleaseMutex(c)
    /\ UNCHANGED tokens

\* unlock(): only the registry forgets; the durable owner stays until expiry.
Released(c) ==
    /\ mutex[Caller(c)] = None
    /\ OwnsEntry(c)
    /\ SetEntry(c, lease[c].key, 0, 0)
    /\ UNCHANGED <<now, tokens, mutex, lease>>

\* A process dies: its registry, its mutex and its callers' leases are gone.
Forgotten(i) ==
    /\ registry' = [registry EXCEPT ![i] = [k \in Keys |-> NoEntry]]
    /\ mutex' = [mutex EXCEPT ![i] = None]
    /\ lease' = [c \in Clients |-> IF Caller(c) = i THEN NoLease ELSE lease[c]]
    /\ UNCHANGED <<now, tokens>>

=============================================================================
