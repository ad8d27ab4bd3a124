---------------------------- MODULE PostgresStore ----------------------------
(***************************************************************************)
(* PostgresBackend (src/store/postgres.py): a store row and a fence row    *)
(* per key.  Every operation is one READ COMMITTED transaction: its        *)
(* statements wait for the rows they lock, each sees what was committed    *)
(* when it started, and COMMIT makes its changes visible and frees its     *)
(* rows.  A row that is not there cannot be locked; the INSERT of a create *)
(* makes a second create of the key wait.                                  *)
(*                                                                         *)
(* lock_timeout ends a wait with a rollback (BUSY).  A dropped connection  *)
(* rolls back too, unless COMMIT was under way: then the server, which     *)
(* keeps the rows locked, commits or rolls back later.  A failure before   *)
(* the first row is locked is a stuttering step.                           *)
(*                                                                         *)
(* A definition named X_fault is X with a plausible programming fault.     *)
(***************************************************************************)
EXTENDS LeaseRegistry

CONSTANTS
    Lost,         \* a session whose client is gone, in the middle of a COMMIT
    MaxPolls,     \* bound: polls of the settle loop before its deadline
    MaxFailures   \* bound: lock timeouts, dropped connections and crashes

ASSUME PostgresAssumption ==
    /\ Lost \notin Clients \cup {None}
    /\ {MaxPolls, MaxFailures} \subseteq Nat

VARIABLES
    value,      \* store rows: the committed body of each key, or Absent
    fence,      \* fence rows: the committed fence record of each key
    storeLock,  \* the session that has locked the store row of a key
    fenceLock,  \* the session that has locked the fence row of a key
    pc,         \* where each client is in its call
    call,       \* arguments and local variables of that call
    lost,       \* the change a lost session is committing at a key
    failures    \* lock timeouts, dropped connections and crashes so far

rows == <<value, fence>>
rowLocks == <<storeLock, fenceLock>>
vars == <<now, leases, rows, rowLocks, pc, call, lost, failures>>

-----------------------------------------------------------------------------
Writes == {"create", "update"}
Fences == {"lock", "renew"}

\* What a transaction has changed: the body (None: unchanged) and the fence row.
Change   == [body: Bodies \cup {None}, fence: Fence]
NoChange == [body |-> None, fence |-> NoFence]

\* hashAt is history: the accepted fence when the settle loop read the hash.
Call == [kind: Writes \cup Fences \cup {"none"},
         key: Keys \cup {None}, body: Bodies \cup {None}, expected: Bodies \cup {None},
         hash: Bodies \cup {Absent}, row: Fence, hashAt: Nat, change: Change,
         token: Nat, expiry: Nat, polls: 0..MaxPolls]
NoCall == [kind |-> "none", key |-> None, body |-> None, expected |-> None, hash |-> Absent,
           row |-> NoFence, hashAt |-> 0, change |-> NoChange,
           token |-> 0, expiry |-> 0, polls |-> 0]

Pcs == {"idle", "store_row", "fence_row", "commit", "settle_1", "settle_2", "settle_3"}

\* Types.  A client holds rows only in its transaction, and its rows only there.
TypeOK ==
    /\ LeasesOK
    /\ value \in [Keys -> Bodies \cup {Absent}]
    /\ fence \in [Keys -> Fence]
    /\ storeLock \in [Keys -> Clients \cup {None, Lost}]
    /\ fenceLock \in [Keys -> Clients \cup {None, Lost}]
    /\ pc \in [Clients -> Pcs]
    /\ call \in [Clients -> Call]
    /\ lost \in [Keys -> Change \cup {NoChange}]
    /\ failures \in Nat
    /\ \A k \in Keys, c \in Clients :
        /\ storeLock[k] = c => pc[c] \in {"fence_row", "commit"} /\ call[c].key = k
        /\ fenceLock[k] = c <=> pc[c] = "commit" /\ call[c].key = k

Init ==
    /\ LeasesInit
    /\ value = [k \in Keys |-> Absent]
    /\ fence = [k \in Keys |-> NoFence]
    /\ storeLock = [k \in Keys |-> None]
    /\ fenceLock = [k \in Keys |-> None]
    /\ pc = [c \in Clients |-> "idle"]
    /\ call = [c \in Clients |-> NoCall]
    /\ lost = [k \in Keys |-> NoChange]
    /\ failures = 0

Goto(c, label) == pc' = [pc EXCEPT ![c] = label]
Return(c) == Goto(c, "idle") /\ call' = [call EXCEPT ![c] = NoCall]
In(c, label, kinds) == pc[c] = label /\ call[c].kind \in kinds

Start(c, new, label) ==
    /\ pc[c] = "idle"
    /\ call' = [call EXCEPT ![c] = new]
    /\ Goto(c, label)

\* The rows of a session pass to another, or to nobody.
HandOver(c, to) ==
    /\ storeLock' = [k \in Keys |-> IF storeLock[k] = c THEN to ELSE storeLock[k]]
    /\ fenceLock' = [k \in Keys |-> IF fenceLock[k] = c THEN to ELSE fenceLock[k]]

\* COMMIT of a transaction without changes, or ROLLBACK.
FreeRows(c) == HandOver(c, None) /\ UNCHANGED rows

Apply(k, change) ==
    /\ value' = [value EXCEPT ![k] = IF change.body = None THEN @ ELSE change.body]
    /\ fence' = [fence EXCEPT ![k] = change.fence]

\* SELECT ... FOR UPDATE of the fence row, or an upsert of it.
TakeFenceRow(c) ==
    /\ fenceLock[call[c].key] = None
    /\ fenceLock' = [fenceLock EXCEPT ![call[c].key] = c]

FenceRow(c) == fence[call[c].key]

\* The last statement before COMMIT.
Stage(c, change) ==
    /\ call' = [call EXCEPT ![c].change = change]
    /\ Goto(c, "commit")

-----------------------------------------------------------------------------
(* write(), create-only: INSERT ... ON CONFLICT DO NOTHING, then the upsert *)
(* of the fence row.                                                        *)

BeginCreate(c) ==
    \E k \in Keys, b \in Bodies :
        /\ Start(c, [NoCall EXCEPT !.kind = "create", !.key = k, !.body = b], "store_row")
        /\ UNCHANGED <<now, leases, rows, rowLocks, lost, failures>>

\* Waits while another create has inserted the key and not committed.
InsertRow(c) ==
    /\ In(c, "store_row", {"create"})
    /\ value[call[c].key] = Absent
    /\ storeLock[call[c].key] = None
    /\ storeLock' = [storeLock EXCEPT ![call[c].key] = c]
    /\ Goto(c, "fence_row")
    /\ UNCHANGED <<now, leases, rows, fenceLock, call, lost, failures>>

\* 0 rows inserted: OK if the stored body is the one to create, else EXISTS.
CreateExists(c) ==
    /\ In(c, "store_row", {"create"})
    /\ value[call[c].key] # Absent
    /\ Return(c)
    /\ UNCHANGED <<now, leases, rows, rowLocks, lost, failures>>

UpsertFence(c) ==
    /\ In(c, "fence_row", {"create"})
    /\ TakeFenceRow(c)
    /\ Stage(c, [body |-> call[c].body, fence |-> [FenceRow(c) EXCEPT !.accepted = 0]])
    /\ UNCHANGED <<now, leases, rows, storeLock, lost, failures>>

-----------------------------------------------------------------------------
(* write(), CAS-update: store row, then fence row, both FOR UPDATE.        *)

\* An Overwrite carries a lease for the key it writes; the lease may be stale.
BeginUpdate(c) ==
    \E b, e \in Bodies :
        /\ lease[c].key \in Keys
        /\ Start(c, [NoCall EXCEPT !.kind = "update", !.key = lease[c].key,
                                   !.body = b, !.expected = e], "store_row")
        /\ UNCHANGED <<now, leases, rows, rowLocks, lost, failures>>

\* A row that is not there, or not committed, is not locked.
SelectStoreRow(c) ==
    LET k == call[c].key IN
    /\ In(c, "store_row", {"update"})
    /\ value[k] # Absent => storeLock[k] = None
    /\ storeLock' = IF value[k] = Absent THEN storeLock ELSE [storeLock EXCEPT ![k] = c]
    /\ call' = [call EXCEPT ![c].hash = value[k]]
    /\ Goto(c, "fence_row")
    /\ UNCHANGED <<now, leases, rows, fenceLock, lost, failures>>

FenceRowFree(c) == fenceLock[call[c].key] = None

\* Fault: the generations are not compared.
UpdateAdmitted_anyGeneration(c) ==
    /\ call[c].hash = call[c].expected
    /\ FenceOk(lease[c], FenceRow(c))

\* Fault: UPDATE without the version_hash condition.
UpdateAdmitted_anyHash(c) ==
    /\ call[c].hash # Absent
    /\ FenceOk(lease[c], FenceRow(c))
    /\ GenerationOk(call[c].body, call[c].hash)

UpdateAdmitted(c) ==
    /\ call[c].hash = call[c].expected
    /\ FenceOk(lease[c], FenceRow(c))
    /\ GenerationOk(call[c].body, call[c].hash)

\* The conditional UPDATE, and the fence it is accepted under.
UpdateRows(c) ==
    /\ In(c, "fence_row", {"update"})
    /\ TakeFenceRow(c)
    /\ UpdateAdmitted(c)
    /\ Stage(c, [body |-> call[c].body,
                 fence |-> [FenceRow(c) EXCEPT !.accepted = lease[c].fence]])
    /\ UNCHANGED <<now, leases, rows, storeLock, lost, failures>>

\* STALE: no row, another value, or a generation that does not rise.
RefuseUpdate(c) ==
    /\ In(c, "fence_row", {"update"})
    /\ FenceRowFree(c)
    /\ FenceOk(lease[c], FenceRow(c)) /\ ~UpdateAdmitted(c)
    /\ FreeRows(c)
    /\ Return(c)
    /\ UNCHANGED <<now, leases, lost, failures>>

\* Fault: no commit before the settle loop, which never ends the transaction.
LoseFence_open(c) ==
    /\ In(c, "fence_row", {"update"})
    /\ FenceRowFree(c)
    /\ ~FenceOk(lease[c], FenceRow(c))
    /\ Goto(c, "settle_1")
    /\ call' = [call EXCEPT ![c].hash = Absent]
    /\ UNCHANGED <<now, leases, rows, rowLocks, lost, failures>>

\* STALE(FENCE): free the rows, which the owner needs, then settle.
LoseFence(c) ==
    /\ In(c, "fence_row", {"update"})
    /\ FenceRowFree(c)
    /\ ~FenceOk(lease[c], FenceRow(c))
    /\ FreeRows(c)
    /\ Goto(c, "settle_1")
    /\ call' = [call EXCEPT ![c].hash = Absent]
    /\ UNCHANGED <<now, leases, lost, failures>>

ReadFence(c) == call' = [call EXCEPT ![c].row = FenceRow(c)]
ReadHash(c)  == call' = [call EXCEPT ![c].hash = value[call[c].key],
                                     ![c].hashAt = FenceRow(c).accepted]

\* Fault: the store row is read first.
SettleReads_hashFirst(c) ==
    /\ \/ pc[c] = "settle_1" /\ ReadHash(c) /\ Goto(c, "settle_2")
       \/ pc[c] = "settle_2" /\ ReadFence(c) /\ Goto(c, "settle_3")
    /\ UNCHANGED <<now, leases, rows, rowLocks, lost, failures>>

\* Two statements, two snapshots: the fence row, then the store row.
SettleReads(c) ==
    /\ \/ pc[c] = "settle_1" /\ ReadFence(c) /\ Goto(c, "settle_2")
       \/ pc[c] = "settle_2" /\ ReadHash(c) /\ Goto(c, "settle_3")
    /\ UNCHANGED <<now, leases, rows, rowLocks, lost, failures>>

Consumed(f) == f.owner <= f.accepted
Settled(c) ==
    \/ call[c].hash # call[c].expected
    \/ Consumed(call[c].row) \/ call[c].row.expiry <= now

\* Report the hash: it moved, nobody is about to move it, or the deadline
\* passed.
SettleReturns(c) ==
    /\ pc[c] = "settle_3"
    /\ Settled(c) \/ call[c].polls = MaxPolls
    /\ Return(c)
    /\ UNCHANGED <<now, leases, rows, rowLocks, lost, failures>>

SettlePolls(c) ==
    /\ pc[c] = "settle_3"
    /\ ~Settled(c) /\ call[c].polls < MaxPolls
    /\ call' = [call EXCEPT ![c].polls = @ + 1, ![c].row = NoFence, ![c].hash = Absent,
                            ![c].hashAt = 0]
    /\ Goto(c, "settle_1")
    /\ UNCHANGED <<now, leases, rows, rowLocks, lost, failures>>

-----------------------------------------------------------------------------
(* lock() and renew(): the fence row, while the mutex is held.             *)

BeginLock(c) ==
    \E k \in Keys, ttl \in TTLs :
        /\ tokens < MaxLocks
        /\ EntryFree(c, k)
        /\ TakeMutex(c)
        /\ tokens' = tokens + 1
        /\ Start(c, [NoCall EXCEPT !.kind = "lock", !.key = k,
                                   !.token = tokens + 1, !.expiry = now + ttl], "fence_row")
        /\ UNCHANGED <<now, registry, lease, rows, rowLocks, lost, failures>>

BeginRenew(c) ==
    \E ttl \in TTLs :
        /\ OwnsEntry(c)
        /\ TakeMutex(c)
        /\ Start(c, [NoCall EXCEPT !.kind = "renew", !.key = lease[c].key,
                                   !.token = lease[c].token, !.expiry = now + ttl], "fence_row")
        /\ UNCHANGED <<now, tokens, registry, lease, rows, rowLocks, lost, failures>>

\* INSERT ... ON CONFLICT DO NOTHING, SELECT ... FOR UPDATE, UPDATE.
AdvanceFence(c) ==
    /\ In(c, "fence_row", {"lock"})
    /\ TakeFenceRow(c)
    /\ Stage(c, [body |-> None, fence |-> Advanced(FenceRow(c), call[c].token, call[c].expiry)])
    /\ UNCHANGED <<now, leases, rows, storeLock, lost, failures>>

\* UPDATE ... WHERE key AND owner_token.
ExtendFence(c) ==
    /\ In(c, "fence_row", {"renew"})
    /\ FenceRow(c).token = call[c].token
    /\ TakeFenceRow(c)
    /\ Stage(c, [body |-> None, fence |-> Renewed(FenceRow(c), call[c].expiry)])
    /\ UNCHANGED <<now, leases, rows, storeLock, lost, failures>>

\* No row matched: False.
RenewSuperseded(c) ==
    /\ In(c, "fence_row", {"renew"})
    /\ FenceRow(c).token # call[c].token
    /\ ReleaseMutex(c)
    /\ Return(c)
    /\ UNCHANGED <<now, tokens, registry, lease, rows, rowLocks, lost, failures>>

Unlock(c) ==
    /\ pc[c] = "idle"
    /\ Released(c)
    /\ UNCHANGED <<rows, rowLocks, pc, call, lost, failures>>

-----------------------------------------------------------------------------
(* The end of a transaction.                                               *)

Commits(c) ==
    /\ Apply(call[c].key, call[c].change)
    /\ HandOver(c, None)
    /\ Return(c)

\* OK.
CommitWrite(c) ==
    /\ In(c, "commit", Writes)
    /\ Commits(c)
    /\ UNCHANGED <<now, leases, lost, failures>>

CommitLock(c) ==
    /\ In(c, "commit", {"lock"})
    /\ Commits(c)
    /\ Granted(c, call[c].key, call[c].token, call[c].expiry, call[c].change.fence.owner)
    /\ UNCHANGED <<now, lost, failures>>

CommitRenew(c) ==
    /\ In(c, "commit", {"renew"})
    /\ Commits(c)
    /\ SetEntry(c, call[c].key, call[c].token, call[c].expiry)
    /\ ReleaseMutex(c)
    /\ UNCHANGED <<now, tokens, lease, lost, failures>>

Blocked(c) ==
    \/ In(c, "store_row", Writes) /\ storeLock[call[c].key] # None
    \/ pc[c] = "fence_row" /\ ~FenceRowFree(c)

\* The with block of lock() and renew().
LeaveMutex(c) == IF mutex[Caller(c)] = c THEN ReleaseMutex(c) ELSE UNCHANGED mutex

\* lock_timeout: roll back; ERROR(BUSY), BackendBusyError or False.
LockTimeout(c) ==
    /\ failures < MaxFailures
    /\ failures' = failures + 1
    /\ Blocked(c)
    /\ FreeRows(c)
    /\ LeaveMutex(c)
    /\ Return(c)
    /\ UNCHANGED <<now, tokens, registry, lease, lost>>

\* The connection drops before COMMIT is sent; _reset_conn(); ERROR(NETWORK),
\* BackendBusyError or False, or the hash known so far in the settle loop.
DropConnection(c) ==
    /\ failures < MaxFailures
    /\ failures' = failures + 1
    /\ pc[c] # "idle"
    /\ FreeRows(c)
    /\ LeaveMutex(c)
    /\ Return(c)
    /\ UNCHANGED <<now, tokens, registry, lease, lost>>

\* The connection drops after COMMIT was sent: same answers.
DropInCommit(c) ==
    /\ failures < MaxFailures
    /\ failures' = failures + 1
    /\ pc[c] = "commit"
    /\ HandOver(c, Lost)
    /\ lost' = [lost EXCEPT ![call[c].key] = call[c].change]
    /\ LeaveMutex(c)
    /\ Return(c)
    /\ UNCHANGED <<now, tokens, registry, lease, rows>>

\* The server ends the transaction of a client that is gone.
FreeLostRows(k) ==
    /\ storeLock' = [storeLock EXCEPT ![k] = IF @ = Lost THEN None ELSE @]
    /\ fenceLock' = [fenceLock EXCEPT ![k] = None]
    /\ lost' = [lost EXCEPT ![k] = NoChange]
    /\ UNCHANGED <<now, leases, pc, call, failures>>

LostCommits(k) == fenceLock[k] = Lost /\ Apply(k, lost[k]) /\ FreeLostRows(k)
LostAborts(k)  == fenceLock[k] = Lost /\ UNCHANGED rows /\ FreeLostRows(k)

\* A process dies outside COMMIT of its callers, or in it.
Crash(i) ==
    LET gone == {c \in Clients : Caller(c) = i}
        inCommit(k) == fenceLock[k] \in gone
    IN
    /\ failures < MaxFailures
    /\ failures' = failures + 1
    /\ storeLock' = [k \in Keys |-> IF storeLock[k] \notin gone THEN storeLock[k]
                                    ELSE IF fenceLock[k] = storeLock[k] THEN Lost ELSE None]
    /\ fenceLock' = [k \in Keys |-> IF inCommit(k) THEN Lost ELSE fenceLock[k]]
    /\ lost' = [k \in Keys |-> IF inCommit(k) THEN call[fenceLock[k]].change ELSE lost[k]]
    /\ pc' = [c \in Clients |-> IF c \in gone THEN "idle" ELSE pc[c]]
    /\ call' = [c \in Clients |-> IF c \in gone THEN NoCall ELSE call[c]]
    /\ Forgotten(i)
    /\ UNCHANGED rows

Tick ==
    /\ now < MaxTime
    /\ now' = now + 1
    /\ UNCHANGED <<leases, rows, rowLocks, pc, call, lost, failures>>

-----------------------------------------------------------------------------
Begin(c) ==
    BeginCreate(c) \/ BeginUpdate(c) \/ BeginLock(c) \/ BeginRenew(c) \/ Unlock(c)

\* The steps a client takes inside a call when nothing fails.
Continue(c) ==
    \/ InsertRow(c) \/ CreateExists(c) \/ UpsertFence(c)
    \/ SelectStoreRow(c) \/ UpdateRows(c) \/ RefuseUpdate(c) \/ LoseFence(c)
    \/ SettleReads(c) \/ SettleReturns(c) \/ SettlePolls(c)
    \/ AdvanceFence(c) \/ ExtendFence(c) \/ RenewSuperseded(c)
    \/ CommitWrite(c) \/ CommitLock(c) \/ CommitRenew(c)

Next ==
    \/ \E c \in Clients :
        Begin(c) \/ Continue(c) \/ LockTimeout(c) \/ DropConnection(c) \/ DropInCommit(c)
    \/ \E k \in Keys : LostCommits(k) \/ LostAborts(k)
    \/ \E i \in Instances : Crash(i)
    \/ Tick

Spec == Init /\ [][Next]_vars

\* A statement whose row is free again and again gets it (the server queues
\* the waiters of a row), and the server ends every lost transaction.
\* lock_timeout is not relied on.
FairSpec ==
    /\ Spec
    /\ \A c \in Clients : SF_vars(Continue(c))
    /\ \A k \in Keys : WF_vars(LostCommits(k) \/ LostAborts(k))

-----------------------------------------------------------------------------
(* What the adapter promises.                                              *)

\* After a fence loss, a settle loop that found the owner's fence consumed goes
\* on to report a hash at least as new as the write that consumed it.
SettleSeesWinner ==
    \A c \in Clients :
        pc[c] = "settle_3" /\ call[c].row.owner > 0 /\ Consumed(call[c].row)
        => call[c].hashAt >= call[c].row.owner

\* The generation of a key never goes back or repeats under another body.
GenerationsRise ==
    [][\A k \in Keys : value'[k] = value[k] \/ GenerationOk(value'[k], value[k])]_vars

\* No waiting for rows goes round in a circle, and no row stays locked: every
\* call returns without the help of lock_timeout.
CallsReturn == \A c \in Clients : pc[c] # "idle" ~> pc[c] = "idle"

-----------------------------------------------------------------------------
(* What the documentation says and the code does not do.                   *)

\* Contract section 1 and judgment call 4: ERROR(NETWORK) means definitely
\* not committed.
NetworkNeverLands == [][\A k \in Keys : lost[k].body # None => ~LostCommits(k)]_vars

=============================================================================
