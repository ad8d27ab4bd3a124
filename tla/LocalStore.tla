----------------------------- MODULE LocalStore -----------------------------
(***************************************************************************)
(* LocalBackend (src/store/local.py): the file system adapter of knokeep's *)
(* StoreBackend.  Several processes open the same directory.  Each process *)
(* constructs one LocalBackend (an Instance) and calls it from one or more *)
(* threads (Clients).  What they share is files only:                      *)
(*                                                                         *)
(*   locks/cas.lock        casLock    held by a write() or by a resume     *)
(*   locks/advisory.lock   guard      held by a lock() or a renew()        *)
(*   journal/journal.log   journal    fsync'd append-only log              *)
(*   data/<key>            published  what read() returns                  *)
(*   locks/fence-alloc/    owner      token, expiry and fence of the owner *)
(*   locks/advisory/       advisory   token and expiry of the holder       *)
(*                                                                         *)
(* A step is what one thread does between two points at which another      *)
(* process can see or change one of these files.  Waiting for a file lock  *)
(* and giving up (ERROR(BUSY), BackendBusyError, a False from unlock() or  *)
(* renew()) before anything was changed is a stuttering step.              *)
(*                                                                         *)
(* A definition named X_fault is X with a plausible programming fault: what*)
(* the properties below are there to catch.  No specification uses one.    *)
(***************************************************************************)
EXTENDS Integers, Sequences, FiniteSets

CONSTANTS
    Keys,            \* document keys
    Bodies,          \* document bodies; a body stands for its SHA-256 too
    Absent,          \* no file at the key
    Empty,           \* the empty file an O_EXCL name reservation leaves
    None,            \* no key, no expected hash, no lock holder
    Clients,         \* threads that call the backend
    Instances,       \* LocalBackend objects, one per process
    InstanceOf,      \* the instance a client calls
    Generation,      \* the #knokeep-gen number of a body, or NoGeneration
    TTLs,            \* the ttl_s values callers pass to lock() and renew()
    ReplaceMayFail,  \* can os.replace exhaust its PermissionError retries?
    MaxTime,         \* bound: the clock stops here
    MaxLocks,        \* bound: successful lock() entries
    MaxJournal,      \* bound: write() calls that may append to the journal
    MaxCrashes,      \* bound: process and host crashes
    MaxTorn,         \* bound: crashes in the middle of a journal append
    MaxPolls         \* bound: polls of the settle loop before its deadline

NoGeneration == -1

ASSUME SentinelAssumption ==
    /\ {Absent, Empty, None} \cap Bodies = {}
    /\ Absent # Empty /\ Absent # None /\ Empty # None
    /\ None \notin Keys \cup Clients \cup Instances
    /\ Clients \cap Instances = {}

ASSUME ShapeAssumption ==
    /\ InstanceOf \in [Clients -> Instances]
    /\ Generation \in [Bodies -> Nat \cup {NoGeneration}]
    /\ TTLs \subseteq Nat \ {0}
    /\ ReplaceMayFail \in BOOLEAN
    /\ {MaxTime, MaxLocks, MaxJournal, MaxCrashes, MaxTorn, MaxPolls} \subseteq Nat

VARIABLES
    now,        \* time.time()
    casLock,    \* holder of locks/cas.lock
    guard,      \* holder of locks/advisory.lock
    journal,    \* records of journal.log, in file order
    published,  \* data/: the blob a reader finds at each key
    disk,       \* data/: the blob the last directory fsync made durable
    owner,      \* locks/fence-alloc/
    advisory,   \* locks/advisory/
    older,      \* locks/advisory/: entries a power loss may bring back
    istate,     \* an instance is down, resuming (in __init__) or up
    plan,       \* latest of _resume(): the record to restore each key from, 0 when done
    rkey,       \* the key _resume() is publishing
    accepted,   \* _last_accepted_fence of each instance
    pc,         \* where each client is in its call
    call,       \* arguments and local variables of that call
    lease,      \* the Lock each client got last from lock()
    tokens,     \* tokens handed out so far
    crashes,    \* crashes so far
    acked,      \* history: journal positions some OK result stands on
    refused     \* history: journal positions whose write() returned BUSY

files  == <<journal, published, disk, owner, advisory, older>>
locks  == <<casLock, guard>>
insts  == <<istate, plan, rkey, accepted>>
locals == <<pc, call, lease>>
hist   == <<acked, refused>>
vars   == <<now, files, locks, insts, locals, tokens, crashes, hist>>

-----------------------------------------------------------------------------
(* Types.  A blob carries, as history, the position of the journal record  *)
(* whose version it is (0: none).                                          *)

Blob     == [body: Bodies \cup {Absent, Empty}, pos: Nat]
Record   == [key: Keys \cup {None}, body: Bodies \cup {Absent}, fence: Nat, base: Nat]
Owner    == [token: Nat, expiry: Nat, fence: Nat]
Advisory == [token: Nat, expiry: Nat]
Lease    == [key: Keys \cup {None}, token: Nat, fence: Nat]
Call     == [key: Keys \cup {None}, body: Bodies \cup {None},
             expected: Bodies \cup {Empty, None}, cur: Blob, own: Owner,
             expiry: Nat, polls: Nat, settle: {"pending", "consumed", "expired"}]

NoBlob   == [body |-> Absent, pos |-> 0]
NoOwner  == [token |-> 0, expiry |-> 0, fence |-> 0]
Released == [token |-> 0, expiry |-> 0]
NoPlan   == [k \in Keys |-> 0]
NoLease  == [key |-> None, token |-> 0, fence |-> 0]
NoCall   == [key |-> None, body |-> None, expected |-> None, cur |-> NoBlob,
             own |-> NoOwner, expiry |-> 0, polls |-> 0, settle |-> "pending"]
Torn     == [key |-> None, body |-> Absent, fence |-> 0, base |-> 0]

CommitPcs == {"w_append", "w_reserve", "w_replace", "w_sync"}
CasPcs    == {"w_decide"} \cup CommitPcs
GuardPcs  == {"l_cas", "l_advisory", "r_advisory"}
SettlePcs == {"s_fence", "s_hash"}
Pcs       == {"idle"} \cup CasPcs \cup GuardPcs \cup SettlePcs

LocksOK ==
    /\ casLock \in Clients \cup Instances \cup {None}
    /\ guard \in Clients \cup {None}

FilesOK ==
    /\ journal \in Seq(Record)
    /\ published \in [Keys -> Blob]
    /\ disk \in [Keys -> Blob]
    /\ owner \in [Keys -> Owner]
    /\ advisory \in [Keys -> Advisory]
    /\ older \in [Keys -> SUBSET Advisory]

InstancesOK ==
    /\ istate \in [Instances -> {"down", "resume", "up"}]
    /\ plan \in [Instances -> [Keys -> 0..Len(journal)]]
    /\ rkey \in [Instances -> Keys \cup {None}]
    /\ accepted \in [Instances -> [Keys -> Nat]]

\* A call that is under way has a key, and a write() a body.
CallsOK ==
    /\ pc \in [Clients -> Pcs]
    /\ call \in [Clients -> Call]
    /\ \A c \in Clients : pc[c] # "idle" => call[c].key \in Keys
    /\ \A c \in Clients : pc[c] \in CasPcs => call[c].body \in Bodies

CountersOK == {now, tokens, crashes} \subseteq Nat /\ acked \subseteq Nat /\ refused \subseteq Nat

\* Types.  A call that is under way has a key, and a write() under cas.lock a
\* body, on every path through the settle loop, lock() and renew() and after
\* every crash.
TypeOK == /\ LocksOK /\ FilesOK /\ InstancesOK /\ CallsOK /\ CountersOK
          /\ lease \in [Clients -> Lease]

Init ==
    /\ now = 0
    /\ casLock = None /\ guard = None
    /\ journal = <<>>
    /\ published = [k \in Keys |-> NoBlob]
    /\ disk = [k \in Keys |-> NoBlob]
    /\ owner = [k \in Keys |-> NoOwner]
    /\ advisory = [k \in Keys |-> Released]
    /\ older = [k \in Keys |-> {}]
    /\ istate = [i \in Instances |-> "down"]
    /\ plan = [i \in Instances |-> NoPlan]
    /\ rkey = [i \in Instances |-> None]
    /\ accepted = [i \in Instances |-> [k \in Keys |-> 0]]
    /\ pc = [c \in Clients |-> "idle"]
    /\ call = [c \in Clients |-> NoCall]
    /\ lease = [c \in Clients |-> NoLease]
    /\ tokens = 0 /\ crashes = 0
    /\ acked = {} /\ refused = {}

-----------------------------------------------------------------------------
(* Reading the journal.  Replay stops at the first torn record.            *)

Positions     == 1..Len(journal)
Replayable(p) == \A q \in 1..p : journal[q].key # None

\* Fault: the first record of a key wins.
IsLatest_first(k, p) ==
    /\ p \in Positions
    /\ Replayable(p)
    /\ journal[p].key = k
    /\ \A q \in 1..(p - 1) : journal[q].key # k

\* Position p holds the record replay keeps for key k: the last of the key
\* before the first torn record.
IsLatest(k, p) ==
    /\ p \in Positions
    /\ Replayable(p)
    /\ journal[p].key = k
    /\ \A q \in (p + 1)..Len(journal) : Replayable(q) => journal[q].key # k

Latest(k) == IF \E p \in Positions : IsLatest(k, p)
             THEN CHOOSE p \in Positions : IsLatest(k, p)
             ELSE 0

\* read(): takes no lock, so it may return this at any moment.
ReadValue(k) == published[k].body

-----------------------------------------------------------------------------
(* write(): read, compare, journal, publish, under cas.lock.               *)

Caller(c) == InstanceOf[c]
Idle(c)   == pc[c] = "idle" /\ istate[Caller(c)] = "up"
Goto(c, label) == pc' = [pc EXCEPT ![c] = label]
Return(c) == Goto(c, "idle") /\ call' = [call EXCEPT ![c] = NoCall]

\* Fault: cas.lock does not exclude.
TakeCasLock_shared(x) == casLock' = x

\* _FileLock(cas.lock).acquire().
TakeCasLock(x) == casLock = None /\ casLock' = x

\* How many write() calls may still append a record.
Undecided == Cardinality({c \in Clients : pc[c] \in {"w_decide", "w_append"}})

\* Acquire cas.lock, read the published blob, then the durable owner file.
BeginWrite(c, k, b, e) ==
    /\ Idle(c)
    /\ Len(journal) + Undecided < MaxJournal
    /\ TakeCasLock(c)
    /\ call' = [call EXCEPT ![c] = [NoCall EXCEPT !.key = k, !.body = b, !.expected = e,
                                                  !.cur = published[k], !.own = owner[k]]]
    /\ Goto(c, "w_decide")
    /\ UNCHANGED <<now, files, guard, insts, lease, tokens, crashes, hist>>

BeginCreate(c) == \E k \in Keys, b \in Bodies : BeginWrite(c, k, b, None)

\* An Overwrite carries a lease for the key it writes; the lease may be stale.
BeginUpdate(c) ==
    /\ lease[c].key \in Keys
    /\ \E b \in Bodies, e \in Bodies \cup {Empty} : BeginWrite(c, lease[c].key, b, e)

\* Fault: only the fence this instance last saw committed is compared.
FenceOk_floor(c) ==
    /\ call[c].own.expiry > now
    /\ lease[c].fence >= accepted[Caller(c)][call[c].key]

\* The lease is the durable owner's, unexpired, and not behind the fence
\* this instance last saw committed.
FenceOk(c) ==
    /\ lease[c].token = call[c].own.token
    /\ call[c].own.expiry > now
    /\ lease[c].fence = call[c].own.fence
    /\ lease[c].fence >= accepted[Caller(c)][call[c].key]

GenerationOf(b) == IF b \in Bodies THEN Generation[b] ELSE NoGeneration

GenerationOk(new, old) ==
    \/ NoGeneration \in {GenerationOf(new), GenerationOf(old)}
    \/ GenerationOf(new) > GenerationOf(old)

CreateAdmitted(c) == call[c].expected = None /\ call[c].cur.body = Absent
CreateRepeated(c) == call[c].expected = None /\ call[c].cur.body = call[c].body

\* Fault: the hash is not compared.
UpdateAdmitted_anyHash(c) ==
    /\ call[c].expected # None
    /\ FenceOk(c)
    /\ call[c].cur.body # Absent

UpdateAdmitted(c) ==
    /\ call[c].expected # None
    /\ FenceOk(c)
    /\ call[c].cur.body = call[c].expected
    /\ GenerationOk(call[c].body, call[c].cur.body)

\* Every precondition holds: go on to _commit().
AdmitWrite(c) ==
    /\ pc[c] = "w_decide"
    /\ CreateAdmitted(c) \/ UpdateAdmitted(c)
    /\ Goto(c, "w_append")
    /\ UNCHANGED <<now, files, locks, insts, call, lease, tokens, crashes, hist>>

\* The stored body is the one to create: OK without writing (idempotent replay).
RepeatCreate(c) ==
    /\ pc[c] = "w_decide"
    /\ CreateRepeated(c)
    /\ acked' = acked \cup {call[c].cur.pos}
    /\ casLock' = None
    /\ Return(c)
    /\ UNCHANGED <<now, files, guard, insts, lease, tokens, crashes, refused>>

\* EXISTS, or STALE without a fence loss (absent, other hash, generation).
RefuseWrite(c) ==
    /\ pc[c] = "w_decide"
    /\ ~CreateAdmitted(c) /\ ~CreateRepeated(c) /\ ~UpdateAdmitted(c)
    /\ call[c].expected # None => FenceOk(c)
    /\ casLock' = None
    /\ Return(c)
    /\ UNCHANGED <<now, files, guard, insts, lease, tokens, crashes, hist>>

\* Fault: the arguments of the call are gone when the settle loop starts.
LoseFence_dropsCall(c) ==
    /\ pc[c] = "w_decide"
    /\ call[c].expected # None
    /\ ~FenceOk(c)
    /\ casLock' = None
    /\ Goto(c, "s_fence")
    /\ call' = [call EXCEPT ![c] = NoCall]
    /\ UNCHANGED <<now, files, guard, insts, lease, tokens, crashes, hist>>

\* STALE(FENCE): release cas.lock and settle before reporting the hash.
LoseFence(c) ==
    /\ pc[c] = "w_decide"
    /\ call[c].expected # None
    /\ ~FenceOk(c)
    /\ casLock' = None
    /\ Goto(c, "s_fence")
    /\ UNCHANGED <<now, files, guard, insts, call, lease, tokens, crashes, hist>>

\* A create starts the fence floor of the key at 0.
FenceToAccept(c) == IF call[c].expected = None THEN 0 ELSE lease[c].fence

RecordOf(c) == [key |-> call[c].key, body |-> call[c].body,
                fence |-> FenceToAccept(c), base |-> call[c].cur.pos]

\* _journal_append(): the durability commit.  Write, flush and fsync are one
\* step: a record that is flushed when its process is killed is taken to be
\* on the disk.
AppendRecord(c) ==
    /\ pc[c] = "w_append"
    /\ journal' = Append(journal, RecordOf(c))
    /\ Goto(c, IF call[c].expected = None THEN "w_reserve" ELSE "w_replace")
    /\ UNCHANGED <<now, published, disk, owner, advisory, older, locks, insts, call, lease,
                   tokens, crashes, hist>>

\* _publish(create=True): the O_EXCL reservation leaves an empty file.
ReserveName(c) ==
    /\ pc[c] = "w_reserve"
    /\ published[call[c].key].body = Absent
    /\ published' = [published EXCEPT ![call[c].key] = [body |-> Empty, pos |-> 0]]
    /\ Goto(c, "w_replace")
    /\ UNCHANGED <<now, journal, disk, owner, advisory, older, locks, insts, call, lease,
                   tokens, crashes, hist>>

\* os.replace: readers now see the new blob.
ReplaceBlob(c) ==
    /\ pc[c] = "w_replace"
    /\ published' = [published EXCEPT ![call[c].key] =
                        [body |-> call[c].body, pos |-> Len(journal)]]
    /\ Goto(c, "w_sync")
    /\ UNCHANGED <<now, journal, disk, owner, advisory, older, locks, insts, call, lease,
                   tokens, crashes, hist>>

\* os.replace kept failing: ERROR(BUSY), with the record already journaled.
GiveUpReplace(c) ==
    /\ ReplaceMayFail
    /\ pc[c] = "w_replace"
    /\ refused' = refused \cup {Len(journal)}
    /\ casLock' = None
    /\ Return(c)
    /\ UNCHANGED <<now, files, guard, insts, lease, tokens, crashes, acked>>

\* fsync the directory, remember the accepted fence, release cas.lock: OK.
FinishWrite(c) ==
    LET k == call[c].key IN
    /\ pc[c] = "w_sync"
    /\ disk' = [disk EXCEPT ![k] = published[k]]
    /\ accepted' = [accepted EXCEPT ![Caller(c)][k] = FenceToAccept(c)]
    /\ acked' = acked \cup {Len(journal)}
    /\ casLock' = None
    /\ Return(c)
    /\ UNCHANGED <<now, journal, published, owner, advisory, older, guard, istate, plan, rkey,
                   lease, tokens, crashes, refused>>

\* One round of the settle loop: first the fence state ...
SettleFence(c) ==
    LET o == owner[call[c].key] IN
    /\ pc[c] = "s_fence"
    /\ call' = [call EXCEPT ![c].own = o,
                            ![c].settle = IF o.fence <= accepted[Caller(c)][call[c].key]
                                          THEN "consumed"
                                          ELSE IF o.expiry <= now THEN "expired" ELSE "pending"]
    /\ Goto(c, "s_hash")
    /\ UNCHANGED <<now, files, locks, insts, lease, tokens, crashes, hist>>

\* Fault: the loop has no deadline.
SettleHash_noDeadline(c) ==
    /\ pc[c] = "s_hash"
    /\ IF \/ published[call[c].key].body # call[c].expected
          \/ call[c].settle # "pending"
       THEN Return(c)
       ELSE Goto(c, "s_fence") /\ UNCHANGED call
    /\ UNCHANGED <<now, files, locks, insts, lease, tokens, crashes, hist>>

\* ... then the published hash, and out if it moved, if no fenced write is
\* pending any more, or if the deadline has passed.
SettleHash(c) ==
    /\ pc[c] = "s_hash"
    /\ IF \/ published[call[c].key].body # call[c].expected
          \/ call[c].settle # "pending"
          \/ call[c].polls >= MaxPolls
       THEN Return(c)
       ELSE /\ Goto(c, "s_fence")
            /\ call' = [call EXCEPT ![c].polls = @ + 1]
    /\ UNCHANGED <<now, files, locks, insts, lease, tokens, crashes, hist>>

-----------------------------------------------------------------------------
(* lock(), renew(), unlock(): advisory.lock, then (lock() only) cas.lock.  *)

\* Fault: advisory.lock does not exclude.
GuardFree_always == TRUE

\* _FileLock(advisory.lock).acquire() can succeed.
GuardFree == guard = None

\* Under advisory.lock no unexpired holder was found: draw a token and expiry.
BeginLock(c) ==
    /\ Idle(c)
    /\ GuardFree
    /\ tokens < MaxLocks
    /\ \E k \in Keys, ttl \in TTLs :
        /\ advisory[k].expiry <= now
        /\ call' = [call EXCEPT ![c] = [NoCall EXCEPT
                        !.key = k, !.expiry = now + ttl,
                        !.own = [NoOwner EXCEPT !.token = tokens + 1]]]
    /\ guard' = c
    /\ tokens' = tokens + 1
    /\ Goto(c, "l_cas")
    /\ UNCHANGED <<now, files, casLock, insts, lease, crashes, hist>>

Larger(m, n) == IF m >= n THEN m ELSE n

\* Past the fence on disk and the one this instance last saw committed.
NextFence(c, k) == Larger(owner[k].fence, accepted[Caller(c)][k]) + 1

\* Fault: lock() does not wait for a write() that has checked its fence.
OwnerMayAdvance_always == TRUE

\* lock() takes cas.lock, so that no write() is past its fence check.
OwnerMayAdvance == casLock = None

\* Under cas.lock: allocate the next fence and write the owner file.
AllocateFence(c) ==
    LET k == call[c].key
        o == [token |-> call[c].own.token, expiry |-> call[c].expiry,
              fence |-> NextFence(c, k)]
    IN
    /\ pc[c] = "l_cas"
    /\ OwnerMayAdvance
    /\ owner' = [owner EXCEPT ![k] = o]
    /\ call' = [call EXCEPT ![c].own = o]
    /\ Goto(c, "l_advisory")
    /\ UNCHANGED <<now, journal, published, disk, advisory, older, locks, insts, lease,
                   tokens, crashes, hist>>

\* cas.lock could not be had in time: BackendBusyError.
GiveUpLock(c) ==
    /\ pc[c] = "l_cas"
    /\ casLock # None
    /\ guard' = None
    /\ Return(c)
    /\ UNCHANGED <<now, files, casLock, insts, lease, tokens, crashes, hist>>

\* Replace or remove the advisory file of key k.  Its directory is never
\* fsync'd, so a power loss may undo this change and any number before it.
SetAdvisory(k, entry) ==
    /\ advisory' = [advisory EXCEPT ![k] = entry]
    /\ older' = [older EXCEPT ![k] = @ \cup {advisory[k]}]

\* Write the advisory file, release advisory.lock, return the Lock.
GrantLock(c) ==
    LET o == call[c].own IN
    /\ pc[c] = "l_advisory"
    /\ SetAdvisory(call[c].key, [token |-> o.token, expiry |-> o.expiry])
    /\ lease' = [lease EXCEPT ![c] = [key |-> call[c].key, token |-> o.token, fence |-> o.fence]]
    /\ guard' = None
    /\ Return(c)
    /\ UNCHANGED <<now, journal, published, disk, owner, casLock, insts, tokens, crashes, hist>>

\* The caller still holds the advisory lease on its key, unexpired.
Holds(c) ==
    /\ lease[c].key \in Keys
    /\ advisory[lease[c].key].token = lease[c].token
    /\ advisory[lease[c].key].expiry > now

\* renew(), durable half: only the owner's own token extends the owner file.
\* cas.lock is not taken.
RenewOwner(c) ==
    LET k == lease[c].key IN
    /\ Idle(c)
    /\ GuardFree
    /\ Holds(c)
    /\ owner[k].token = lease[c].token
    /\ \E ttl \in TTLs :
        /\ owner' = [owner EXCEPT ![k].expiry = now + ttl]
        /\ call' = [call EXCEPT ![c] = [NoCall EXCEPT !.key = k, !.expiry = now + ttl]]
    /\ guard' = c
    /\ Goto(c, "r_advisory")
    /\ UNCHANGED <<now, journal, published, disk, advisory, older, casLock, insts, lease,
                   tokens, crashes, hist>>

\* renew(), advisory half.
RenewAdvisory(c) ==
    /\ pc[c] = "r_advisory"
    /\ SetAdvisory(call[c].key, [token |-> lease[c].token, expiry |-> call[c].expiry])
    /\ guard' = None
    /\ Return(c)
    /\ UNCHANGED <<now, journal, published, disk, owner, casLock, insts, lease,
                   tokens, crashes, hist>>

\* unlock() removes the advisory file and leaves the owner file alone: the
\* lease stays good for writing until it expires or is superseded.
Unlock(c) ==
    /\ Idle(c)
    /\ GuardFree
    /\ Holds(c)
    /\ SetAdvisory(lease[c].key, Released)
    /\ UNCHANGED <<now, journal, published, disk, owner, locks, insts, locals,
                   tokens, crashes, hist>>

-----------------------------------------------------------------------------
(* __init__: _resume() under cas.lock.  Crashes.                           *)

StartInstance(i) ==
    /\ istate[i] = "down"
    /\ TakeCasLock(i)
    /\ istate' = [istate EXCEPT ![i] = "resume"]
    /\ plan' = [plan EXCEPT ![i] = [k \in Keys |-> Latest(k)]]
    /\ UNCHANGED <<now, files, guard, rkey, accepted, locals, tokens, crashes, hist>>

\* Done with key k: adopt the fence its record carries.
Restored(i, k) ==
    /\ accepted' = [accepted EXCEPT ![i][k] = journal[plan[i][k]].fence]
    /\ plan' = [plan EXCEPT ![i][k] = 0]

\* Key k is the one being restored, or may be taken up next.
Restoring(i, k) ==
    /\ istate[i] = "resume"
    /\ rkey[i] \in {None, k}
    /\ plan[i][k] # 0

JournaledBody(i, k) == journal[plan[i][k]].body

\* The published blob already has the journaled hash: nothing is written, and
\* the blob counts as the journaled version.
ResumeSkip(i, k) ==
    /\ Restoring(i, k) /\ rkey[i] = None
    /\ published[k].body = JournaledBody(i, k)
    /\ published' = [published EXCEPT ![k].pos = plan[i][k]]
    /\ Restored(i, k)
    /\ UNCHANGED <<now, journal, disk, owner, advisory, older, locks, istate, rkey, locals,
                   tokens, crashes, hist>>

\* The blob is missing: _publish(create=True) reserves the name first.
ResumeReserve(i, k) ==
    /\ Restoring(i, k) /\ rkey[i] = None
    /\ published[k].body = Absent
    /\ published' = [published EXCEPT ![k] = [body |-> Empty, pos |-> 0]]
    /\ rkey' = [rkey EXCEPT ![i] = k]
    /\ UNCHANGED <<now, journal, disk, owner, advisory, older, locks, istate, plan, accepted,
                   locals, tokens, crashes, hist>>

\* A blob is there and differs from the journal: replace it.
ResumeReplace(i, k) ==
    /\ Restoring(i, k)
    /\ published[k].body \notin {Absent, JournaledBody(i, k)}
    /\ published' = [published EXCEPT ![k] = [body |-> JournaledBody(i, k), pos |-> plan[i][k]]]
    /\ rkey' = [rkey EXCEPT ![i] = k]
    /\ UNCHANGED <<now, journal, disk, owner, advisory, older, locks, istate, plan, accepted,
                   locals, tokens, crashes, hist>>

\* fsync the directory after that replacement.
ResumeSync(i, k) ==
    /\ Restoring(i, k) /\ rkey[i] = k
    /\ published[k].body = JournaledBody(i, k)
    /\ disk' = [disk EXCEPT ![k] = published[k]]
    /\ Restored(i, k)
    /\ rkey' = [rkey EXCEPT ![i] = None]
    /\ UNCHANGED <<now, journal, published, owner, advisory, older, locks, istate, locals,
                   tokens, crashes, hist>>

\* Every key is restored: the constructor returns.
ResumeDone(i) ==
    /\ istate[i] = "resume" /\ rkey[i] = None
    /\ plan[i] = NoPlan
    /\ istate' = [istate EXCEPT ![i] = "up"]
    /\ casLock' = None
    /\ UNCHANGED <<now, files, guard, plan, rkey, accepted, locals, tokens, crashes, hist>>

\* What the death of the processes in dead leaves: their memory is gone and
\* the kernel drops their file locks.
Forget(dead) ==
    LET gone == dead \cup {c \in Clients : Caller(c) \in dead} IN
    /\ istate' = [i \in Instances |-> IF i \in dead THEN "down" ELSE istate[i]]
    /\ plan' = [i \in Instances |-> IF i \in dead THEN NoPlan ELSE plan[i]]
    /\ rkey' = [i \in Instances |-> IF i \in dead THEN None ELSE rkey[i]]
    /\ accepted' = [i \in Instances |->
                        IF i \in dead THEN [k \in Keys |-> 0] ELSE accepted[i]]
    /\ pc' = [c \in Clients |-> IF c \in gone THEN "idle" ELSE pc[c]]
    /\ call' = [c \in Clients |-> IF c \in gone THEN NoCall ELSE call[c]]
    /\ lease' = [c \in Clients |-> IF c \in gone THEN NoLease ELSE lease[c]]
    /\ casLock' = IF casLock \in gone THEN None ELSE casLock
    /\ guard' = IF guard \in gone THEN None ELSE guard

\* _resume() could not replace a blob: the constructor raises.
ResumeFails(i) ==
    /\ ReplaceMayFail
    /\ \E k \in Keys : /\ Restoring(i, k)
                      /\ published[k].body \notin {Absent, JournaledBody(i, k)}
    /\ Forget({i})
    /\ UNCHANGED <<now, files, tokens, crashes, hist>>

CrashBudget == crashes < MaxCrashes /\ crashes' = crashes + 1

\* A process is killed, or closes its backend and exits.
Crash(i) ==
    /\ CrashBudget
    /\ istate[i] # "down"
    /\ Forget({i})
    /\ UNCHANGED <<now, files, tokens, hist>>

\* A process is killed while its append is only partly in the file.
CrashInAppend(c) ==
    /\ CrashBudget
    /\ pc[c] = "w_append"
    /\ Cardinality({p \in Positions : journal[p] = Torn}) < MaxTorn
    /\ journal' = Append(journal, Torn)
    /\ Forget({Caller(c)})
    /\ UNCHANGED <<now, published, disk, owner, advisory, older, tokens, hist>>

\* What may be in locks/advisory/ after a power loss.
Kept(k) == older[k] \cup {advisory[k]}

\* The host loses power: a rename or an unlink not followed by a fsync of its
\* directory may be undone.  That of the owner file is (_write_fence_owner()),
\* that of the advisory file never is.
HostCrash ==
    /\ CrashBudget
    /\ \E lost \in SUBSET Keys :
        published' = [k \in Keys |-> IF k \in lost THEN disk[k] ELSE published[k]]
    /\ disk' = published'
    /\ \E back \in [Keys -> UNION {Kept(k) : k \in Keys}] :
        /\ \A k \in Keys : back[k] \in Kept(k)
        /\ advisory' = back
    /\ older' = [k \in Keys |-> {}]
    /\ Forget(Instances)
    /\ UNCHANGED <<now, journal, owner, tokens, hist>>

Tick ==
    /\ now < MaxTime
    /\ now' = now + 1
    /\ UNCHANGED <<files, locks, insts, locals, tokens, crashes, hist>>

-----------------------------------------------------------------------------
\* The steps a client takes inside a call it has begun.
Continue(c) ==
    \/ AdmitWrite(c) \/ RepeatCreate(c) \/ RefuseWrite(c) \/ LoseFence(c)
    \/ AppendRecord(c) \/ ReserveName(c) \/ ReplaceBlob(c) \/ GiveUpReplace(c)
    \/ FinishWrite(c)
    \/ SettleFence(c) \/ SettleHash(c)
    \/ AllocateFence(c) \/ GiveUpLock(c) \/ GrantLock(c)
    \/ RenewAdvisory(c)

\* The calls a client may begin.
Begin(c) ==
    \/ BeginCreate(c) \/ BeginUpdate(c)
    \/ BeginLock(c) \/ RenewOwner(c) \/ Unlock(c)

Resume(i) ==
    \/ \E k \in Keys : \/ ResumeSkip(i, k) \/ ResumeReserve(i, k)
                       \/ ResumeReplace(i, k) \/ ResumeSync(i, k)
    \/ ResumeDone(i)

Next ==
    \/ \E c \in Clients : Begin(c) \/ Continue(c) \/ CrashInAppend(c)
    \/ \E i \in Instances : StartInstance(i) \/ Resume(i) \/ ResumeFails(i) \/ Crash(i)
    \/ HostCrash
    \/ Tick

Spec == Init /\ [][Next]_vars

\* A thread inside a call and a constructor keep running unless they crash:
\* every wait in the code is a poll with a deadline.
Fairness ==
    /\ \A c \in Clients : WF_vars(Continue(c))
    /\ \A i \in Instances : WF_vars(Resume(i))

FairSpec == Spec /\ Fairness

-----------------------------------------------------------------------------
(* What the adapter promises.                                              *)

Up     == \E i \in Instances : istate[i] = "up"
NoTear == \A p \in Positions : Replayable(p)

\* Durability.  While any process is serving, every acknowledged write whose
\* record replay can reach is in the published blob or has been overwritten:
\* no crash, power loss or _resume() takes the key back behind it.
AckedSurvives ==
    \A p \in acked : Up /\ Replayable(p) => p <= published[journal[p].key].pos

\* No lost update.  When a write() is journaled, it was compared with a blob at
\* least as new as every write of the key acknowledged by then; and as long as
\* replay reaches it, as every earlier record that is acknowledged later (write()
\* of several processes, with crashes and resumes between them).
NoLostUpdate ==
    [][\A p \in acked', q \in Positions' :
        /\ p < q /\ Replayable(p)' /\ journal'[q].key = journal'[p].key
        /\ q \in Positions => Replayable(q)'
        => p <= journal'[q].base]_vars

\* The fences of the CAS-updates of a key never go down in journal order,
\* whichever processes wrote them (_fence_ok(), lock()).
FencesNeverRegress ==
    \A p, q \in Positions :
        /\ p < q /\ journal[p].key \in Keys /\ journal[p].key = journal[q].key
        /\ journal[p].fence > 0 /\ journal[q].fence > 0
        => journal[p].fence <= journal[q].fence

\* A CAS-update that reaches the readers does so while its fence is still the
\* one lock() allocated last: lock() cannot overtake a write() between its
\* fence check and its publish.  (A resume may land a dead writer's record later.)
LandsUnderCurrentFence ==
    [][\A k \in Keys :
        casLock \in Clients /\ casLock' = casLock /\ published'[k].pos > published[k].pos
        => journal[published'[k].pos].fence \in {0, owner[k].fence}]_vars

\* Who still holds a lease can write: as long as unlock() and renew() take a
\* client's lease for the holder's, it is the durable fence owner, whatever
\* processes were killed in lock() or renew() in between.  After a power loss
\* an older entry may be back and keep lock() BUSY until it expires; it is
\* nobody's, the leases having gone with the processes.
AdvisoryHolderOwnsFence ==
    \A c \in Clients : Holds(c) => owner[lease[c].key].token = lease[c].token

\* As long as a process is serving, and no append was torn, the version a
\* reader finds never goes back (_resume() runs beside serving processes).
ReadsNeverGoBack ==
    [][Up /\ Up' /\ NoTear =>
        \A k \in Keys : published'[k].pos >= published[k].pos]_vars

\* Every call of write(), lock() and renew() returns (or its process dies),
\* and every constructor finishes: no wait is unbounded.
CallsReturn ==
    /\ \A c \in Clients : pc[c] # "idle" ~> pc[c] = "idle"
    /\ \A i \in Instances : istate[i] = "resume" ~> istate[i] # "resume"

-----------------------------------------------------------------------------
(* What the documentation says and the code does not do.                   *)

\* Contract section 3: an OK is durable, torn journal tail or not.
AckedAlwaysSurvives == \A p \in acked : Up => p <= published[journal[p].key].pos

\* Contract section 1: ERROR(BUSY) means definitely not committed.
BusyNeverVisible == \A k \in Keys : published[k].pos \notin refused

\* Contract section 3: a reader sees the whole old blob or the whole new blob.
ReadersSeeWholeBlobs == \A k \in Keys : ReadValue(k) # Empty

=============================================================================
