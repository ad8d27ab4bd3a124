---------------------------- MODULE StoreContract ----------------------------
(***************************************************************************)
(* What every StoreBackend promises (src/store/backend.py), as the in-     *)
(* memory FakeBackend (src/store/fake.py) does it: one value per key, and  *)
(* every write() compares and replaces it in one step under one mutex.     *)
(* FakeBackend cannot crash; a durable adapter can, and then a write whose *)
(* caller died before its result was known may still land later, once, on  *)
(* the value it was compared with (an orphan).  So may, with a store behind*)
(* a network, a write or a lock() whose answer was lost.                   *)
(*                                                                         *)
(* A write states the value it must find (prior) and, for an Overwrite,    *)
(* that it carries a lease (fenced).  Leases are reduced to their fence:   *)
(* expiry only takes rights away, and a refusal is always allowed here.    *)
(***************************************************************************)
EXTENDS Integers

CONSTANTS
    Keys, Bodies, Absent, None, Clients,
    AnswersMayBeLost   \* is the store behind a network?

VARIABLES
    value,    \* _store: the body of each key, or Absent
    fence,    \* _fence[k]["owner_fence"]: the fence lock() allocated last
    lease,    \* the lease each client holds: key and fence
    op,       \* the write() each client is in: idle, open, or landed
    orphans   \* writes of dead clients that may still land

vars == <<value, fence, lease, op, orphans>>

Write   == [key : Keys, body : Bodies, prior : Bodies \cup {Absent}, fenced : BOOLEAN]
Idle    == [stage |-> "idle"]
Open(w) == [stage |-> "open", write |-> w]
Landed  == [stage |-> "landed"]
NoLease == [key |-> None, fence |-> 0]

IsOpen(c) == op[c].stage = "open"

Init ==
    /\ value = [k \in Keys |-> Absent]
    /\ fence = [k \in Keys |-> 0]
    /\ lease = [c \in Clients |-> NoLease]
    /\ op = [c \in Clients |-> Idle]
    /\ orphans = {}

BeginWrite(c) ==
    /\ op[c] = Idle
    /\ \E w \in Write : op' = [op EXCEPT ![c] = Open(w)]
    /\ UNCHANGED <<value, fence, lease, orphans>>

\* _fence_ok(): the lease is for this key and carries the fence allocated last.
FenceOk(c, w) == w.fenced => lease[c] = [key |-> w.key, fence |-> fence[w.key]]

\* Writes that may still land after a value of key k has been replaced: the
\* value an orphan of k was compared with is gone.  Behind a network it may
\* come back (hashes and ETags name contents), and the orphan land then.
Outlive(k) == IF AnswersMayBeLost THEN orphans ELSE {o \in orphans : o.key # k}

\* The compare and the replace; OK may come later.
Land(c) ==
    /\ IsOpen(c)
    /\ LET w == op[c].write IN
        /\ value[w.key] = w.prior
        /\ FenceOk(c, w)
        /\ value' = [value EXCEPT ![w.key] = w.body]
        /\ \E stage \in {Landed, Idle} : op' = [op EXCEPT ![c] = stage]
        /\ orphans' \in SUBSET Outlive(w.key)
    /\ UNCHANGED <<fence, lease>>

\* OK after landing; STALE, EXISTS, ERROR, or OK for a repeated create, before.
Return(c) ==
    /\ op[c] # Idle
    /\ op' = [op EXCEPT ![c] = Idle]
    /\ UNCHANGED <<value, fence, lease, orphans>>

\* Writes that may still land after a lock() of key k: behind a network none
\* that was compared with the old fence record, only a journaled one does.
Outrun(k) == IF AnswersMayBeLost THEN {o \in orphans : o.key # k} ELSE orphans

\* lock(): the next fence, which takes the right to write from every lease
\* handed out before.
Lock(c) ==
    /\ op[c] = Idle
    /\ \E k \in Keys :
        /\ fence' = [fence EXCEPT ![k] = @ + 1]
        /\ lease' = [lease EXCEPT ![c] = [key |-> k, fence |-> fence[k] + 1]]
        /\ orphans' \in SUBSET Outrun(k)
    /\ UNCHANGED <<value, op>>

\* ERROR(TIMEOUT_AFTER_COMMIT): the write has landed, or may land later.
Abandon(c) ==
    /\ AnswersMayBeLost
    /\ IsOpen(c)
    /\ op' = [op EXCEPT ![c] = Idle]
    /\ orphans' \in SUBSET (orphans \cup {op[c].write})
    /\ UNCHANGED <<value, fence, lease>>

\* lock() takes the right to write from everybody and its caller never hears.
LockUnanswered ==
    /\ AnswersMayBeLost
    /\ \E k \in Keys :
        /\ fence' = [fence EXCEPT ![k] = @ + 1]
        /\ orphans' \in SUBSET Outrun(k)
    /\ UNCHANGED <<value, lease, op>>

\* The values after the writes of landed are in place, at most one per key.
Settled(landed) ==
    [k \in Keys |-> IF \E w \in landed : w.key = k
                    THEN (CHOOSE w \in landed : w.key = k).body
                    ELSE value[k]]

\* Some clients die.  Their open writes, and orphans left earlier, land now,
\* later or never.
Crash ==
    \E dead \in SUBSET Clients :
        LET lost == orphans \cup {op[c].write : c \in {x \in dead : IsOpen(x)}} IN
        /\ dead # {}
        /\ \E landed \in SUBSET {w \in lost : value[w.key] = w.prior} :
            /\ \A w, x \in landed : w.key = x.key => w = x
            /\ value' = Settled(landed)
        /\ op' = [c \in Clients |-> IF c \in dead THEN Idle ELSE op[c]]
        /\ lease' = [c \in Clients |-> IF c \in dead THEN NoLease ELSE lease[c]]
        /\ orphans' \in SUBSET lost
        /\ UNCHANGED fence

\* A recovering process finds the write of a dead client and applies it, or a
\* delayed request reaches the store.
OrphanLands ==
    \E o \in orphans :
        /\ value[o.key] = o.prior
        /\ value' = [value EXCEPT ![o.key] = o.body]
        /\ orphans' \in SUBSET Outlive(o.key)
        /\ UNCHANGED <<fence, lease, op>>

\* Orphans are lost for good.
OrphansAreDropped ==
    /\ orphans' \in SUBSET orphans
    /\ UNCHANGED <<value, fence, lease, op>>

Next ==
    \/ OrphanLands \/ OrphansAreDropped
    \/ \E c \in Clients : BeginWrite(c) \/ Land(c) \/ Return(c) \/ Lock(c) \/ Abandon(c)
    \/ LockUnanswered
    \/ Crash

Spec == Init /\ [][Next]_vars

=============================================================================
