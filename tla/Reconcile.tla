------------------------------ MODULE Reconcile ------------------------------
(***************************************************************************)
(* Callers of persist() and reconcile() (src/store/gate.py) over a store   *)
(* behind a network.  A caller locks the key, writes once under that       *)
(* lease, and reconciles when it does not know the outcome: reconcile()    *)
(* reads the key back and runs the caller's retry, which is the same write *)
(* under the same lease, only if the key still holds the value before it.  *)
(*                                                                         *)
(* The store is the one of StoreContract; a request whose caller was told  *)
(* TIMEOUT_AFTER_COMMIT or CONFLICT_UNKNOWN has been applied, or is still  *)
(* on its way, or is lost.  Leases are reduced to their fence, and a write *)
(* under a lease may be refused at any time because it has expired.        *)
(* Malformed arguments are refused by validate_write() before any of this. *)
(*                                                                         *)
(* A definition named X_fault is X with a plausible programming fault.     *)
(***************************************************************************)
EXTENDS Integers

CONSTANTS Keys, Bodies, Absent, None, Clients

ASSUME SentinelAssumption == {Absent, None} \cap Bodies = {} /\ None \notin Keys

VARIABLES
    value,    \* the body of each key, or Absent
    fence,    \* the fence lock() allocated last for each key
    lease,    \* the lease of each caller: key and fence
    session   \* the write of each caller and what has become of it

vars == <<value, fence, lease, session>>

-----------------------------------------------------------------------------
Write == [key: Keys, body: Bodies, prior: Bodies \cup {Absent}, fenced: BOOLEAN]
NoWrite == [key |-> None, body |-> None, prior |-> Absent, fenced |-> FALSE]
NoLease == [key |-> None, fence |-> 0]

\* What the caller is told: a WriteResult, or nothing yet.
Answers == {"none", "OK", "EXISTS", "STALE", "UNKNOWN"}

\* seen: the fence of the key when the request left; late: requests still on
\* their way (the write and its retry); applied is history.
Session == [phase: {"new", "write", "reconcile", "retry", "told"}, write: Write \cup {NoWrite},
            seen: Nat, late: 0..2, told: Answers, applied: Nat]
NoSession == [phase |-> "new", write |-> NoWrite, seen |-> 0, late |-> 0,
              told |-> "none", applied |-> 0]

\* Types.  Only a caller that was told has an answer, and what was applied or
\* is on its way was sent: one write and one retry.
TypeOK ==
    /\ value \in [Keys -> Bodies \cup {Absent}]
    /\ fence \in [Keys -> Nat]
    /\ lease \in [Clients -> [key: Keys \cup {None}, fence: Nat]]
    /\ session \in [Clients -> Session]
    /\ \A c \in Clients :
        /\ session[c].told # "none" <=> session[c].phase = "told"
        /\ session[c].applied + session[c].late <= 2

Init ==
    /\ value = [k \in Keys |-> Absent]
    /\ fence = [k \in Keys |-> 0]
    /\ lease = [c \in Clients |-> NoLease]
    /\ session = [c \in Clients |-> NoSession]

Own(c) == session[c].write
Sending(c) == session[c].phase \in {"write", "retry"}

\* After a write: tell its result, or reconcile.  After the retry reconcile()
\* returns its result unchanged, and CONFLICT_UNKNOWN if it raised.
Answered(c, result) ==
    IF result = "UNKNOWN" /\ session[c].phase = "write"
    THEN [session[c] EXCEPT !.phase = "reconcile"]
    ELSE [session[c] EXCEPT !.phase = "told", !.told = result]

-----------------------------------------------------------------------------
Lock(c) ==
    /\ session[c].phase = "new" /\ lease[c] = NoLease
    /\ \E k \in Keys :
        /\ fence' = [fence EXCEPT ![k] = @ + 1]
        /\ lease' = [lease EXCEPT ![c] = [key |-> k, fence |-> fence[k] + 1]]
    /\ UNCHANGED <<value, session>>

\* persist(): a create without, an Overwrite with the lease of its key.
BeginWrite(c) ==
    \E w \in Write :
        /\ session[c].phase = "new"
        /\ w.fenced <=> w.prior # Absent
        /\ w.fenced => lease[c].key = w.key
        /\ session' = [session EXCEPT ![c] =
               [phase |-> "write", write |-> w, seen |-> fence[w.key], late |-> 0,
                told |-> "none", applied |-> 0]]
        /\ UNCHANGED <<value, fence, lease>>

FenceOk(c) == Own(c).fenced => lease[c].fence = fence[Own(c).key]

\* The adapter's precondition.
Admitted(c) == value[Own(c).key] = Own(c).prior /\ FenceOk(c)

Apply(c) == value' = [value EXCEPT ![Own(c).key] = Own(c).body]

\* The write is applied; the caller hears OK or nothing.
Lands(c) ==
    /\ Sending(c) /\ Admitted(c)
    /\ Apply(c)
    /\ \E result \in {"OK", "UNKNOWN"} :
        session' = [session EXCEPT ![c] = [Answered(c, result) EXCEPT !.applied = @ + 1]]
    /\ UNCHANGED <<fence, lease>>

\* The request is delayed; it was prepared while the precondition held.
IsDelayed(c) ==
    /\ Sending(c) /\ Admitted(c)
    /\ session' = [session EXCEPT ![c] = [Answered(c, "UNKNOWN") EXCEPT
                                            !.late = @ + 1, !.seen = fence[Own(c).key]]]
    /\ UNCHANGED <<value, fence, lease>>

\* The request is lost.
IsLost(c) ==
    /\ Sending(c)
    /\ session' = [session EXCEPT ![c] = Answered(c, "UNKNOWN")]
    /\ UNCHANGED <<value, fence, lease>>

\* STALE for a lost or expired lease or another value; EXISTS; OK for a create
\* that finds its own body.
Refused(c) ==
    /\ Sending(c)
    /\ ~Admitted(c) \/ Own(c).fenced
    /\ \E result \in {"OK", "EXISTS", "STALE"} :
        /\ result = "STALE" <=> Own(c).fenced
        /\ result = "OK" <=> ~Own(c).fenced /\ value[Own(c).key] = Own(c).body
        /\ session' = [session EXCEPT ![c] = Answered(c, result)]
    /\ UNCHANGED <<value, fence, lease>>

\* Fault: the precondition of the request names the value only.
LateLands_valueOnly(c) ==
    /\ session[c].late > 0
    /\ value[Own(c).key] = Own(c).prior
    /\ Apply(c)
    /\ session' = [session EXCEPT ![c].late = @ - 1, ![c].applied = @ + 1]
    /\ UNCHANGED <<fence, lease>>

\* A delayed request arrives: it names the value and the fence record it was
\* prepared on (an ETag, a parent commit).
LateLands(c) ==
    /\ session[c].late > 0
    /\ value[Own(c).key] = Own(c).prior
    /\ session[c].seen = fence[Own(c).key]
    /\ Apply(c)
    /\ session' = [session EXCEPT ![c].late = @ - 1, ![c].applied = @ + 1]
    /\ UNCHANGED <<fence, lease>>

-----------------------------------------------------------------------------
(* reconcile(): read once, compare, retry at most once.                    *)

Reconciling(c) == session[c].phase = "reconcile"
Tell(c, result) == session' = [session EXCEPT ![c].phase = "told", ![c].told = result]

\* current == intended_new_hash.
FindOwn(c) ==
    /\ Reconciling(c)
    /\ value[Own(c).key] = Own(c).body
    /\ Tell(c, "OK")
    /\ UNCHANGED <<value, fence, lease>>

\* current == expected_hash: run the caller's retry.
Retry(c) ==
    /\ Reconciling(c)
    /\ Own(c).prior # Absent
    /\ value[Own(c).key] = Own(c).prior /\ Own(c).prior # Own(c).body
    /\ session' = [session EXCEPT ![c].phase = "retry"]
    /\ UNCHANGED <<value, fence, lease>>

\* Fault: a create that finds no value is taken for one that found its own.
GiveUp_noneIsNone(c) ==
    /\ Reconciling(c)
    /\ value[Own(c).key] # Own(c).body
    /\ Tell(c, IF value[Own(c).key] = Absent THEN "OK" ELSE "UNKNOWN")
    /\ UNCHANGED <<value, fence, lease>>

\* CONFLICT_UNKNOWN: superseded or indeterminate, no retry, the read raised.
GiveUp(c) ==
    /\ Reconciling(c)
    /\ Tell(c, "UNKNOWN")
    /\ UNCHANGED <<value, fence, lease>>

-----------------------------------------------------------------------------
Next ==
    \E c \in Clients :
        \/ Lock(c) \/ BeginWrite(c)
        \/ Lands(c) \/ IsDelayed(c) \/ IsLost(c) \/ Refused(c) \/ LateLands(c)
        \/ FindOwn(c) \/ Retry(c) \/ GiveUp(c)

Spec == Init /\ [][Next]_vars

-----------------------------------------------------------------------------
\* A write that was reconciled and retried takes effect at most once, however
\* late its requests arrive and whatever others write in between.
AppliedAtMostOnce == \A c \in Clients : session[c].applied <= 1

\* OK is told only of a body that was stored by this caller or another.
OkMeansStored ==
    \A c \in Clients :
        session[c].told = "OK"
        => \E d \in Clients : /\ session[d].applied > 0
                              /\ Own(d).key = Own(c).key /\ Own(d).body = Own(c).body

-----------------------------------------------------------------------------
(* The store is the one the adapters implement.                            *)

InFlight == {c \in Clients : session[c].late > 0 /\ session[c].seen = fence[Own(c).key]}

Contract == INSTANCE StoreContract WITH
    op <- [c \in Clients |-> IF Sending(c) THEN [stage |-> "open", write |-> Own(c)]
                             ELSE [stage |-> "idle"]],
    orphans <- {Own(c) : c \in InFlight},
    AnswersMayBeLost <- TRUE

\* Callers and reconcile() ask of the store only what every adapter promises.
ImplementsContract == Contract!Spec

-----------------------------------------------------------------------------
(* What the documentation says and the code does not do.                   *)

\* Contract section 7: a STALE that reconcile() returns is a true one; the
\* write has not been applied and is not applied later.
StaleMeansNotCommitted ==
    \A c \in Clients : session[c].told = "STALE" => session[c].applied = 0

=============================================================================
