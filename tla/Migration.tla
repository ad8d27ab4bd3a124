------------------------------ MODULE Migration ------------------------------
(***************************************************************************)
(* migrate() (src/migrate/migrate.py): runs that copy a frozen source onto *)
(* one target, each under the migration lease.  The lease is a control     *)
(* document on the target, written through the fence of its key; lock() is *)
(* BUSY only within one process.  Every call to the target is one step;    *)
(* a call may raise, and a write that raises may have landed.              *)
(*                                                                         *)
(* Nobody but the runs writes the target (writers are stopped).  Hashes    *)
(* name contents: the document is its own hash, the clock it carries       *)
(* included.  Clocks are read by all runs alike.                           *)
(*                                                                         *)
(* A definition named X_fault is X with a plausible programming fault.     *)
(***************************************************************************)
EXTENDS Integers, FiniteSets

CONSTANTS
    Runs, None,
    RegistryOf,       \* the advisory lock registry (the process) of each run
    NKeys,            \* keys of the sources, in manifest order
    Bodies, Secrets, Absent,
    TTL, Interval,    \* _MIGRATION_LEASE_TTL_S, _MIGRATION_HEARTBEAT_INTERVAL_S
    Reacquires,       \* _FENCE_REACQUIRE_ATTEMPTS
    OldDocs,          \* what the control key may hold from before: data, held, released
    MaxTime, MaxFaults, MaxCrashes

ASSUME SentinelAssumption == None \notin Runs /\ Absent \notin Bodies /\ Secrets \subseteq Bodies
ASSUME TimesAssumption == TTL \in Nat /\ Interval \in 1..TTL /\ NKeys \in Nat \ {0}
ASSUME BoundsAssumption ==
    Reacquires \in Nat /\ MaxTime \in Nat /\ MaxFaults \in Nat /\ MaxCrashes \in Nat
ASSUME OldDocsAssumption == OldDocs \subseteq {"data", "held", "released"}

Keys == 1..NKeys
Registries == {RegistryOf[r] : r \in Runs}

VARIABLES
    now,       \* the clock
    doc,       \* the control document on the target
    fence,     \* the fence of the control key and when its owner expires
    entry,     \* the advisory holder in each registry
    source,    \* the keys of each run's source
    target,    \* the keys of the target
    run,       \* what each run is doing
    faults,    \* bound: calls that have raised
    crashes    \* bound: runs that have died

vars == <<now, doc, fence, entry, source, target, run, faults, crashes>>

-----------------------------------------------------------------------------
Doc == [status: {"absent", "data", "held", "released"}, owner: Runs \cup {None}, expires: Nat]
NoDoc == [status |-> "absent", owner |-> None, expires |-> 0]
DocOf(r, status, stamp) == [status |-> status, owner |-> r, expires |-> stamp + TTL]

Lease == [fence: Nat, expiry: Nat]
NoLease == [fence |-> 0, expiry |-> 0]

\* why: what the document is written for, and where the run goes on.
\* refused: no lease; lost, failed: aborted.  wrote, late and slow are history:
\* the keys the run stored, how many of them after another run's takeover, and
\* whether a write of its document took longer than a lease outlasts a heartbeat.
Run == [pc: {"start", "lock", "record", "doc", "answer", "reread", "relock", "beat", "scan",
             "put", "reconcile", "readback", "ownership", "unlock", "done", "dead"},
        why: {"create", "takeover", "confirm", "scan", "put", "ownership", "release"}, tries: 0..Reacquires,
        prior: Doc, mine: Doc, lease: Nat, stamp: Nat, last: Nat,
        at: Keys, verified: SUBSET Keys,
        outcome: {"none", "refused", "lost", "failed", "success"},
        wrote: SUBSET Keys, late: Nat, slow: BOOLEAN]
NewRun == [pc |-> "start", why |-> "create", tries |-> 0, prior |-> NoDoc, mine |-> NoDoc,
           lease |-> 0, stamp |-> 0, last |-> 0, at |-> 1, verified |-> {}, outcome |-> "none",
           wrote |-> {}, late |-> 0, slow |-> FALSE]

\* Types.  A run that has written a key holds a document it wrote, and what it
\* verified it has gone past.
TypeOK ==
    /\ now \in 0..MaxTime /\ faults \in 0..MaxFaults /\ crashes \in 0..MaxCrashes
    /\ doc \in Doc /\ fence \in Lease
    /\ entry \in [Registries -> Lease]
    /\ source \in [Runs -> [Keys -> Bodies]]
    /\ target \in [Keys -> Bodies \cup {Absent}]
    /\ \A r \in Runs :
        /\ run[r] \in Run
        /\ run[r].wrote # {} => run[r].mine.owner = r
        /\ \A k \in run[r].verified : k <= run[r].at

\* An empty control key, one that holds real data, the document of a run that
\* crashed, or one that was released; a target with keys of its own.
Init ==
    /\ now = 0 /\ faults = 0 /\ crashes = 0
    /\ doc \in {NoDoc} \cup {[NoDoc EXCEPT !.status = status, !.expires = 1] : status \in OldDocs}
    /\ fence = NoLease
    /\ entry = [p \in Registries |-> NoLease]
    /\ source \in [Runs -> [Keys -> Bodies]]
    /\ target \in [Keys -> Bodies \cup {Absent}]
    /\ run = [r \in Runs |-> NewRun]

At(r, label) == run[r].pc = label
Raises == faults < MaxFaults /\ faults' = faults + 1
store == <<now, source, crashes>>  \* what no run's step changes

-----------------------------------------------------------------------------
(* lock(), unlock() and renew() of the target.                             *)

Entry(r) == entry[RegistryOf[r]]
Busy(r) == Entry(r).fence # 0 /\ Entry(r).expiry > now
FenceOk(r) == run[r].lease = fence.fence /\ fence.expiry > now

LockControl(r) ==
    LET granted == [fence |-> fence.fence + 1, expiry |-> now + TTL] IN
    /\ ~Busy(r)
    /\ fence' = granted
    /\ entry' = [entry EXCEPT ![RegistryOf[r]] = granted]

UnlockControl(r) ==
    entry' = IF Entry(r).fence = run[r].lease THEN [entry EXCEPT ![RegistryOf[r]] = NoLease]
             ELSE entry

\* False, and nothing done, unless the lease is this run's and live.
Renew(r) ==
    IF FenceOk(r) /\ Busy(r) /\ Entry(r).fence = run[r].lease
    THEN /\ fence' = [fence EXCEPT !.expiry = now + TTL]
         /\ entry' = [entry EXCEPT ![RegistryOf[r]].expiry = now + TTL]
    ELSE UNCHANGED <<fence, entry>>

\* The run ends without a lease; or it ends, and releases the lease first.
Refuse(r) == run' = [run EXCEPT ![r].pc = "done", ![r].outcome = "refused"]
EndWith(r, outcome) ==
    run' = [run EXCEPT ![r].pc = "doc", ![r].why = "release", ![r].tries = 0,
                       ![r].stamp = now, ![r].outcome = outcome]

-----------------------------------------------------------------------------
(* _acquire_migration_lease().                                             *)

ReadControl(r) ==
    /\ At(r, "start")
    /\ IF doc.status = "data" \/ (doc.status = "held" /\ doc.expires > now) THEN Refuse(r)
       ELSE run' = [run EXCEPT ![r].pc = "lock", ![r].prior = doc]
    /\ UNCHANGED <<store, doc, fence, entry, target, faults>>

TakeLock(r) ==
    /\ At(r, "lock")
    /\ \/ /\ LockControl(r)
          /\ run' = [run EXCEPT ![r].pc = "record", ![r].lease = fence.fence + 1,
                                ![r].stamp = now]
       \/ Busy(r) /\ Refuse(r) /\ UNCHANGED <<fence, entry>>
    /\ UNCHANGED <<store, doc, target, faults>>

\* A step of acquiring raises; lock() may have advanced the fence.
AcquireRaises(r) ==
    /\ run[r].pc \in {"start", "lock"}
    /\ Raises
    /\ \/ At(r, "lock") /\ fence' = [fence |-> fence.fence + 1, expiry |-> now + TTL]
       \/ UNCHANGED fence
    /\ Refuse(r)
    /\ UNCHANGED <<store, doc, entry, target>>

\* The document goes over exactly what was read: nothing, or that document.
Recordable(r) == doc = run[r].prior /\ (doc.status # "absent" => FenceOk(r))

\* Fault: the takeover is compared with the document as it is now.
Record_reread(r) ==
    /\ At(r, "record")
    /\ FenceOk(r)
    /\ LET written == DocOf(r, "held", run[r].stamp) IN
        /\ doc' = written
        /\ run' = [run EXCEPT ![r].pc = "answer", ![r].mine = written,
                              ![r].why = IF run[r].prior.status = "absent" THEN "create"
                                         ELSE "takeover"]
    /\ UNCHANGED <<store, fence, entry, target, faults>>

Record(r) ==
    /\ At(r, "record")
    /\ Recordable(r)
    /\ LET written == DocOf(r, "held", run[r].stamp) IN
        /\ doc' = written
        /\ run' = [run EXCEPT ![r].pc = "answer", ![r].mine = written,
                              ![r].why = IF run[r].prior.status = "absent" THEN "create"
                                         ELSE "takeover"]
    /\ UNCHANGED <<store, fence, entry, target, faults>>

\* EXISTS or STALE: another run was first.
RecordRefused(r) ==
    /\ At(r, "record")
    /\ ~Recordable(r)
    /\ UnlockControl(r)
    /\ Refuse(r)
    /\ UNCHANGED <<store, doc, fence, target, faults>>

RecordRaises(r) ==
    /\ At(r, "record")
    /\ Raises
    /\ \/ Recordable(r) /\ doc' = DocOf(r, "held", run[r].stamp)
       \/ UNCHANGED doc
    /\ UnlockControl(r)
    /\ Refuse(r)
    /\ UNCHANGED <<store, fence, target>>

\* The lease runs from the stamp, the heartbeat interval from the answer: the
\* document may expire before the next heartbeat is due.
TooSlow(r) == now - run[r].stamp > TTL - Interval

\* The answer to the write arrives, however late, and last_heartbeat is the time
\* it does.  A created document is confirmed by a fenced write, with a new stamp.
Answer(r) ==
    /\ At(r, "answer")
    /\ \/ /\ run[r].why = "create"
          /\ run' = [run EXCEPT ![r].pc = "doc", ![r].why = "confirm", ![r].stamp = now,
                                ![r].last = now]
       \/ /\ run[r].why = "takeover"
          /\ run' = [run EXCEPT ![r].pc = "beat", ![r].why = "scan", ![r].last = now,
                                ![r].slow = @ \/ TooSlow(r)]
       \/ /\ run[r].why = "confirm"
          /\ run' = [run EXCEPT ![r].pc = "beat", ![r].why = "scan"]
       \/ /\ run[r].why \in {"scan", "put", "ownership"}
          /\ run' = [run EXCEPT ![r].pc = run[r].why, ![r].last = now,
                                ![r].slow = @ \/ TooSlow(r)]
       \/ /\ run[r].why = "release"
          /\ run' = [run EXCEPT ![r].pc = "unlock"]
    /\ UNCHANGED <<store, doc, fence, entry, target, faults>>

-----------------------------------------------------------------------------
(* _write_doc(): confirm, heartbeat, release.                              *)

\* The lease is lost: refused in acquire, aborted in a pass, nothing in release.
LoseLease(r, outcome) ==
    CASE run[r].why = "confirm" -> EndWith(r, "refused")
      [] run[r].why = "release" -> run' = [run EXCEPT ![r].pc = "unlock"]
      [] OTHER -> EndWith(r, outcome)

Status(r) == IF run[r].why = "release" THEN "released" ELSE "held"

WriteDoc(r) ==
    /\ At(r, "doc")
    /\ FenceOk(r) /\ doc = run[r].mine
    /\ LET written == DocOf(r, Status(r), run[r].stamp) IN
        /\ doc' = written
        /\ run' = [run EXCEPT ![r].pc = "answer", ![r].mine = written]
    /\ UNCHANGED <<store, fence, entry, target, faults>>

\* STALE: on the fence, the document is read again; on the hash, it is lost.
DocRefused(r) ==
    /\ At(r, "doc")
    /\ \/ ~FenceOk(r) /\ run' = [run EXCEPT ![r].pc = "reread"]
       \/ FenceOk(r) /\ doc # run[r].mine /\ LoseLease(r, "lost")
    /\ UNCHANGED <<store, doc, fence, entry, target, faults>>

\* Fault: a fence refusal is final.
Reread_final(r) ==
    /\ At(r, "reread")
    /\ LoseLease(r, "lost")
    /\ UNCHANGED <<store, doc, fence, entry, target, faults>>

\* Still this run's document: only the fence was taken, by a run that lost.
Reread(r) ==
    /\ At(r, "reread")
    /\ \/ /\ doc # run[r].mine \/ run[r].tries = Reacquires
          /\ LoseLease(r, "lost")
          /\ UNCHANGED entry
       \/ /\ doc = run[r].mine /\ run[r].tries < Reacquires
          /\ UnlockControl(r)
          /\ run' = [run EXCEPT ![r].pc = "relock"]
    /\ UNCHANGED <<store, doc, fence, target, faults>>

Relock(r) ==
    /\ At(r, "relock")
    /\ \/ /\ LockControl(r)
          /\ run' = [run EXCEPT ![r].pc = "doc", ![r].lease = fence.fence + 1,
                                ![r].stamp = now, ![r].tries = @ + 1]
       \/ Busy(r) /\ LoseLease(r, "lost") /\ UNCHANGED <<fence, entry>>
    /\ UNCHANGED <<store, doc, target, faults>>

\* A call of _write_doc() raises, or returns an ERROR: the write may have
\* landed, and lock() may have advanced the fence.
DocRaises(r) ==
    /\ run[r].pc \in {"doc", "reread", "relock"}
    /\ Raises
    /\ \/ /\ At(r, "doc") /\ FenceOk(r) /\ doc = run[r].mine
          /\ doc' = DocOf(r, Status(r), run[r].stamp)
          /\ UNCHANGED fence
       \/ /\ At(r, "relock")
          /\ fence' = [fence |-> fence.fence + 1, expiry |-> now + TTL]
          /\ UNCHANGED doc
       \/ UNCHANGED <<doc, fence>>
    /\ LoseLease(r, "failed")
    /\ UNCHANGED <<store, entry, target>>

\* Fault: renewing the advisory lock is taken for the heartbeat.
Beat_renewOnly(r) ==
    /\ At(r, "beat")
    /\ \/ /\ now - run[r].last < Interval
          /\ run' = [run EXCEPT ![r].pc = run[r].why]
          /\ UNCHANGED <<fence, entry>>
       \/ /\ now - run[r].last >= Interval
          /\ Renew(r)
          /\ run' = [run EXCEPT ![r].pc = run[r].why, ![r].last = now]
    /\ UNCHANGED <<store, doc, target, faults>>

\* heartbeat_if_due().  (The call after a key and the one before the next key
\* follow each other at once and are one.)
Beat(r) ==
    /\ At(r, "beat")
    /\ \/ /\ now - run[r].last < Interval
          /\ run' = [run EXCEPT ![r].pc = run[r].why]
          /\ UNCHANGED <<fence, entry>>
       \/ /\ now - run[r].last >= Interval
          /\ Renew(r)
          /\ run' = [run EXCEPT ![r].pc = "doc", ![r].tries = 0, ![r].stamp = now]
    /\ UNCHANGED <<store, doc, target, faults>>

-----------------------------------------------------------------------------
(* _migrate_body().                                                        *)

Here(r) == source[r][run[r].at]

\* Pass 1: the name and the body of a key; the source is read and may fail.
Scan(r) ==
    /\ At(r, "scan")
    /\ IF Here(r) \in Secrets THEN EndWith(r, "failed")
       ELSE run' = [run EXCEPT ![r].pc = "beat",
                               ![r].why = IF run[r].at < NKeys THEN "scan" ELSE "put",
                               ![r].at = IF run[r].at < NKeys THEN @ + 1 ELSE 1]
    /\ UNCHANGED <<store, doc, fence, entry, target, faults>>

\* Stored by this run; late if the document is another run's by then.
Stored(r) ==
    /\ target[run[r].at] = Absent
    /\ target' = [target EXCEPT ![run[r].at] = Here(r)]
Counted(r, label) ==
    [run[r] EXCEPT !.pc = label, !.wrote = @ \cup {run[r].at},
                   !.late = @ + IF doc.owner # r THEN 1 ELSE 0]

\* Fault: a key of the target that differs is replaced.
Put_overwrite(r) ==
    /\ At(r, "put")
    /\ target' = [target EXCEPT ![run[r].at] = Here(r)]
    /\ run' = [run EXCEPT ![r] = Counted(r, "readback")]
    /\ UNCHANGED <<store, doc, fence, entry, faults>>

\* Pass 2: create-only; OK if it is there already, EXISTS if another body is.
Put(r) ==
    /\ At(r, "put")
    /\ \/ Stored(r) /\ run' = [run EXCEPT ![r] = Counted(r, "readback")]
       \/ /\ target[run[r].at] = Here(r)
          /\ run' = [run EXCEPT ![r].pc = "readback"]
          /\ UNCHANGED target
       \/ /\ target[run[r].at] \notin {Absent, Here(r)}
          /\ EndWith(r, "failed")
          /\ UNCHANGED target
    /\ UNCHANGED <<store, doc, fence, entry, faults>>

\* TIMEOUT_AFTER_COMMIT, or an exception: landed or not.
PutRaises(r) ==
    /\ At(r, "put")
    /\ Raises
    /\ \/ Stored(r) /\ run' = [run EXCEPT ![r] = Counted(r, "reconcile")]
       \/ UNCHANGED target /\ run' = [run EXCEPT ![r].pc = "reconcile"]
    /\ UNCHANGED <<store, doc, fence, entry>>

\* gate.reconcile() without a retry: OK only if the body is there.
Reconcile(r) ==
    /\ At(r, "reconcile")
    /\ IF target[run[r].at] = Here(r) THEN run' = [run EXCEPT ![r].pc = "readback"]
       ELSE EndWith(r, "failed")
    /\ UNCHANGED <<store, doc, fence, entry, target, faults>>

\* Go on after a verified key.
Verified(r) ==
    [run[r] EXCEPT !.pc = "beat", !.verified = @ \cup {run[r].at}]

\* Fault: the last key is not the last.
ReadBack_pastEnd(r) ==
    /\ At(r, "readback")
    /\ IF target[run[r].at] # Here(r) THEN EndWith(r, "failed")
       ELSE run' = [run EXCEPT ![r] = [Verified(r) EXCEPT
                      !.why = IF run[r].at < NKeys THEN "put" ELSE "ownership",
                      !.at = @ + 1]]
    /\ UNCHANGED <<store, doc, fence, entry, target, faults>>

ReadBack(r) ==
    /\ At(r, "readback")
    /\ IF target[run[r].at] # Here(r) THEN EndWith(r, "failed")
       ELSE run' = [run EXCEPT ![r] = [Verified(r) EXCEPT
                      !.why = IF run[r].at < NKeys THEN "put" ELSE "ownership",
                      !.at = IF run[r].at < NKeys THEN @ + 1 ELSE @]]
    /\ UNCHANGED <<store, doc, fence, entry, target, faults>>

\* Fault: a lease that was owned at the last heartbeat is good enough.
VerifyOwnership_skipped(r) ==
    /\ At(r, "ownership")
    /\ EndWith(r, "success")
    /\ UNCHANGED <<store, doc, fence, entry, target, faults>>

\* verify_ownership(), and the report: success is the cutover signal.
VerifyOwnership(r) ==
    /\ At(r, "ownership")
    /\ EndWith(r, IF doc = run[r].mine THEN "success" ELSE "lost")
    /\ UNCHANGED <<store, doc, fence, entry, target, faults>>

\* A read of the source or the target raises, or an ERROR is final.
PassRaises(r) ==
    /\ run[r].pc \in {"scan", "put", "reconcile", "readback", "ownership"}
    /\ Raises
    /\ EndWith(r, "failed")
    /\ UNCHANGED <<store, doc, fence, entry, target>>

Unlock(r) ==
    /\ At(r, "unlock")
    /\ UnlockControl(r)
    /\ run' = [run EXCEPT ![r].pc = "done"]
    /\ UNCHANGED <<store, doc, fence, target, faults>>

-----------------------------------------------------------------------------
\* A process dies with its runs and its registry.
Crash(p) ==
    /\ crashes < MaxCrashes
    /\ \E r \in Runs : RegistryOf[r] = p /\ run[r].pc # "done"
    /\ crashes' = crashes + 1
    /\ entry' = [entry EXCEPT ![p] = NoLease]
    /\ run' = [r \in Runs |-> IF RegistryOf[r] = p /\ run[r].pc # "done"
                              THEN [run[r] EXCEPT !.pc = "dead"] ELSE run[r]]
    /\ UNCHANGED <<now, doc, fence, source, target, faults>>

Tick ==
    /\ now < MaxTime
    /\ now' = now + 1
    /\ UNCHANGED <<doc, fence, entry, source, target, run, faults, crashes>>

Step(r) ==
    \/ ReadControl(r) \/ TakeLock(r) \/ Record(r) \/ RecordRefused(r) \/ Answer(r)
    \/ WriteDoc(r) \/ DocRefused(r) \/ Reread(r) \/ Relock(r) \/ Beat(r)
    \/ Scan(r) \/ Put(r) \/ Reconcile(r) \/ ReadBack(r) \/ VerifyOwnership(r) \/ Unlock(r)

Fails(r) == AcquireRaises(r) \/ RecordRaises(r) \/ DocRaises(r) \/ PutRaises(r) \/ PassRaises(r)

Next ==
    \/ \E r \in Runs : Step(r) \/ Fails(r)
    \/ \E p \in Registries : Crash(p)
    \/ Tick

Spec == Init /\ [][Next]_vars

-----------------------------------------------------------------------------
\* The cutover signal: every key of the source is on the target, byte for byte,
\* also when two runs with different sources shared the target.
CutoverMeansComplete ==
    \A r \in Runs : run[r].outcome = "success" => target = source[r]

\* No run ever replaces or removes a key of the target.
TargetOnlyGrows == [][\A k \in Keys : target[k] # Absent => target'[k] = target[k]]_vars

\* Nothing is uploaded from a source that holds a secret, wherever in the
\* manifest it is.
ScanBeforeUpload ==
    \A r \in Runs : run[r].wrote # {} => \A k \in Keys : source[r][k] \notin Secrets

\* The document of a live owner is replaced by nobody else, and real data under
\* the control key by nobody at all.
LiveLeaseIsKept ==
    [][doc' # doc => /\ doc.status # "data"
                     /\ doc.status = "held" => doc'.owner = doc.owner \/ doc.expires <= now]_vars

\* A run that was never failed by a call loses its lease only to a run that took
\* it, to another's lock() in the same process, or after every re-acquisition a
\* heartbeat is allowed lost the fence again: a contender that merely advanced
\* the fence does not end it.
LostMeansTaken ==
    [][\A r \in Runs : run'[r].outcome # run[r].outcome /\ run'[r].outcome = "lost"
                       => \/ doc # run[r].mine
                          \/ Busy(r) /\ Entry(r).fence # run[r].lease
                          \/ run[r].tries = Reacquires /\ ~FenceOk(r)]_vars

\* After another run took the lease over, a run stores at most the one key it
\* was writing, however slow everything else is: unless a write of its own
\* document was answered so late that the lease it grants ends before the next
\* heartbeat is due.
AtMostOneKeyAfterTakeover == \A r \in Runs : run[r].late <= 1 \/ run[r].slow

\* A takeover before the last check is never reported as a success.
NoCutoverAfterTakeover ==
    [][\A r \in Runs : run'[r].outcome # run[r].outcome /\ run'[r].outcome = "success"
                       => doc.owner = r]_vars

-----------------------------------------------------------------------------
(* What the docstrings say and the code does not do.                       *)

\* Of _acquire_migration_lease(): a run refused the lease changed nothing.
RefusedChangesNothing ==
    \A r \in Runs : run[r].outcome = "refused" => doc.owner # r

\* Of _MIGRATION_LEASE_TTL_S and migrate(): the lease does not lapse mid-run,
\* however slow the backends are, so a run that was taken over stops with the
\* key it was writing.
TakeoverStopsWrites == \A r \in Runs : run[r].late <= 1

\* Item 7: after any abort, what a run stored is a verified prefix.
AbortLeavesVerified ==
    \A r \in Runs : run[r].outcome \in {"lost", "failed"} => run[r].wrote \subseteq run[r].verified

=============================================================================
