--------------------------- MODULE Migration_proofs ---------------------------
(***************************************************************************)
(* Proofs about Migration, for any runs in any processes, any sources and  *)
(* target, and calls that raise, crashes and clocks as they come.          *)
(*                                                                         *)
(* RunOK says of one run what each place of its program relies on.  It     *)
(* refers to other runs only through the target, which only grows, and the *)
(* clock: so a step of one run keeps it for the others (StepKeepsRuns).    *)
(***************************************************************************)
EXTENDS Migration, TLAPS

\* The reason for a heartbeat is the place the run goes on at.
PlacesOK(c) ==
    /\ c.pc \in {"put", "reconcile", "readback"} => c.why = "put"
    /\ c.pc \in {"scan", "ownership"} => c.why = c.pc
    /\ c.pc = "beat" => c.why \in {"scan", "put", "ownership"}
    /\ c.pc \in {"start", "lock", "record"} => c.why = "create"
    /\ c.pc = "relock" => c.tries < Reacquires

\* What is taken over was no data and not live, and is not live again.
PriorOK(c, clock) ==
    c.pc \in {"lock", "record"} =>
        c.prior.status # "data" /\ (c.prior.status = "held" => c.prior.expires <= clock)

\* A run that has written its document knows it.
MineOK(r, c) ==
    /\ c.mine.status # "data"
    /\ \/ c.why \in {"confirm", "scan", "put", "ownership"} \/ c.wrote # {}
       \/ c.pc \in {"doc", "answer", "reread", "relock"}
       => c.mine.owner = r

\* Pass 1 has looked at the keys before this one, pass 2 follows all of it.
ScannedOK(c, from) ==
    /\ c.why \in {"create", "takeover", "confirm"} => c.at = 1
    /\ c.why = "scan" => \A k \in Keys : k < c.at => from[k] \notin Secrets
    /\ c.why \in {"put", "ownership"} \/ c.wrote # {} => \A k \in Keys : from[k] \notin Secrets

\* What was verified is on the target; pass 2 has verified the keys before this
\* one, and success follows all of it.
CopiedOK(c, from, to) ==
    /\ \A k \in c.verified : to[k] = from[k] /\ k <= c.at
    /\ c.why \in {"create", "takeover", "confirm", "scan"} => c.verified = {}
    /\ c.why = "put" => \A k \in Keys : k < c.at => k \in c.verified
    /\ c.why = "ownership" \/ c.outcome = "success" => c.verified = Keys

\* Run r, in state c, copying from one map of keys to another.
RunOK(r, c, clock, from, to) ==
    /\ c \in Run
    /\ PlacesOK(c) /\ PriorOK(c, clock) /\ MineOK(r, c) /\ ScannedOK(c, from)
    /\ CopiedOK(c, from, to)

SharedOK ==
    /\ now \in 0..MaxTime /\ faults \in 0..MaxFaults /\ crashes \in 0..MaxCrashes
    /\ doc \in Doc /\ fence \in Lease
    /\ entry \in [Registries -> Lease]
    /\ source \in [Runs -> [Keys -> Bodies]]
    /\ target \in [Keys -> Bodies \cup {Absent}]

RunsOK ==
    /\ run \in [Runs -> Run]
    /\ \A r \in Runs : RunOK(r, run[r], now, source[r], target)

IInv == SharedOK /\ RunsOK

\* The target of before is part of the target of now.
Grows == \A k \in Keys : target[k] # Absent => target'[k] = target[k]

LEMMA InvTypeOK == IInv => TypeOK
BY DEF IInv, SharedOK, RunsOK, RunOK, MineOK, CopiedOK, TypeOK

LEMMA InitIInv == Init => IInv
<1> SUFFICES ASSUME Init PROVE IInv
  OBVIOUS
<1>1. NoDoc \in Doc
  BY DEF NoDoc, Doc
<1>2. doc \in Doc
  <2>1. CASE doc = NoDoc
    BY <1>1, <2>1
  <2>2. ASSUME NEW status \in OldDocs, doc = [NoDoc EXCEPT !.status = status, !.expires = 1]
        PROVE  doc \in Doc
    BY <2>2, OldDocsAssumption DEF NoDoc, Doc
  <2> QED
    BY <2>1, <2>2 DEF Init
<1>3. SharedOK
  <2>1. NoLease \in Lease
    BY DEF NoLease, Lease
  <2>2. entry \in [Registries -> Lease] /\ fence \in Lease
    BY <2>1 DEF Init
  <2>3. now \in 0..MaxTime /\ faults \in 0..MaxFaults /\ crashes \in 0..MaxCrashes
    <3>1. now = 0 /\ faults = 0 /\ crashes = 0
      BY DEF Init
    <3> QED
      BY <3>1, BoundsAssumption
  <2> QED
    BY <1>2, <2>2, <2>3 DEF Init, SharedOK
<1>4. ASSUME NEW r \in Runs PROVE RunOK(r, NewRun, now, source[r], target)
  <2>1. NewRun \in Run
    BY <1>1, BoundsAssumption, TimesAssumption DEF NewRun, Run, Keys
  <2>2. PlacesOK(NewRun) /\ PriorOK(NewRun, now)
    BY DEF NewRun, PlacesOK, PriorOK
  <2>3. MineOK(r, NewRun) /\ ScannedOK(NewRun, source[r]) /\ CopiedOK(NewRun, source[r], target)
    BY DEF NewRun, NoDoc, MineOK, ScannedOK, CopiedOK
  <2> QED
    BY <2>1, <2>2, <2>3 DEF RunOK
<1>5. \A r \in Runs : run[r] = NewRun
  BY DEF Init
<1>6. run \in [Runs -> Run]
  BY <1>4, <1>5 DEF Init, RunOK
<1> QED
  BY <1>3, <1>4, <1>5, <1>6 DEF RunsOK, IInv

\* A run stays as it should be when the target grows and the clock runs.
LEMMA RunKept ==
    ASSUME NEW r \in Runs, NEW c, NEW t \in Int, NEW u \in Int, t <= u,
           NEW from \in [Keys -> Bodies], NEW to, NEW more, RunOK(r, c, t, from, to),
           \A k \in Keys : to[k] # Absent => more[k] = to[k]
    PROVE  RunOK(r, c, u, from, more)
<1>1. CopiedOK(c, from, more)
  BY SentinelAssumption DEF RunOK, CopiedOK, Run
<1>2. PriorOK(c, u)
  <2>1. c.prior.expires \in Int
    BY DEF RunOK, Run, Doc
  <2> QED
    BY <2>1 DEF RunOK, PriorOK
<1> QED
  BY <1>1, <1>2 DEF RunOK

\* A step of r that leaves it as c, on a target that grows and a clock that does
\* not go back, keeps the other runs as they should be.
LEMMA StepKeepsRuns ==
    ASSUME IInv, NEW r \in Runs, NEW c, run' = [run EXCEPT ![r] = c],
           RunOK(r, c, now', source'[r], target'),
           SharedOK', Grows, UNCHANGED source, now <= now'
    PROVE  IInv'
<1>1. c \in Run /\ run' \in [Runs -> Run]
  BY DEF RunOK, IInv, RunsOK
<1>2. ASSUME NEW q \in Runs PROVE RunOK(q, run'[q], now', source'[q], target')
  <2>1. CASE q = r
    BY <2>1, <1>1 DEF IInv, RunsOK
  <2>2. CASE q # r
    <3>1. run'[q] = run[q]
      BY <2>2 DEF IInv, RunsOK
    <3>2. source[q] \in [Keys -> Bodies] /\ now \in Int /\ now' \in Int
      BY DEF IInv, SharedOK
    <3>3. RunOK(q, run[q], now', source[q], target')
      BY <3>2, RunKept DEF IInv, RunsOK, Grows
    <3> QED
      BY <3>1, <3>3
  <2> QED
    BY <2>1, <2>2
<1> QED
  BY <1>1, <1>2 DEF IInv, RunsOK

\* ... which is the same for a step that changes neither target nor clock.
LEMMA StepOfRun ==
    ASSUME IInv, NEW r \in Runs, NEW c, run' = [run EXCEPT ![r] = c],
           RunOK(r, c, now, source[r], target), UNCHANGED <<now, source, crashes, target>>,
           doc' \in Doc, fence' \in Lease, entry' \in [Registries -> Lease],
           faults' \in 0..MaxFaults
    PROVE  IInv' /\ Grows
<1>1. SharedOK'
  BY DEF IInv, SharedOK
<1>2. Grows /\ now <= now'
  BY DEF Grows, IInv, SharedOK
<1> QED
  BY <1>1, <1>2, StepKeepsRuns

\* Nothing shared changes but the document, the locks and the count of faults.
SharedStep ==
    /\ UNCHANGED <<now, source, crashes, target>>
    /\ doc' \in Doc /\ fence' \in Lease /\ entry' \in [Registries -> Lease]
    /\ faults' \in 0..MaxFaults

\* The run ends, whatever it was doing after it wrote its document.
LEMMA EndWithOK ==
    ASSUME IInv, NEW r \in Runs, NEW outcome \in {"refused", "lost", "failed", "success"},
           EndWith(r, outcome), SharedStep, run[r].mine.owner = r,
           outcome = "success" => run[r].verified = Keys
    PROVE  IInv' /\ Grows
<1> DEFINE c == [run[r] EXCEPT !.pc = "doc", !.why = "release", !.tries = 0,
                               !.stamp = now, !.outcome = outcome]
<1>1. run' = [run EXCEPT ![r] = c]
  BY DEF EndWith, IInv, RunsOK
<1>2. run[r] \in Run /\ now \in Nat /\ 0 \in 0..Reacquires
  BY BoundsAssumption DEF IInv, RunsOK, SharedOK
<1>3. c \in Run
  BY <1>2 DEF Run
<1>4. /\ c.pc = "doc" /\ c.why = "release" /\ c.outcome = outcome
      /\ c.mine = run[r].mine /\ c.wrote = run[r].wrote /\ c.verified = run[r].verified
      /\ c.at = run[r].at
  BY <1>2 DEF Run
<1> HIDE DEF c
<1>5. RunOK(r, run[r], now, source[r], target)
  BY DEF IInv, RunsOK
<1>6. RunOK(r, c, now, source[r], target)
  BY <1>3, <1>4, <1>5 DEF RunOK, PlacesOK, PriorOK, MineOK, ScannedOK, CopiedOK
<1> QED
  BY <1>1, <1>6, StepOfRun DEF SharedStep

\* The run is refused the lease before it copied anything.
LEMMA RefuseOK ==
    ASSUME IInv, NEW r \in Runs, Refuse(r), SharedStep
    PROVE  IInv' /\ Grows
<1> DEFINE c == [run[r] EXCEPT !.pc = "done", !.outcome = "refused"]
<1>1. run' = [run EXCEPT ![r] = c]
  BY DEF Refuse, IInv, RunsOK
<1>2. run[r] \in Run
  BY DEF IInv, RunsOK
<1>3. /\ c \in Run
      /\ c.pc = "done" /\ c.why = run[r].why /\ c.outcome = "refused"
      /\ c.mine = run[r].mine /\ c.wrote = run[r].wrote /\ c.verified = run[r].verified
      /\ c.at = run[r].at
  BY <1>2 DEF Run
<1> HIDE DEF c
<1>5. RunOK(r, run[r], now, source[r], target)
  BY DEF IInv, RunsOK
<1>6. RunOK(r, c, now, source[r], target)
  BY <1>3, <1>5 DEF RunOK, PlacesOK, PriorOK, MineOK, ScannedOK, CopiedOK
<1> QED
  BY <1>1, <1>6, StepOfRun DEF SharedStep

\* The lease is lost, or its release fails.
LEMMA LoseLeaseOK ==
    ASSUME IInv, NEW r \in Runs, NEW outcome \in {"lost", "failed"},
           LoseLease(r, outcome), SharedStep, run[r].pc \in {"doc", "reread", "relock"}
    PROVE  IInv' /\ Grows
<1>1. run[r] \in Run /\ RunOK(r, run[r], now, source[r], target)
  BY DEF IInv, RunsOK
<1>2. run[r].mine.owner = r
  BY <1>1 DEF RunOK, MineOK
<1>3. CASE run[r].why = "release"
  <2> DEFINE c == [run[r] EXCEPT !.pc = "unlock"]
  <2>1. run' = [run EXCEPT ![r] = c]
    BY <1>3 DEF LoseLease, IInv, RunsOK
  <2>2. /\ c \in Run
        /\ c.pc = "unlock" /\ c.why = run[r].why /\ c.outcome = run[r].outcome
        /\ c.mine = run[r].mine /\ c.wrote = run[r].wrote /\ c.verified = run[r].verified
        /\ c.at = run[r].at
    BY <1>1 DEF Run
  <2> HIDE DEF c
  <2>3. RunOK(r, c, now, source[r], target)
    BY <1>1, <2>2 DEF RunOK, PlacesOK, PriorOK, MineOK, ScannedOK, CopiedOK
  <2> QED
    BY <2>1, <2>3, StepOfRun DEF SharedStep
<1>4. CASE run[r].why # "release"
  <2>1. EndWith(r, "refused") \/ EndWith(r, outcome)
    BY <1>4 DEF LoseLease
  <2> QED
    BY <1>2, <2>1, EndWithOK
<1> QED
  BY <1>3, <1>4

\* What lock(), unlock() and renew() leave is well typed.
LEMMA LocksOK ==
    ASSUME IInv, NEW r \in Runs
    PROVE  /\ LockControl(r) => fence' \in Lease /\ entry' \in [Registries -> Lease]
           /\ UnlockControl(r) => entry' \in [Registries -> Lease]
           /\ Renew(r) => fence' \in Lease /\ entry' \in [Registries -> Lease]
           /\ [fence |-> fence.fence + 1, expiry |-> now + TTL] \in Lease
<1>1. fence \in Lease /\ entry \in [Registries -> Lease] /\ now + TTL \in Nat
  BY TimesAssumption DEF IInv, SharedOK
<1>2. RegistryOf[r] \in Registries
  BY DEF Registries
<1>3. NoLease \in Lease
  BY DEF NoLease, Lease
<1>4. [fence |-> fence.fence + 1, expiry |-> now + TTL] \in Lease
  BY <1>1 DEF Lease
<1>5. LockControl(r) => fence' \in Lease /\ entry' \in [Registries -> Lease]
  BY <1>1, <1>2, <1>4 DEF LockControl
<1>6. UnlockControl(r) => entry' \in [Registries -> Lease]
  BY <1>1, <1>2, <1>3 DEF UnlockControl
<1>7. [fence EXCEPT !.expiry = now + TTL] \in Lease
  BY <1>1 DEF Lease
<1>8. [entry EXCEPT ![RegistryOf[r]].expiry = now + TTL] \in [Registries -> Lease]
  BY <1>1, <1>2 DEF Lease
<1>9. Renew(r) => fence' \in Lease /\ entry' \in [Registries -> Lease]
  BY <1>1, <1>7, <1>8 DEF Renew
<1> QED
  BY <1>4, <1>5, <1>6, <1>9

\* What a run writes is a document of its own.
LEMMA DocOfOK ==
    ASSUME NEW r \in Runs, NEW status \in {"held", "released"}, NEW stamp \in Nat
    PROVE  /\ DocOf(r, status, stamp) \in Doc
           /\ DocOf(r, status, stamp).owner = r
           /\ DocOf(r, status, stamp).status = status
BY TimesAssumption DEF DocOf, Doc

-----------------------------------------------------------------------------
(* The steps.                                                              *)

\* Acquiring the lease.
LEMMA AcquireSteps ==
    ASSUME IInv, NEW r \in Runs,
           ReadControl(r) \/ TakeLock(r) \/ AcquireRaises(r)
           \/ Record(r) \/ RecordRefused(r) \/ RecordRaises(r)
    PROVE  IInv' /\ Grows
<1>0. /\ run[r] \in Run /\ RunOK(r, run[r], now, source[r], target)
      /\ doc \in Doc /\ fence \in Lease /\ entry \in [Registries -> Lease] /\ now \in Nat
      /\ faults \in 0..MaxFaults
  BY DEF IInv, SharedOK, RunsOK
<1>raise. Raises => faults' \in 0..MaxFaults
  BY <1>0, BoundsAssumption DEF Raises
<1>1. CASE ReadControl(r)
  <2>1. SharedStep
    BY <1>0, <1>1 DEF ReadControl, SharedStep, store
  <2>2. CASE Refuse(r)
    BY <2>1, <2>2, RefuseOK
  <2>3. CASE ~Refuse(r)
    <3> DEFINE c == [run[r] EXCEPT !.pc = "lock", !.prior = doc]
    <3>1. /\ run[r].pc = "start" /\ run' = [run EXCEPT ![r] = c]
          /\ doc.status # "data" /\ ~(doc.status = "held" /\ doc.expires > now)
      BY <1>1, <2>3 DEF ReadControl, At, IInv, RunsOK
    <3>2. /\ c \in Run /\ c.pc = "lock" /\ c.prior = doc
          /\ c.why = run[r].why /\ c.outcome = run[r].outcome
          /\ c.mine = run[r].mine /\ c.wrote = run[r].wrote /\ c.verified = run[r].verified
          /\ c.at = run[r].at
      BY <1>0 DEF Run
    <3> HIDE DEF c
    <3>3. doc.expires \in Nat
      BY <1>0 DEF Doc
    <3>4. RunOK(r, c, now, source[r], target)
      BY <1>0, <3>1, <3>2, <3>3 DEF RunOK, PlacesOK, PriorOK, MineOK, ScannedOK, CopiedOK
    <3> QED
      BY <2>1, <3>1, <3>4, StepOfRun DEF SharedStep
  <2> QED
    BY <2>2, <2>3
<1>2. CASE TakeLock(r)
  <2>1. SharedStep
    BY <1>0, <1>2, LocksOK DEF TakeLock, SharedStep, store
  <2>2. CASE Refuse(r)
    BY <2>1, <2>2, RefuseOK
  <2>3. CASE ~Refuse(r)
    <3> DEFINE c == [run[r] EXCEPT !.pc = "record", !.lease = fence.fence + 1, !.stamp = now]
    <3>1. run[r].pc = "lock" /\ run' = [run EXCEPT ![r] = c]
      BY <1>2, <2>3 DEF TakeLock, At, IInv, RunsOK
    <3>2. fence.fence + 1 \in Nat
      BY <1>0 DEF Lease
    <3>3. /\ c \in Run /\ c.pc = "record" /\ c.prior = run[r].prior
          /\ c.why = run[r].why /\ c.outcome = run[r].outcome
          /\ c.mine = run[r].mine /\ c.wrote = run[r].wrote /\ c.verified = run[r].verified
          /\ c.at = run[r].at
      BY <1>0, <3>2 DEF Run
    <3> HIDE DEF c
    <3>4. RunOK(r, c, now, source[r], target)
      BY <1>0, <3>1, <3>3 DEF RunOK, PlacesOK, PriorOK, MineOK, ScannedOK, CopiedOK
    <3> QED
      BY <2>1, <3>1, <3>4, StepOfRun DEF SharedStep
  <2> QED
    BY <2>2, <2>3
<1>3. CASE AcquireRaises(r)
  <2>1. SharedStep /\ Refuse(r)
    BY <1>0, <1>3, <1>raise, LocksOK DEF AcquireRaises, SharedStep, store
  <2> QED
    BY <2>1, RefuseOK
<1>held. /\ DocOf(r, "held", run[r].stamp) \in Doc
         /\ DocOf(r, "held", run[r].stamp).owner = r
         /\ DocOf(r, "held", run[r].stamp).status = "held"
  BY <1>0, DocOfOK DEF Run
<1>4. CASE Record(r)
  <2> DEFINE written == DocOf(r, "held", run[r].stamp)
             why == IF run[r].prior.status = "absent" THEN "create" ELSE "takeover"
             c == [run[r] EXCEPT !.pc = "answer", !.mine = written, !.why = why]
  <2>1. run[r].pc = "record" /\ run' = [run EXCEPT ![r] = c] /\ doc' = written
    BY <1>4 DEF Record, At, IInv, RunsOK
  <2>2. SharedStep
    BY <1>0, <1>4, <1>held, <2>1 DEF Record, SharedStep, store
  <2> HIDE DEF written
  <2>3. why \in {"create", "takeover"} /\ written \in Doc
    BY <1>held DEF written
  <2> HIDE DEF why
  <2>4. /\ c \in Run /\ c.pc = "answer" /\ c.mine = written
        /\ c.why = why /\ c.outcome = run[r].outcome
        /\ c.wrote = run[r].wrote /\ c.verified = run[r].verified /\ c.at = run[r].at
    BY <1>0, <2>3 DEF Run
  <2> HIDE DEF c
  <2>5. MineOK(r, c) /\ PlacesOK(c) /\ PriorOK(c, now)
    BY <1>held, <2>4 DEF written, MineOK, PlacesOK, PriorOK
  <2>6. run[r].why = "create"
    BY <1>0, <2>1 DEF RunOK, PlacesOK
  <2>7. ScannedOK(c, source[r]) /\ CopiedOK(c, source[r], target)
    BY <1>0, <2>3, <2>4, <2>6 DEF RunOK, ScannedOK, CopiedOK
  <2> QED
    BY <2>1, <2>2, <2>4, <2>5, <2>7, StepOfRun DEF RunOK, SharedStep
<1>5. CASE RecordRefused(r)
  <2>1. SharedStep /\ Refuse(r)
    BY <1>0, <1>5, LocksOK DEF RecordRefused, SharedStep, store
  <2> QED
    BY <2>1, RefuseOK
<1>6. CASE RecordRaises(r)
  <2>1. SharedStep /\ Refuse(r)
    BY <1>0, <1>6, <1>held, <1>raise, LocksOK DEF RecordRaises, SharedStep, store
  <2> QED
    BY <2>1, RefuseOK
<1> QED
  BY <1>1, <1>2, <1>3, <1>4, <1>5, <1>6

\* The run has the document and the keys it had.
SameWork(c, d) ==
    /\ d.why = c.why /\ d.outcome = c.outcome /\ d.mine = c.mine /\ d.wrote = c.wrote
    /\ d.verified = c.verified /\ d.at = c.at

\* The run goes on at another place, with nothing of what it copied or owns changed.
LEMMA MovesOK ==
    ASSUME IInv, NEW r \in Runs, NEW c \in Run, run' = [run EXCEPT ![r] = c], SharedStep,
           PlacesOK(c), c.pc \notin {"lock", "record"}, SameWork(run[r], c), run[r].mine.owner = r
    PROVE  IInv' /\ Grows
<1>1. RunOK(r, run[r], now, source[r], target)
  BY DEF IInv, RunsOK
<1>2. MineOK(r, c) /\ PriorOK(c, now)
  BY <1>1 DEF RunOK, MineOK, PriorOK, SameWork
<1>3. ScannedOK(c, source[r]) /\ CopiedOK(c, source[r], target)
  BY <1>1 DEF RunOK, ScannedOK, CopiedOK, SameWork
<1>4. RunOK(r, c, now, source[r], target)
  BY <1>2, <1>3 DEF RunOK
<1> QED
  BY <1>4, StepOfRun DEF SharedStep

\* The answer to the write of the document.
LEMMA AnswerStep ==
    ASSUME IInv, NEW r \in Runs, Answer(r)
    PROVE  IInv' /\ Grows
<1>0. /\ run[r] \in Run /\ RunOK(r, run[r], now, source[r], target) /\ now \in Nat
      /\ run[r].pc = "answer" /\ run[r].mine.owner = r
  BY DEF IInv, SharedOK, RunsOK, RunOK, MineOK, Answer, At
<1>1. SharedStep
  BY DEF Answer, SharedStep, store, IInv, SharedOK
<1>slow. (run[r].slow \/ TooSlow(r)) \in BOOLEAN
  BY <1>0 DEF Run
<1>2. CASE run[r].why = "create"
  <2> DEFINE c == [run[r] EXCEPT !.pc = "doc", !.why = "confirm", !.stamp = now, !.last = now]
  <2>1. run' = [run EXCEPT ![r] = c]
    BY <1>2 DEF Answer, IInv, RunsOK
  <2>2. /\ c \in Run /\ c.pc = "doc" /\ c.why = "confirm" /\ c.outcome = run[r].outcome
        /\ c.mine = run[r].mine /\ c.wrote = run[r].wrote /\ c.verified = run[r].verified
        /\ c.at = run[r].at
    BY <1>0 DEF Run
  <2> HIDE DEF c
  <2>3. RunOK(r, c, now, source[r], target)
    BY <1>0, <1>2, <2>2 DEF RunOK, PlacesOK, PriorOK, MineOK, ScannedOK, CopiedOK
  <2> QED
    BY <1>1, <2>1, <2>3, StepOfRun DEF SharedStep
<1>3. CASE run[r].why \in {"takeover", "confirm"}
  <2> DEFINE c == IF run[r].why = "takeover"
                  THEN [run[r] EXCEPT !.pc = "beat", !.why = "scan", !.last = now,
                                      !.slow = @ \/ TooSlow(r)]
                  ELSE [run[r] EXCEPT !.pc = "beat", !.why = "scan"]
  <2>1. run' = [run EXCEPT ![r] = c]
    BY <1>3 DEF Answer, IInv, RunsOK
  <2>2. /\ c \in Run /\ c.pc = "beat" /\ c.why = "scan" /\ c.outcome = run[r].outcome
        /\ c.mine = run[r].mine /\ c.wrote = run[r].wrote /\ c.verified = run[r].verified
        /\ c.at = run[r].at
    BY <1>0, <1>slow DEF Run
  <2> HIDE DEF c
  <2>3. RunOK(r, c, now, source[r], target)
    BY <1>0, <1>3, <2>2 DEF RunOK, PlacesOK, PriorOK, MineOK, ScannedOK, CopiedOK, Keys
  <2> QED
    BY <1>1, <2>1, <2>3, StepOfRun DEF SharedStep
<1>4. CASE run[r].why \in {"scan", "put", "ownership"}
  <2> DEFINE c == [run[r] EXCEPT !.pc = run[r].why, !.last = now, !.slow = @ \/ TooSlow(r)]
  <2>1. run' = [run EXCEPT ![r] = c]
    BY <1>4 DEF Answer, IInv, RunsOK
  <2>2. /\ c \in Run /\ c.pc = run[r].why /\ SameWork(run[r], c) /\ c.why = run[r].why
    BY <1>0, <1>4, <1>slow DEF Run, SameWork
  <2> HIDE DEF c
  <2>3. PlacesOK(c)
    BY <1>4, <2>2 DEF PlacesOK
  <2> QED
    BY <1>0, <1>1, <1>4, <2>1, <2>2, <2>3, MovesOK
<1>5. CASE run[r].why = "release"
  <2> DEFINE c == [run[r] EXCEPT !.pc = "unlock"]
  <2>1. run' = [run EXCEPT ![r] = c]
    BY <1>5 DEF Answer, IInv, RunsOK
  <2>2. /\ c \in Run /\ c.pc = "unlock" /\ SameWork(run[r], c) /\ c.why = run[r].why
    BY <1>0 DEF Run, SameWork
  <2> HIDE DEF c
  <2>3. PlacesOK(c)
    BY <2>2 DEF PlacesOK
  <2> QED
    BY <1>0, <1>1, <2>1, <2>2, <2>3, MovesOK
<1> QED
  BY <1>2, <1>3, <1>4, <1>5 DEF Answer

\* Writing the document again, under a fence that may have been taken.
LEMMA DocSteps ==
    ASSUME IInv, NEW r \in Runs,
           WriteDoc(r) \/ DocRefused(r) \/ Reread(r) \/ Relock(r) \/ DocRaises(r)
    PROVE  IInv' /\ Grows
<1>0. /\ run[r] \in Run /\ RunOK(r, run[r], now, source[r], target)
      /\ doc \in Doc /\ fence \in Lease /\ entry \in [Registries -> Lease] /\ now \in Nat
      /\ faults \in 0..MaxFaults
  BY DEF IInv, SharedOK, RunsOK
<1>raise. Raises => faults' \in 0..MaxFaults
  BY <1>0, BoundsAssumption DEF Raises
<1>owner. run[r].pc \in {"doc", "reread", "relock"} => run[r].mine.owner = r
  BY <1>0 DEF RunOK, MineOK
<1>written. /\ DocOf(r, Status(r), run[r].stamp) \in Doc
            /\ DocOf(r, Status(r), run[r].stamp).owner = r
            /\ DocOf(r, Status(r), run[r].stamp).status # "data"
  <2>1. Status(r) \in {"held", "released"}
    BY DEF Status
  <2>2. run[r].stamp \in Nat
    BY <1>0 DEF Run
  <2> QED
    BY <2>1, <2>2, DocOfOK
<1>1. CASE WriteDoc(r)
  <2> DEFINE written == DocOf(r, Status(r), run[r].stamp)
             c == [run[r] EXCEPT !.pc = "answer", !.mine = written]
  <2>1. run[r].pc = "doc" /\ run' = [run EXCEPT ![r] = c] /\ doc' = written
    BY <1>1 DEF WriteDoc, At, IInv, RunsOK
  <2>2. SharedStep
    BY <1>0, <1>1, <1>written, <2>1 DEF WriteDoc, SharedStep, store
  <2> HIDE DEF written
  <2>3. written \in Doc /\ written.owner = r /\ written.status # "data"
    BY <1>written DEF written
  <2>4. /\ c \in Run /\ c.pc = "answer" /\ c.why = run[r].why /\ c.outcome = run[r].outcome
        /\ c.mine = written /\ c.wrote = run[r].wrote /\ c.verified = run[r].verified
        /\ c.at = run[r].at
    <3>1. run[r] \in Run /\ written \in Doc
      BY <1>0, <2>3
    <3> QED
      BY <3>1 DEF Run
  <2> HIDE DEF c
  <2>5. RunOK(r, c, now, source[r], target)
    BY <1>0, <2>1, <2>3, <2>4 DEF RunOK, PlacesOK, PriorOK, MineOK, ScannedOK, CopiedOK
  <2> QED
    BY <2>1, <2>2, <2>5, StepOfRun DEF SharedStep
<1>2. CASE DocRefused(r)
  <2>1. SharedStep /\ run[r].pc = "doc"
    BY <1>0, <1>2 DEF DocRefused, At, SharedStep, store
  <2>2. CASE LoseLease(r, "lost")
    BY <2>1, <2>2, LoseLeaseOK
  <2>3. CASE ~LoseLease(r, "lost")
    <3> DEFINE c == [run[r] EXCEPT !.pc = "reread"]
    <3>1. run' = [run EXCEPT ![r] = c]
      BY <1>2, <2>3 DEF DocRefused, IInv, RunsOK
    <3>2. /\ c \in Run /\ c.pc = "reread" /\ SameWork(run[r], c) /\ c.why = run[r].why
      BY <1>0 DEF Run, SameWork
    <3> HIDE DEF c
    <3>3. PlacesOK(c)
      BY <3>2 DEF PlacesOK
    <3> QED
      BY <1>owner, <2>1, <3>1, <3>2, <3>3, MovesOK
  <2> QED
    BY <2>2, <2>3
<1>3. CASE Reread(r)
  <2>1. SharedStep /\ run[r].pc = "reread"
    BY <1>0, <1>3, LocksOK DEF Reread, At, SharedStep, store
  <2>2. CASE LoseLease(r, "lost")
    BY <2>1, <2>2, LoseLeaseOK
  <2>3. CASE ~LoseLease(r, "lost")
    <3> DEFINE c == [run[r] EXCEPT !.pc = "relock"]
    <3>1. run' = [run EXCEPT ![r] = c] /\ run[r].tries < Reacquires
      BY <1>3, <2>3 DEF Reread, IInv, RunsOK
    <3>2. /\ c \in Run /\ c.pc = "relock" /\ SameWork(run[r], c) /\ c.why = run[r].why /\ c.tries = run[r].tries
      BY <1>0 DEF Run, SameWork
    <3> HIDE DEF c
    <3>3. PlacesOK(c)
      BY <3>1, <3>2 DEF PlacesOK
    <3> QED
      BY <1>owner, <2>1, <3>1, <3>2, <3>3, MovesOK
  <2> QED
    BY <2>2, <2>3
<1>4. CASE Relock(r)
  <2>1. SharedStep /\ run[r].pc = "relock"
    BY <1>0, <1>4, LocksOK DEF Relock, At, SharedStep, store
  <2>2. CASE LoseLease(r, "lost")
    BY <2>1, <2>2, LoseLeaseOK
  <2>3. CASE ~LoseLease(r, "lost")
    <3> DEFINE c == [run[r] EXCEPT !.pc = "doc", !.lease = fence.fence + 1,
                                   !.stamp = now, !.tries = @ + 1]
    <3>1. run' = [run EXCEPT ![r] = c]
      BY <1>4, <2>3 DEF Relock, IInv, RunsOK
    <3>2. fence.fence + 1 \in Nat /\ run[r].tries + 1 \in 0..Reacquires
      <4>1. run[r].tries < Reacquires /\ run[r].tries \in 0..Reacquires /\ fence.fence \in Nat
        BY <1>0, <2>1 DEF RunOK, PlacesOK, Run, Lease
      <4> QED
        BY <4>1, BoundsAssumption
    <3>3. /\ c \in Run /\ c.pc = "doc" /\ SameWork(run[r], c) /\ c.why = run[r].why
      BY <1>0, <3>2 DEF Run, SameWork
    <3> HIDE DEF c
    <3>4. PlacesOK(c)
      BY <3>3 DEF PlacesOK
    <3> QED
      BY <1>owner, <2>1, <3>1, <3>3, <3>4, MovesOK
  <2> QED
    BY <2>2, <2>3
<1>5. CASE DocRaises(r)
  <2>1. SharedStep /\ run[r].pc \in {"doc", "reread", "relock"} /\ LoseLease(r, "failed")
    <3>1. [fence |-> fence.fence + 1, expiry |-> now + TTL] \in Lease
      BY <1>0, TimesAssumption DEF Lease
    <3>2. fence' \in Lease /\ doc' \in Doc
      BY <1>0, <1>5, <1>written, <3>1 DEF DocRaises
    <3> QED
      BY <1>0, <1>5, <1>raise, <1>written, <3>2 DEF DocRaises, SharedStep, store
  <2> QED
    BY <2>1, LoseLeaseOK
<1> QED
  BY <1>1, <1>2, <1>3, <1>4, <1>5

\* The heartbeat before and after each key, and the advisory unlock at the end.
LEMMA BeatAndUnlock ==
    ASSUME IInv, NEW r \in Runs, Beat(r) \/ Unlock(r)
    PROVE  IInv' /\ Grows
<1>0. /\ run[r] \in Run /\ RunOK(r, run[r], now, source[r], target) /\ now \in Nat
      /\ doc \in Doc /\ fence \in Lease /\ entry \in [Registries -> Lease]
      /\ faults \in 0..MaxFaults
  BY DEF IInv, SharedOK, RunsOK
<1>1. CASE Beat(r)
  <2>1. SharedStep /\ run[r].pc = "beat"
    BY <1>0, <1>1, LocksOK DEF Beat, At, SharedStep, store
  <2>2. run[r].why \in {"scan", "put", "ownership"} /\ run[r].mine.owner = r
    BY <1>0, <2>1 DEF RunOK, PlacesOK, MineOK
  <2>3. CASE now - run[r].last < Interval
    <3> DEFINE c == [run[r] EXCEPT !.pc = run[r].why]
    <3>1. run' = [run EXCEPT ![r] = c]
      <4>1. ~(now - run[r].last >= Interval)
        BY <1>0, <2>3, TimesAssumption DEF Run
      <4> QED
        BY <1>1, <4>1 DEF Beat, IInv, RunsOK
    <3>2. c \in Run /\ c.pc = run[r].why /\ c.why = run[r].why /\ SameWork(run[r], c)
      BY <1>0, <2>2 DEF Run, SameWork
    <3> HIDE DEF c
    <3>3. PlacesOK(c)
      BY <2>2, <3>2 DEF PlacesOK
    <3> QED
      BY <2>1, <2>2, <3>1, <3>2, <3>3, MovesOK
  <2>4. CASE ~(now - run[r].last < Interval)
    <3> DEFINE c == [run[r] EXCEPT !.pc = "doc", !.tries = 0, !.stamp = now]
    <3>1. run' = [run EXCEPT ![r] = c]
      BY <1>1, <2>4 DEF Beat, IInv, RunsOK
    <3>2. c \in Run /\ c.pc = "doc" /\ SameWork(run[r], c)
      <4>1. run[r] \in Run /\ now \in Nat /\ 0 \in 0..Reacquires
        BY <1>0, BoundsAssumption
      <4> QED
        BY <4>1 DEF Run, SameWork
    <3> HIDE DEF c
    <3>3. PlacesOK(c)
      BY <3>2 DEF PlacesOK
    <3> QED
      BY <2>1, <2>2, <3>1, <3>2, <3>3, MovesOK
  <2> QED
    BY <2>3, <2>4
<1>2. CASE Unlock(r)
  <2> DEFINE c == [run[r] EXCEPT !.pc = "done"]
  <2>1. SharedStep
    BY <1>0, <1>2, LocksOK DEF Unlock, SharedStep, store
  <2>2. run' = [run EXCEPT ![r] = c]
    BY <1>2 DEF Unlock, IInv, RunsOK
  <2>3. c \in Run /\ c.pc = "done" /\ SameWork(run[r], c)
    BY <1>0 DEF Run, SameWork
  <2> HIDE DEF c
  <2>4. RunOK(r, c, now, source[r], target)
    BY <1>0, <2>3 DEF RunOK, PlacesOK, PriorOK, MineOK, ScannedOK, CopiedOK, SameWork
  <2> QED
    BY <2>1, <2>2, <2>4, StepOfRun DEF SharedStep
<1> QED
  BY <1>1, <1>2

\* Pass 1 goes over the keys of the source.
LEMMA ScanStep ==
    ASSUME IInv, NEW r \in Runs, Scan(r)
    PROVE  IInv' /\ Grows
<1>0. /\ run[r] \in Run /\ RunOK(r, run[r], now, source[r], target)
      /\ run[r].pc = "scan" /\ run[r].why = "scan" /\ run[r].mine.owner = r
  BY DEF IInv, RunsOK, RunOK, PlacesOK, MineOK, Scan, At
<1>1. SharedStep
  BY DEF Scan, SharedStep, store, IInv, SharedOK
<1>2. CASE Here(r) \in Secrets
  BY <1>0, <1>1, <1>2, EndWithOK DEF Scan
<1>3. CASE Here(r) \notin Secrets
  <2> DEFINE why == IF run[r].at < NKeys THEN "scan" ELSE "put"
             at == IF run[r].at < NKeys THEN run[r].at + 1 ELSE 1
             c == [run[r] EXCEPT !.pc = "beat", !.why = why, !.at = at]
  <2>1. run' = [run EXCEPT ![r] = c]
    BY <1>3 DEF Scan, IInv, RunsOK
  <2>2. why \in {"scan", "put"} /\ at \in Keys /\ run[r].at \in Keys
    BY <1>0, TimesAssumption DEF Run, Keys
  <2>3. /\ why = "scan" => run[r].at < NKeys /\ at = run[r].at + 1
        /\ why = "put" => run[r].at = NKeys /\ at = 1
    BY <2>2, TimesAssumption DEF Keys
  <2> HIDE DEF why, at
  <2>4. /\ c \in Run /\ c.pc = "beat" /\ c.why = why /\ c.at = at
        /\ c.outcome = run[r].outcome /\ c.mine = run[r].mine /\ c.wrote = run[r].wrote
        /\ c.verified = run[r].verified
    BY <1>0, <2>2 DEF Run
  <2> HIDE DEF c
  <2>5. \A k \in Keys : k <= run[r].at => source[r][k] \notin Secrets
    <3>1. \A k \in Keys : k <= run[r].at => k < run[r].at \/ k = run[r].at
      BY <2>2 DEF Keys
    <3> QED
      BY <1>0, <1>3, <3>1 DEF RunOK, ScannedOK, Here
  <2>6. ScannedOK(c, source[r])
    <3>1. why = "scan" => \A k \in Keys : k < at => k <= run[r].at
      BY <2>2, <2>3 DEF Keys
    <3>2. why = "put" => \A k \in Keys : k <= run[r].at
      BY <2>2, <2>3 DEF Keys
    <3> QED
      BY <1>0, <2>2, <2>4, <2>5, <3>1, <3>2 DEF RunOK, ScannedOK
  <2>7. CopiedOK(c, source[r], target)
    <3>1. why = "put" => \A k \in Keys : ~(k < at)
      BY <2>3 DEF Keys
    <3>2. run[r].verified = {}
      BY <1>0 DEF RunOK, CopiedOK
    <3> QED
      BY <1>0, <2>2, <2>4, <3>1, <3>2 DEF RunOK, CopiedOK
  <2>8. PlacesOK(c) /\ PriorOK(c, now) /\ MineOK(r, c)
    BY <1>0, <2>2, <2>4 DEF RunOK, PlacesOK, PriorOK, MineOK
  <2> QED
    BY <1>1, <2>1, <2>4, <2>6, <2>7, <2>8, StepOfRun DEF RunOK, SharedStep
<1> QED
  BY <1>2, <1>3

\* A key the target did not have is stored, and the target has grown.
LEMMA StoredOK ==
    ASSUME IInv, NEW r \in Runs, run[r].pc = "put", NEW label \in {"readback", "reconcile"},
           Stored(r), run' = [run EXCEPT ![r] = Counted(r, label)],
           UNCHANGED <<now, source, crashes, doc, fence, entry>>, faults' \in 0..MaxFaults
    PROVE  IInv' /\ Grows
<1> DEFINE c == Counted(r, label)
           n == IF doc.owner # r THEN 1 ELSE 0
<1>0. /\ run[r] \in Run /\ RunOK(r, run[r], now, source[r], target)
      /\ source \in [Runs -> [Keys -> Bodies]] /\ target \in [Keys -> Bodies \cup {Absent}]
  BY DEF IInv, RunsOK, SharedOK
<1>1. run[r].why = "put" /\ run[r].mine.owner = r /\ run[r].at \in Keys
  BY <1>0 DEF RunOK, PlacesOK, MineOK, Run
<1>2. Grows
  BY <1>0, <1>1 DEF Grows, Stored, Here
<1>3. target' \in [Keys -> Bodies \cup {Absent}]
  BY <1>0, <1>1 DEF Stored, Here
<1>4. SharedOK' /\ now <= now'
  BY <1>3 DEF IInv, SharedOK
<1>5. n \in Nat
  OBVIOUS
<1>6. c = [run[r] EXCEPT !.pc = label, !.wrote = @ \cup {run[r].at}, !.late = @ + n]
  BY DEF Counted
<1> HIDE DEF n
<1>7. run[r].wrote \cup {run[r].at} \in SUBSET Keys /\ run[r].late + n \in Nat
  BY <1>0, <1>1, <1>5 DEF Run
<1>8. /\ c \in Run /\ c.pc = label /\ c.why = "put" /\ c.outcome = run[r].outcome
      /\ c.mine = run[r].mine /\ c.verified = run[r].verified /\ c.at = run[r].at
  <2>1. run[r] \in Run
    BY <1>0
  <2> HIDE DEF c
  <2> QED
    BY <1>1, <1>6, <1>7, <2>1 DEF Run
<1>9. run' = [run EXCEPT ![r] = c]
  OBVIOUS
<1> HIDE DEF c
<1>10. RunOK(r, c, now, source[r], target)
  BY <1>0, <1>1, <1>8 DEF RunOK, PlacesOK, PriorOK, MineOK, ScannedOK, CopiedOK
<1>11. RunOK(r, c, now', source'[r], target')
  <2>1. source[r] \in [Keys -> Bodies] /\ now \in Int /\ now' = now /\ source' = source
    BY <1>0 DEF IInv, SharedOK
  <2> QED
    BY <1>2, <1>10, <2>1, RunKept DEF Grows
<1> QED
  BY <1>2, <1>4, <1>9, <1>11, StepKeepsRuns

\* Pass 2 stores, reconciles and reads back one key.
LEMMA CopySteps ==
    ASSUME IInv, NEW r \in Runs,
           Put(r) \/ PutRaises(r) \/ Reconcile(r) \/ ReadBack(r)
    PROVE  IInv' /\ Grows
<1>0. /\ run[r] \in Run /\ RunOK(r, run[r], now, source[r], target)
      /\ doc \in Doc /\ fence \in Lease /\ entry \in [Registries -> Lease]
      /\ faults \in 0..MaxFaults /\ source \in [Runs -> [Keys -> Bodies]]
  BY DEF IInv, SharedOK, RunsOK
<1>1. run[r].pc \in {"put", "reconcile", "readback"}
  BY DEF Put, PutRaises, Reconcile, ReadBack, At
<1>2. run[r].why = "put" /\ run[r].mine.owner = r /\ run[r].at \in Keys
  BY <1>0, <1>1 DEF RunOK, PlacesOK, MineOK, Run
<1>raise. Raises => faults' \in 0..MaxFaults
  BY <1>0, BoundsAssumption DEF Raises
\* The run goes on with the same key.
<1>3. ASSUME SharedStep, NEW label \in {"readback", "reconcile"}, run' = [run EXCEPT ![r].pc = label]
      PROVE  IInv' /\ Grows
  <2> DEFINE c == [run[r] EXCEPT !.pc = label]
  <2>1. run' = [run EXCEPT ![r] = c]
    BY <1>3 DEF IInv, RunsOK
  <2>2. c \in Run /\ c.pc = label /\ c.why = "put" /\ SameWork(run[r], c)
    BY <1>0, <1>2 DEF Run, SameWork
  <2> HIDE DEF c
  <2>3. PlacesOK(c)
    BY <2>2 DEF PlacesOK
  <2> QED
    BY <1>2, <1>3, <2>1, <2>2, <2>3, MovesOK
\* The run is aborted.
<1>4. ASSUME SharedStep, EndWith(r, "failed")
      PROVE  IInv' /\ Grows
  BY <1>2, <1>4, EndWithOK
<1>5. CASE Put(r)
  <2>1. CASE Stored(r) /\ run' = [run EXCEPT ![r] = Counted(r, "readback")]
    <3>1. /\ run[r].pc = "put" /\ faults' \in 0..MaxFaults
          /\ UNCHANGED <<now, source, crashes, doc, fence, entry>>
      BY <1>0, <1>5 DEF Put, At, store
    <3> QED
      BY <2>1, <3>1, StoredOK
  <2>2. CASE run' = [run EXCEPT ![r].pc = "readback"] /\ UNCHANGED target
    BY <1>0, <1>3, <1>5, <2>2 DEF Put, store, SharedStep
  <2>3. CASE EndWith(r, "failed") /\ UNCHANGED target
    BY <1>0, <1>4, <1>5, <2>3 DEF Put, store, SharedStep
  <2> QED
    BY <1>5, <2>1, <2>2, <2>3 DEF Put
<1>6. CASE PutRaises(r)
  <2>1. CASE Stored(r) /\ run' = [run EXCEPT ![r] = Counted(r, "reconcile")]
    <3>1. /\ run[r].pc = "put" /\ faults' \in 0..MaxFaults
          /\ UNCHANGED <<now, source, crashes, doc, fence, entry>>
      BY <1>raise, <1>6 DEF PutRaises, At, store
    <3> QED
      BY <2>1, <3>1, StoredOK
  <2>2. CASE run' = [run EXCEPT ![r].pc = "reconcile"] /\ UNCHANGED target
    BY <1>0, <1>raise, <1>3, <1>6, <2>2 DEF PutRaises, store, SharedStep
  <2> QED
    BY <1>6, <2>1, <2>2 DEF PutRaises
<1>7. CASE Reconcile(r)
  <2>1. SharedStep
    BY <1>0, <1>7 DEF Reconcile, store, SharedStep
  <2> QED
    BY <1>3, <1>4, <1>7, <2>1 DEF Reconcile
<1>8. CASE ReadBack(r)
  <2>1. SharedStep
    BY <1>0, <1>8 DEF ReadBack, store, SharedStep
  <2>2. CASE target[run[r].at] # Here(r)
    BY <1>4, <1>8, <2>1, <2>2 DEF ReadBack
  <2>3. CASE target[run[r].at] = Here(r)
    <3> DEFINE why == IF run[r].at < NKeys THEN "put" ELSE "ownership"
               at == IF run[r].at < NKeys THEN run[r].at + 1 ELSE run[r].at
               seen == run[r].verified \cup {run[r].at}
               c == [Verified(r) EXCEPT !.why = why, !.at = at]
    <3>1. run' = [run EXCEPT ![r] = c]
      <4>1. run[r].at = Verified(r).at
        BY <1>0 DEF Verified, Run
      <4> QED
        BY <1>8, <2>3, <4>1 DEF ReadBack
    <3>2. why \in {"put", "ownership"} /\ at \in Keys /\ seen \in SUBSET Keys
      BY <1>0, <1>2, TimesAssumption DEF Keys, Run
    <3>3. /\ why = "put" => run[r].at < NKeys /\ at = run[r].at + 1
          /\ why = "ownership" => run[r].at = NKeys /\ at = run[r].at
      BY <1>2, TimesAssumption DEF Keys
    <3>4. c = [run[r] EXCEPT !.pc = "beat", !.verified = seen, !.why = why, !.at = at]
      BY DEF Verified
    <3>5. \A k \in seen : target[k] = source[r][k] /\ k <= run[r].at
      BY <1>0, <1>2, <2>3 DEF RunOK, CopiedOK, Here, Keys
    <3>6. \A k \in Keys : k <= run[r].at => k \in seen
      <4>1. \A k \in Keys : k <= run[r].at => k < run[r].at \/ k = run[r].at
        BY <1>2 DEF Keys
      <4> QED
        BY <1>0, <1>2, <4>1 DEF RunOK, CopiedOK
    <3>7. /\ why = "put" => \A k \in Keys : k < at => k \in seen
          /\ why = "ownership" => seen = Keys
          /\ \A k \in seen : k <= at
      BY <1>2, <3>2, <3>3, <3>5, <3>6, TimesAssumption DEF Keys
    <3> HIDE DEF why, at, seen, c
    <3>8. /\ c \in Run /\ c.pc = "beat" /\ c.why = why /\ c.at = at /\ c.verified = seen
          /\ c.outcome = run[r].outcome /\ c.mine = run[r].mine /\ c.wrote = run[r].wrote
      <4>1. run[r] \in Run
        BY <1>0
      <4> QED
        BY <3>2, <3>4, <4>1 DEF Run
    <3>9. PlacesOK(c) /\ PriorOK(c, now) /\ MineOK(r, c) /\ ScannedOK(c, source[r])
      BY <1>0, <1>2, <3>2, <3>8 DEF RunOK, PlacesOK, PriorOK, MineOK, ScannedOK
    <3>10. c.outcome = "success" => c.verified = Keys
      <4>1. run[r].outcome = "success" => run[r].verified = Keys
        BY <1>0 DEF RunOK, CopiedOK
      <4> QED
        BY <1>2, <3>2, <3>8, <4>1 DEF seen
    <3>11. CopiedOK(c, source[r], target)
      BY <3>2, <3>5, <3>7, <3>8, <3>10 DEF CopiedOK
    <3> QED
      BY <2>1, <3>1, <3>8, <3>9, <3>11, StepOfRun DEF RunOK, SharedStep
  <2> QED
    BY <2>2, <2>3
<1> QED
  BY <1>5, <1>6, <1>7, <1>8

\* The last check, and calls of a pass that raise.
LEMMA EndSteps ==
    ASSUME IInv, NEW r \in Runs, VerifyOwnership(r) \/ PassRaises(r)
    PROVE  IInv' /\ Grows
<1>0. /\ RunOK(r, run[r], now, source[r], target)
      /\ doc \in Doc /\ fence \in Lease /\ entry \in [Registries -> Lease]
      /\ faults \in 0..MaxFaults
  BY DEF IInv, SharedOK, RunsOK
<1>1. run[r].pc \in {"scan", "put", "reconcile", "readback", "ownership"}
  BY DEF VerifyOwnership, PassRaises, At
<1>2. run[r].mine.owner = r
  BY <1>0, <1>1 DEF RunOK, PlacesOK, MineOK
<1>3. SharedStep
  BY <1>0, BoundsAssumption DEF VerifyOwnership, PassRaises, Raises, store, SharedStep
<1>4. CASE VerifyOwnership(r)
  <2>1. run[r].verified = Keys
    BY <1>0, <1>4 DEF VerifyOwnership, At, RunOK, PlacesOK, CopiedOK
  <2>2. EndWith(r, "success") \/ EndWith(r, "lost")
    BY <1>4 DEF VerifyOwnership
  <2> QED
    BY <1>2, <1>3, <2>1, <2>2, EndWithOK
<1>5. CASE PassRaises(r)
  BY <1>2, <1>3, <1>5, EndWithOK DEF PassRaises
<1> QED
  BY <1>4, <1>5

\* The death of a process, and the clock.
LEMMA CrashAndTick ==
    ASSUME IInv, Tick \/ \E p \in Registries : Crash(p)
    PROVE  IInv' /\ Grows
<1>0. /\ run \in [Runs -> Run] /\ entry \in [Registries -> Lease]
      /\ \A r \in Runs : RunOK(r, run[r], now, source[r], target)
      /\ source \in [Runs -> [Keys -> Bodies]] /\ now \in 0..MaxTime /\ crashes \in 0..MaxCrashes
  BY DEF IInv, SharedOK, RunsOK
<1>1. CASE Tick
  <2>1. now' = now + 1 /\ now < MaxTime /\ UNCHANGED <<doc, fence, entry, source, target, run, faults, crashes>>
    BY <1>1 DEF Tick
  <2>2. now \in Int /\ now' \in Int /\ now <= now' /\ now' \in 0..MaxTime
    BY <1>0, <2>1, BoundsAssumption
  <2>3. SharedOK' /\ Grows
    BY <2>1, <2>2 DEF IInv, SharedOK, Grows
  <2>4. ASSUME NEW r \in Runs PROVE RunOK(r, run[r], now', source[r], target)
    <3>1. source[r] \in [Keys -> Bodies] /\ RunOK(r, run[r], now, source[r], target)
      BY <1>0
    <3> QED
      BY <2>2, <3>1, RunKept
  <2> QED
    BY <1>0, <2>1, <2>3, <2>4 DEF IInv, RunsOK
<1>2. ASSUME NEW p \in Registries, Crash(p)
      PROVE  IInv' /\ Grows
  <2>1. /\ UNCHANGED <<now, doc, fence, source, target, faults>>
        /\ crashes < MaxCrashes /\ crashes' = crashes + 1
        /\ entry' = [entry EXCEPT ![p] = NoLease]
        /\ run' = [r \in Runs |-> IF RegistryOf[r] = p /\ run[r].pc # "done"
                                  THEN [run[r] EXCEPT !.pc = "dead"] ELSE run[r]]
    BY <1>2 DEF Crash
  <2>2. crashes' \in 0..MaxCrashes
    BY <1>0, <2>1, BoundsAssumption
  <2>3. entry' \in [Registries -> Lease]
    <3>1. NoLease \in Lease
      BY DEF NoLease, Lease
    <3> QED
      BY <1>0, <2>1, <3>1
  <2>4. SharedOK' /\ Grows
    BY <2>1, <2>2, <2>3 DEF IInv, SharedOK, Grows
  <2>5. ASSUME NEW r \in Runs PROVE RunOK(r, run'[r], now, source[r], target)
    <3>1. CASE run'[r] = run[r]
      BY <1>0, <3>1
    <3>2. CASE run'[r] # run[r]
      <4> DEFINE c == [run[r] EXCEPT !.pc = "dead"]
      <4>1. run'[r] = c
        BY <2>1, <3>2
      <4>2. c \in Run /\ c.pc = "dead" /\ SameWork(run[r], c)
        <5>1. run[r] \in Run
          BY <1>0
        <5> QED
          BY <5>1 DEF Run, SameWork
      <4> HIDE DEF c
      <4>3. RunOK(r, c, now, source[r], target)
        BY <1>0, <4>2 DEF RunOK, PlacesOK, PriorOK, MineOK, ScannedOK, CopiedOK, SameWork
      <4> QED
        BY <4>1, <4>3
    <3> QED
      BY <3>1, <3>2
  <2>6. run' \in [Runs -> Run]
    BY <2>1, <2>5 DEF RunOK
  <2> QED
    BY <2>1, <2>4, <2>5, <2>6 DEF IInv, RunsOK
<1> QED
  BY <1>1, <1>2

\* Every step keeps the invariant and the target.
LEMMA NextIInv == ASSUME IInv, [Next]_vars PROVE IInv' /\ Grows
<1>1. CASE UNCHANGED vars
  <2>1. UNCHANGED <<now, doc, fence, entry, source, target, run, faults, crashes>>
    BY <1>1 DEF vars
  <2> QED
    BY <2>1 DEF IInv, SharedOK, RunsOK, Grows
<1>2. CASE Next
  <2>1. ASSUME NEW r \in Runs, Step(r) \/ Fails(r) PROVE IInv' /\ Grows
    BY <2>1, AcquireSteps, AnswerStep, DocSteps, BeatAndUnlock, ScanStep, CopySteps, EndSteps
       DEF Step, Fails
  <2> QED
    BY <1>2, <2>1, CrashAndTick DEF Next
<1> QED
  BY <1>1, <1>2

-----------------------------------------------------------------------------
(* The theorems.                                                           *)

\* Every run is, at every place, as RunOK says.
THEOREM InductiveInvariant == Spec => []IInv
<1>1. Init => IInv
  BY InitIInv
<1>2. IInv /\ [Next]_vars => IInv'
  BY NextIInv
<1> QED
  BY <1>1, <1>2, PTL DEF Spec

\* Every reachable state is well typed.
THEOREM TypeCorrect == Spec => []TypeOK
<1> QED
  BY InvTypeOK, InductiveInvariant, PTL

\* The cutover signal is given only for a target that holds every key of the
\* source, whatever other runs with other sources, crashes and failed calls did.
THEOREM CutoverIsComplete == Spec => []CutoverMeansComplete
<1>1. IInv => CutoverMeansComplete
  <2> SUFFICES ASSUME IInv, NEW r \in Runs, run[r].outcome = "success"
               PROVE  target = source[r]
    BY DEF CutoverMeansComplete
  <2>1. \A k \in Keys : target[k] = source[r][k]
    BY DEF IInv, RunsOK, RunOK, CopiedOK
  <2>2. target \in [Keys -> Bodies \cup {Absent}] /\ source[r] \in [Keys -> Bodies]
    BY DEF IInv, SharedOK
  <2> QED
    BY <2>1, <2>2
<1> QED
  BY <1>1, InductiveInvariant, PTL

\* Nothing is uploaded from a source that holds a secret anywhere.
THEOREM SecretsStay == Spec => []ScanBeforeUpload
<1>1. IInv => ScanBeforeUpload
  BY DEF IInv, RunsOK, RunOK, ScannedOK, ScanBeforeUpload
<1> QED
  BY <1>1, InductiveInvariant, PTL

\* No run ever replaces or removes a key of the target.
THEOREM TargetIsCreateOnly == Spec => TargetOnlyGrows
<1>1. IInv /\ [Next]_vars => [\A k \in Keys : target[k] # Absent => target'[k] = target[k]]_vars
  BY NextIInv DEF Grows
<1> QED
  BY <1>1, InductiveInvariant, PTL DEF Spec, TargetOnlyGrows

\* Success is told by the last check only.
LEMMA SuccessIsChecked ==
    ASSUME IInv, Next, NEW r \in Runs,
           run[r].outcome # "success", run'[r].outcome = "success"
    PROVE  VerifyOwnership(r) /\ doc = run[r].mine
<1>0. run \in [Runs -> Run]
  BY DEF IInv, RunsOK
<1>1. ASSUME NEW q \in Runs, Step(q) \/ Fails(q), q # r
      PROVE  run'[r] = run[r]
  BY <1>0, <1>1
     DEF Step, Fails, Refuse, EndWith, LoseLease, ReadControl, TakeLock, AcquireRaises, Record,
         RecordRefused, RecordRaises, Answer, WriteDoc, DocRefused, Reread, Relock, DocRaises,
         Beat, Scan, Put, PutRaises, Reconcile, ReadBack, VerifyOwnership, PassRaises, Unlock
<1>2. ASSUME Step(r) \/ Fails(r)
      PROVE  VerifyOwnership(r) /\ doc = run[r].mine
  <2>1. ASSUME NEW outcome \in {"refused", "lost", "failed"}, EndWith(r, outcome) PROVE FALSE
    BY <1>0, <2>1 DEF EndWith, Run
  <2>2. ASSUME Refuse(r) PROVE FALSE
    BY <1>0, <2>2 DEF Refuse, Run
  <2>3. ASSUME NEW outcome \in {"lost", "failed"}, LoseLease(r, outcome) PROVE FALSE
    <3>1. EndWith(r, "refused") \/ EndWith(r, outcome) \/ run' = [run EXCEPT ![r].pc = "unlock"]
      BY <2>3 DEF LoseLease
    <3> QED
      BY <1>0, <2>1, <3>1 DEF Run
  <2>4. CASE ReadControl(r) \/ TakeLock(r) \/ AcquireRaises(r) \/ Record(r) \/ RecordRefused(r)
             \/ RecordRaises(r)
    BY <1>0, <2>2, <2>4 DEF ReadControl, TakeLock, AcquireRaises, Record, RecordRefused,
                            RecordRaises, Run
  <2>5. CASE Answer(r) \/ WriteDoc(r) \/ DocRefused(r) \/ Reread(r) \/ Relock(r) \/ DocRaises(r)
    BY <1>0, <2>3, <2>5 DEF Answer, WriteDoc, DocRefused, Reread, Relock, DocRaises, Run
  <2>6. CASE Beat(r) \/ Scan(r) \/ Unlock(r)
    BY <1>0, <2>1, <2>6 DEF Beat, Scan, Unlock, Run
  <2>7. CASE Put(r) \/ PutRaises(r) \/ Reconcile(r) \/ ReadBack(r)
    <3>1. run[r] \in Run
      BY <1>0
    <3>2. \A p : Counted(r, p).outcome = run[r].outcome
      BY <3>1 DEF Counted, Run
    <3>3. Verified(r).outcome = run[r].outcome
      BY <3>1 DEF Verified, Run
    <3> DEFINE next == [Verified(r) EXCEPT
                          !.why = IF run[r].at < NKeys THEN "put" ELSE "ownership",
                          !.at = IF run[r].at < NKeys THEN @ + 1 ELSE @]
    <3>4. next.outcome = run[r].outcome
      BY <3>1, <3>3 DEF Verified, Run
    <3>5. CASE Put(r) \/ PutRaises(r) \/ Reconcile(r)
      BY <1>0, <2>1, <3>2, <3>5 DEF Put, PutRaises, Reconcile, Run
    <3>6. CASE ReadBack(r)
      <4>1. EndWith(r, "failed") \/ run' = [run EXCEPT ![r] = next]
        BY <3>6 DEF ReadBack
      <4> HIDE DEF next
      <4> QED
        BY <1>0, <2>1, <3>4, <4>1
    <3> QED
      BY <2>7, <3>5, <3>6
  <2>8. CASE VerifyOwnership(r)
    BY <2>1, <2>8 DEF VerifyOwnership
  <2>9. CASE PassRaises(r)
    BY <2>1, <2>9 DEF PassRaises
  <2> QED
    BY <1>2, <2>4, <2>5, <2>6, <2>7, <2>8, <2>9 DEF Step, Fails
<1>3. CASE Tick \/ \E p \in Registries : Crash(p)
  BY <1>0, <1>3 DEF Tick, Crash, Run
<1> QED
  BY <1>1, <1>2, <1>3 DEF Next

\* A takeover before the last check is never reported as a success.
THEOREM SuccessOwnsTheLease == Spec => NoCutoverAfterTakeover
<1> DEFINE Owned == \A r \in Runs : run'[r].outcome # run[r].outcome /\ run'[r].outcome = "success"
                                    => doc.owner = r
<1>1. IInv /\ [Next]_vars => [Owned]_vars
  <2> SUFFICES ASSUME IInv, Next, NEW r \in Runs,
                      run'[r].outcome # run[r].outcome, run'[r].outcome = "success"
               PROVE  doc.owner = r
    OBVIOUS
  <2>1. VerifyOwnership(r) /\ doc = run[r].mine
    BY SuccessIsChecked
  <2> QED
    BY <2>1 DEF IInv, RunsOK, RunOK, PlacesOK, MineOK, VerifyOwnership, At
<1> QED
  BY <1>1, InductiveInvariant, PTL DEF Spec, NoCutoverAfterTakeover

\* The document of a live owner is replaced by nobody else, and real data under the
\* control key by nobody at all: whichever fences were lost and taken on the way.
THEOREM LiveLeasesAreKept == Spec => LiveLeaseIsKept
<1> DEFINE Kept == doc' # doc => /\ doc.status # "data"
                                 /\ doc.status = "held" => doc'.owner = doc.owner \/ doc.expires <= now
<1>1. ASSUME IInv, Next, doc' # doc
      PROVE  doc.status # "data" /\ (doc.status = "held" => doc'.owner = doc.owner \/ doc.expires <= now)
  <2>1. PICK r \in Runs : Record(r) \/ RecordRaises(r) \/ WriteDoc(r) \/ DocRaises(r)
    <3>1. PICK r \in Runs : Step(r) \/ Fails(r)
      BY <1>1 DEF Next, Tick, Crash
    <3> QED
      BY <1>1, <3>1 DEF Step, Fails, ReadControl, TakeLock, AcquireRaises, RecordRefused, Answer,
                        DocRefused, Reread, Relock, Beat, Scan, Put, PutRaises, Reconcile,
                        ReadBack, VerifyOwnership, PassRaises, Unlock
  <2>2. RunOK(r, run[r], now, source[r], target)
    BY <1>1 DEF IInv, RunsOK
  <2>3. CASE Record(r) \/ RecordRaises(r)
    <3>1. run[r].pc = "record" /\ doc = run[r].prior
      BY <1>1, <2>3 DEF Record, RecordRaises, Recordable, At
    <3> QED
      BY <2>2, <3>1 DEF RunOK, PriorOK
  <2>4. CASE WriteDoc(r) \/ DocRaises(r)
    <3>1. run[r].pc = "doc" /\ doc = run[r].mine /\ doc' = DocOf(r, Status(r), run[r].stamp)
      BY <1>1, <2>4 DEF WriteDoc, DocRaises, At
    <3>2. doc'.owner = r
      BY <3>1 DEF DocOf
    <3> QED
      BY <2>2, <3>1, <3>2 DEF RunOK, MineOK
  <2> QED
    BY <2>1, <2>3, <2>4
<1>2. IInv /\ [Next]_vars => [Kept]_vars
  BY <1>1
<1> QED
  BY <1>2, InductiveInvariant, PTL DEF Spec, LiveLeaseIsKept
-----------------------------------------------------------------------------
(***************************************************************************)
(* Fences: who lost the lease, and to whom.                                *)
(***************************************************************************)
\* Leases are distinct and not ahead of the fence; a run that is about to lock
\* again has let go of its entry, and one that reads the document again has
\* lost the fence for good.
LeaseInv ==
    /\ \A r \in Runs : run[r].lease <= fence.fence
    /\ \A r, s \in Runs : r # s /\ run[r].lease # 0 => run[r].lease # run[s].lease
    /\ \A r \in Runs : At(r, "relock") /\ Entry(r).fence # 0 => Entry(r).fence # run[r].lease
    /\ \A r \in Runs : At(r, "reread") => ~FenceOk(r)

\* A step of one run leaves the others where they are.
LEMMA OthersStay ==
    ASSUME IInv, NEW q \in Runs, Step(q) \/ Fails(q)
    PROVE  /\ UNCHANGED now
           /\ \A r \in Runs : r # q => run'[r] = run[r]
<1>0. run \in [Runs -> Run]
  BY DEF IInv, RunsOK
<1>1. \A r \in Runs : r # q => run'[r] = run[r]
  BY <1>0
     DEF Step, Fails, Refuse, EndWith, LoseLease, ReadControl, TakeLock, AcquireRaises, Record,
         RecordRefused, RecordRaises, Answer, WriteDoc, DocRefused, Reread, Relock, DocRaises,
         Beat, Scan, Put, PutRaises, Reconcile, ReadBack, VerifyOwnership, PassRaises, Unlock
<1>2. UNCHANGED now
  BY DEF store,
         Step, Fails, ReadControl, TakeLock, AcquireRaises, Record,
         RecordRefused, RecordRaises, Answer, WriteDoc, DocRefused, Reread, Relock, DocRaises,
         Beat, Scan, Put, PutRaises, Reconcile, ReadBack, VerifyOwnership, PassRaises, Unlock
<1> QED
  BY <1>1, <1>2

\* What a step leaves of a run's heartbeat and of its late keys.
SameClock(r) == /\ run'[r].last = run[r].last /\ run'[r].late = run[r].late
                /\ run'[r].slow = run[r].slow

\* Where the ways to end a run leave it.
LEMMA Ends ==
    ASSUME IInv, NEW r \in Runs
    PROVE  /\ Refuse(r) => /\ run'[r].pc = "done" /\ run'[r].outcome = "refused"
                           /\ run'[r].lease = run[r].lease /\ run'[r].mine = run[r].mine
                           /\ SameClock(r)
           /\ \A outcome : EndWith(r, outcome) =>
                           /\ run'[r].pc = "doc" /\ run'[r].stamp = now /\ run'[r].outcome = outcome
                           /\ run'[r].lease = run[r].lease /\ run'[r].mine = run[r].mine
                           /\ SameClock(r)
           /\ \A outcome : LoseLease(r, outcome) =>
                           /\ run'[r].pc \in {"doc", "unlock"}
                           /\ run'[r].pc = "doc" => run'[r].stamp = now
                           /\ run'[r].outcome \in {run[r].outcome, "refused", outcome}
                           /\ run'[r].lease = run[r].lease /\ run'[r].mine = run[r].mine
                           /\ SameClock(r)
<1> USE DEF SameClock
<1>0. run \in [Runs -> Run]
  BY DEF IInv, RunsOK
<1>1. Refuse(r) => /\ run'[r].pc = "done" /\ run'[r].outcome = "refused"
                   /\ run'[r].lease = run[r].lease /\ run'[r].mine = run[r].mine
                   /\ SameClock(r)
  BY <1>0 DEF Refuse, Run
<1>2. ASSUME NEW outcome, EndWith(r, outcome)
      PROVE  /\ run'[r].pc = "doc" /\ run'[r].stamp = now /\ run'[r].outcome = outcome
             /\ run'[r].lease = run[r].lease /\ run'[r].mine = run[r].mine
             /\ SameClock(r)
  BY <1>0, <1>2 DEF EndWith, Run
<1>3. ASSUME NEW outcome, LoseLease(r, outcome)
      PROVE  /\ run'[r].pc \in {"doc", "unlock"}
             /\ run'[r].pc = "doc" => run'[r].stamp = now
             /\ run'[r].outcome \in {run[r].outcome, "refused", outcome}
             /\ run'[r].lease = run[r].lease /\ run'[r].mine = run[r].mine
             /\ SameClock(r)
  <2>1. EndWith(r, "refused") \/ EndWith(r, outcome) \/ run' = [run EXCEPT ![r].pc = "unlock"]
    BY <1>3 DEF LoseLease
  <2>2. CASE run' = [run EXCEPT ![r].pc = "unlock"]
    BY <1>0, <2>2 DEF Run
  <2> QED
    BY <1>2, <2>1, <2>2
<1> QED
  BY <1>1, <1>2, <1>3

\* A step of the two passes over the keys ends the run or goes on, under the
\* lease and the document it had; only storing a key counts one.
PassMoves(r) ==
    /\ run'[r].lease = run[r].lease /\ run'[r].mine = run[r].mine /\ run'[r].last = run[r].last
    /\ run'[r].outcome = run[r].outcome /\ run'[r].slow = run[r].slow
    /\ \/ run[r].pc = "scan" /\ run'[r].pc = "beat"
       \/ run[r].pc = "put" /\ run'[r].pc \in {"readback", "reconcile"}
       \/ run[r].pc = "reconcile" /\ run'[r].pc = "readback"
       \/ run[r].pc = "readback" /\ run'[r].pc = "beat"
    /\ \/ run'[r].late = run[r].late
       \/ run[r].pc = "put" /\ doc.owner # r /\ run'[r].late = run[r].late + 1
PassEnds(r) ==
    /\ run[r].pc \in {"scan", "put", "reconcile", "readback", "ownership"}
    /\ \/ EndWith(r, "failed")
       \/ At(r, "ownership") /\ (EndWith(r, "success") \/ EndWith(r, "lost"))

LEMMA PassSteps ==
    ASSUME IInv, NEW r \in Runs,
           \/ Scan(r) \/ Put(r) \/ PutRaises(r) \/ Reconcile(r) \/ ReadBack(r) \/ VerifyOwnership(r)
           \/ PassRaises(r)
    PROVE  UNCHANGED <<now, doc, fence, entry>> /\ (PassMoves(r) \/ PassEnds(r))
<1>0. run \in [Runs -> Run] /\ run[r] \in Run
  BY DEF IInv, RunsOK
<1>1. UNCHANGED <<now, doc, fence, entry>>
  BY DEF Scan, Put, PutRaises, Reconcile, ReadBack, VerifyOwnership, PassRaises, store
<1>2. CASE Scan(r)
  <2>1. CASE EndWith(r, "failed")
    BY <1>1, <1>2, <2>1 DEF Scan, PassEnds, At
  <2>2. CASE ~EndWith(r, "failed")
    <3> DEFINE w == IF run[r].at < NKeys THEN "scan" ELSE "put"
               n == IF run[r].at < NKeys THEN run[r].at + 1 ELSE 1
               c == [run[r] EXCEPT !.pc = "beat", !.why = w, !.at = n]
    <3>1. run' = [run EXCEPT ![r].pc = "beat", ![r].why = w,
                             ![r].at = IF run[r].at < NKeys THEN @ + 1 ELSE 1]
      BY <1>2, <2>2 DEF Scan
    <3> HIDE DEF w
    <3>2. run'[r] = c
      BY <1>0, <3>1
    <3> HIDE DEF n
    <3>3. c.pc = "beat" /\ c.lease = run[r].lease /\ c.mine = run[r].mine /\ c.last = run[r].last
          /\ c.outcome = run[r].outcome /\ c.slow = run[r].slow /\ c.late = run[r].late
      BY <1>0 DEF Run
    <3> HIDE DEF c
    <3> QED
      BY <1>1, <1>2, <3>2, <3>3 DEF Scan, PassMoves, At
  <2> QED
    BY <2>1, <2>2
<1>3. CASE Put(r) \/ PutRaises(r)
  <2>1. ASSUME NEW label \in {"readback", "reconcile"}, At(r, "put"),
               run' = [run EXCEPT ![r] = Counted(r, label)]
        PROVE  PassMoves(r)
    <3> DEFINE d == IF doc.owner # r THEN 1 ELSE 0
               n == run[r].late + d
               w == run[r].wrote \cup {run[r].at}
               c == [run[r] EXCEPT !.pc = label, !.wrote = w, !.late = n]
    <3>1. run'[r] = c
      BY <1>0, <2>1 DEF Counted
    <3>2. n = run[r].late \/ (doc.owner # r /\ n = run[r].late + 1)
      BY <1>0 DEF Run
    <3> HIDE DEF n, w
    <3>3. c.pc = label /\ c.lease = run[r].lease /\ c.mine = run[r].mine /\ c.last = run[r].last
          /\ c.outcome = run[r].outcome /\ c.slow = run[r].slow /\ c.late = n
      BY <1>0 DEF Run
    <3> HIDE DEF c
    <3> QED
      BY <2>1, <3>1, <3>2, <3>3 DEF PassMoves, At
  <2>2. ASSUME NEW label \in {"readback", "reconcile"}, At(r, "put"),
               run' = [run EXCEPT ![r].pc = label]
        PROVE  PassMoves(r)
    BY <1>0, <2>2 DEF PassMoves, At, Run
  <2> QED
    BY <1>1, <1>3, <2>1, <2>2 DEF Put, PutRaises, PassEnds, At
<1>4. CASE Reconcile(r)
  <2>1. CASE EndWith(r, "failed")
    BY <1>1, <1>4, <2>1 DEF Reconcile, PassEnds, At
  <2>2. CASE run' = [run EXCEPT ![r].pc = "readback"]
    BY <1>0, <1>1, <1>4, <2>2 DEF Reconcile, PassMoves, At, Run
  <2> QED
    BY <1>4, <2>1, <2>2 DEF Reconcile
<1>5. CASE ReadBack(r)
  <2>1. CASE EndWith(r, "failed")
    BY <1>1, <1>5, <2>1 DEF ReadBack, PassEnds, At
  <2>2. CASE ~EndWith(r, "failed")
    <3> DEFINE w == IF run[r].at < NKeys THEN "put" ELSE "ownership"
               n == IF run[r].at < NKeys THEN run[r].at + 1 ELSE run[r].at
               g == run[r].verified \cup {run[r].at}
               b == [run[r] EXCEPT !.pc = "beat", !.verified = g]
               c == [b EXCEPT !.why = w, !.at = n]
    <3>1. b = Verified(r) /\ b.at = run[r].at
      BY <1>0 DEF Verified, Run
    <3>2. run' = [run EXCEPT ![r] = [Verified(r) EXCEPT !.why = w,
                                       !.at = IF run[r].at < NKeys THEN @ + 1 ELSE @]]
      BY <1>5, <2>2 DEF ReadBack
    <3>4. run'[r] = c
      BY <1>0, <3>1, <3>2
    <3> HIDE DEF w, n, g
    <3>5. c.pc = "beat" /\ c.lease = run[r].lease /\ c.mine = run[r].mine /\ c.last = run[r].last
          /\ c.outcome = run[r].outcome /\ c.slow = run[r].slow /\ c.late = run[r].late
      BY <1>0 DEF Run
    <3> HIDE DEF b, c
    <3> QED
      BY <1>1, <1>5, <3>4, <3>5 DEF ReadBack, PassMoves, At
  <2> QED
    BY <2>1, <2>2
<1>6. CASE VerifyOwnership(r)
  BY <1>1, <1>6 DEF VerifyOwnership, PassEnds, At
<1>7. CASE PassRaises(r)
  BY <1>1, <1>7 DEF PassRaises, PassEnds
<1> QED
  BY <1>1, <1>2, <1>3, <1>4, <1>5, <1>6, <1>7

\* A step of q: it may take the fence, or renew the one it owns.
LEMMA LeaseKept ==
    ASSUME IInv, IInv', LeaseInv, NEW q \in Runs, UNCHANGED now,
           \A r \in Runs : r # q => run'[r] = run[r],
           \/ fence' = fence
           \/ fence'.fence > fence.fence
           \/ fence'.fence = fence.fence /\ run[q].lease = fence.fence /\ run[q].lease # 0,
           \/ run'[q].lease = run[q].lease
           \/ run'[q].lease = fence'.fence /\ fence'.fence > fence.fence,
           \A p \in Registries : \/ entry'[p].fence \in {entry[p].fence, 0}
                                 \/ entry'[p].fence > fence.fence,
           run'[q].pc = "relock" => \/ entry'[RegistryOf[q]].fence = 0
                                    \/ entry'[RegistryOf[q]].fence # run'[q].lease,
           run'[q].pc = "reread" => ~(run'[q].lease = fence'.fence /\ fence'.expiry > now)
    PROVE  LeaseInv'
<1>1. /\ fence.fence \in Nat /\ fence'.fence \in Nat
      /\ \A r \in Runs : run[r].lease \in Nat /\ run'[r].lease \in Nat /\ RegistryOf[r] \in Registries
  BY DEF IInv, SharedOK, RunsOK, Run, Lease, Registries
<1>2. fence'.fence >= fence.fence
  BY <1>1
<1>3. \A r \in Runs : run'[r].lease <= fence'.fence
  BY <1>1, <1>2 DEF LeaseInv
<1>4. ASSUME NEW r \in Runs, NEW s \in Runs, r # s, run'[r].lease # 0 PROVE run'[r].lease # run'[s].lease
  <2>1. run[r].lease <= fence.fence /\ run[s].lease <= fence.fence
    BY DEF LeaseInv
  <2>2. run[r].lease = run[s].lease => run[r].lease = 0
    BY <1>4 DEF LeaseInv
  <2> QED
    BY <1>1, <1>4, <2>1, <2>2
<1>5. ASSUME NEW r \in Runs, run'[r].pc = "relock", entry'[RegistryOf[r]].fence # 0
      PROVE  entry'[RegistryOf[r]].fence # run'[r].lease
  <2>1. CASE r = q
    BY <1>5, <2>1
  <2>2. CASE r # q
    <3>1. run'[r] = run[r] /\ run[r].lease <= fence.fence
      BY <2>2 DEF LeaseInv
    <3>2. entry[RegistryOf[r]].fence # 0 => entry[RegistryOf[r]].fence # run[r].lease
      BY <1>5, <3>1 DEF LeaseInv, At, Entry
    <3>3. RegistryOf[r] \in Registries
      BY <1>1
    <3> QED
      BY <1>1, <1>5, <3>1, <3>2, <3>3
  <2> QED
    BY <2>1, <2>2
<1>6. ASSUME NEW r \in Runs, run'[r].pc = "reread"
      PROVE  ~(run'[r].lease = fence'.fence /\ fence'.expiry > now)
  <2>1. CASE r = q
    BY <1>6, <2>1
  <2>2. CASE r # q
    <3>1. run'[r] = run[r] /\ run[r].lease <= fence.fence
      BY <2>2 DEF LeaseInv
    <3>2. ~(run[r].lease = fence.fence /\ fence.expiry > now)
      BY <1>6, <3>1 DEF LeaseInv, At, FenceOk
    <3>3. run[q].lease # 0 => run[q].lease # run[r].lease
      BY <2>2 DEF LeaseInv
    <3> QED
      BY <1>1, <3>1, <3>2, <3>3
  <2> QED
    BY <2>1, <2>2
<1> QED
  BY <1>3, <1>4, <1>5, <1>6 DEF LeaseInv, At, Entry, FenceOk

\* What lock(), unlock() and renew() do to the fences.
LEMMA LockEffects ==
    ASSUME IInv, NEW r \in Runs
    PROVE  /\ LockControl(r) => /\ fence'.fence = fence.fence + 1 /\ fence'.fence > fence.fence
                                /\ \A p \in Registries : \/ entry'[p].fence = entry[p].fence
                                                         \/ entry'[p].fence > fence.fence
           /\ UnlockControl(r) => /\ \A p \in Registries : entry'[p].fence \in {entry[p].fence, 0}
                                  /\ \/ entry'[RegistryOf[r]].fence = 0
                                     \/ entry'[RegistryOf[r]].fence # run[r].lease
           /\ Renew(r) => /\ \/ fence' = fence
                             \/ /\ fence'.fence = fence.fence /\ run[r].lease = fence.fence
                                /\ run[r].lease # 0
                          /\ \A p \in Registries : entry'[p].fence = entry[p].fence
<1>1. /\ fence \in Lease /\ entry \in [Registries -> Lease] /\ now + TTL \in Nat
      /\ RegistryOf[r] \in Registries /\ fence.fence \in Nat
  BY TimesAssumption DEF IInv, SharedOK, Registries, Lease
<1>2. ASSUME LockControl(r)
      PROVE  /\ fence'.fence = fence.fence + 1 /\ fence'.fence > fence.fence
             /\ \A p \in Registries : \/ entry'[p].fence = entry[p].fence
                                      \/ entry'[p].fence > fence.fence
  BY <1>1, <1>2 DEF LockControl
<1>3. ASSUME UnlockControl(r)
      PROVE  /\ \A p \in Registries : entry'[p].fence \in {entry[p].fence, 0}
             /\ \/ entry'[RegistryOf[r]].fence = 0
                \/ entry'[RegistryOf[r]].fence # run[r].lease
  BY <1>1, <1>3 DEF UnlockControl, Entry, NoLease
<1>4. ASSUME Renew(r)
      PROVE  /\ \/ fence' = fence
                \/ /\ fence'.fence = fence.fence /\ run[r].lease = fence.fence
                   /\ run[r].lease # 0
             /\ \A p \in Registries : entry'[p].fence = entry[p].fence
  <2>1. CASE UNCHANGED <<fence, entry>>
    BY <2>1
  <2>2. CASE ~UNCHANGED <<fence, entry>>
    <3>1. /\ run[r].lease = fence.fence /\ entry[RegistryOf[r]].fence = run[r].lease
          /\ entry[RegistryOf[r]].fence # 0
          /\ fence' = [fence EXCEPT !.expiry = now + TTL]
          /\ entry' = [entry EXCEPT ![RegistryOf[r]].expiry = now + TTL]
      BY <1>4, <2>2 DEF Renew, FenceOk, Busy, Entry
    <3> QED
      BY <1>1, <3>1 DEF Lease
  <2> QED
    BY <2>1, <2>2
<1> QED
  BY <1>2, <1>3, <1>4

LEMMA StepLease ==
    ASSUME IInv, IInv', LeaseInv, NEW r \in Runs, Step(r) \/ Fails(r)
    PROVE  LeaseInv'
<1>0. /\ run \in [Runs -> Run] /\ entry \in [Registries -> Lease] /\ fence \in Lease
      /\ now \in Nat /\ fence.fence \in Nat
  BY DEF IInv, RunsOK, SharedOK, Lease
<1>1. UNCHANGED now /\ \A q \in Runs : q # r => run'[q] = run[q]
  BY OthersStay
<1>2. ASSUME UNCHANGED fence, run'[r].lease = run[r].lease,
             run'[r].pc \notin {"relock", "reread"},
             \/ UNCHANGED entry
             \/ \A p \in Registries : entry'[p].fence \in {entry[p].fence, 0}
      PROVE  LeaseInv'
  BY <1>1, <1>2, LeaseKept
<1>3. CASE ReadControl(r) \/ AcquireRaises(r)
  <2>1. run'[r].lease = run[r].lease /\ run'[r].pc \notin {"relock", "reread"} /\ UNCHANGED entry
    BY <1>0, <1>3, Ends DEF ReadControl, AcquireRaises, Run
  <2>2. fence' = fence \/ fence'.fence > fence.fence
    BY <1>0, <1>3 DEF ReadControl, AcquireRaises
  <2> QED
    BY <1>1, <2>1, <2>2, LeaseKept
<1>4. CASE TakeLock(r) \/ Relock(r)
  <2>1. CASE LockControl(r) /\ run'[r].lease = fence.fence + 1 /\ run'[r].pc \in {"record", "doc"}
    BY <1>1, <2>1, LockEffects, LeaseKept
  <2>2. CASE UNCHANGED <<fence, entry>> /\ (Refuse(r) \/ LoseLease(r, "lost"))
    BY <1>2, <2>2, Ends
  <2> QED
    BY <1>0, <1>4, <2>1, <2>2 DEF TakeLock, Relock, Run
<1>5. CASE Record(r) \/ RecordRefused(r) \/ RecordRaises(r) \/ Unlock(r)
  <2>1. run'[r].lease = run[r].lease /\ run'[r].pc \in {"answer", "done"} /\ UNCHANGED fence
    BY <1>0, <1>5, Ends DEF Record, RecordRefused, RecordRaises, Unlock, Run
  <2>2. UNCHANGED entry \/ \A p \in Registries : entry'[p].fence \in {entry[p].fence, 0}
    BY <1>5, LockEffects DEF Record, RecordRefused, RecordRaises, Unlock
  <2> QED
    BY <1>2, <2>1, <2>2
<1>6. CASE Answer(r) \/ WriteDoc(r)
  <2>1. run'[r].lease = run[r].lease /\ run'[r].pc \notin {"relock", "reread"}
        /\ UNCHANGED <<fence, entry>>
    BY <1>0, <1>6 DEF Answer, WriteDoc, Run
  <2> QED
    BY <1>2, <2>1
<1>7. CASE DocRefused(r)
  <2>1. UNCHANGED <<fence, entry>>
    BY <1>7 DEF DocRefused
  <2>2. CASE LoseLease(r, "lost")
    BY <1>2, <2>1, <2>2, Ends
  <2>3. CASE ~FenceOk(r) /\ run' = [run EXCEPT ![r].pc = "reread"]
    <3>1. run'[r].pc = "reread" /\ run'[r].lease = run[r].lease
      BY <1>0, <2>3 DEF Run
    <3> QED
      BY <1>1, <2>1, <2>3, <3>1, LeaseKept DEF FenceOk
  <2> QED
    BY <1>7, <2>2, <2>3 DEF DocRefused
<1>8. CASE Reread(r)
  <2>1. UNCHANGED fence
    BY <1>8 DEF Reread
  <2>2. CASE LoseLease(r, "lost") /\ UNCHANGED entry
    BY <1>2, <2>1, <2>2, Ends
  <2>3. CASE UnlockControl(r) /\ run' = [run EXCEPT ![r].pc = "relock"]
    <3>1. run'[r].pc = "relock" /\ run'[r].lease = run[r].lease
      BY <1>0, <2>3 DEF Run
    <3> QED
      BY <1>1, <2>1, <2>3, <3>1, LockEffects, LeaseKept
  <2> QED
    BY <1>8, <2>2, <2>3 DEF Reread
<1>9. CASE DocRaises(r)
  <2>1. run'[r].lease = run[r].lease /\ run'[r].pc \notin {"relock", "reread"} /\ UNCHANGED entry
    BY <1>9, Ends DEF DocRaises
  <2>2. fence' = fence \/ fence'.fence > fence.fence
    BY <1>0, <1>9 DEF DocRaises
  <2> QED
    BY <1>1, <2>1, <2>2, LeaseKept
<1>10. CASE Beat(r)
  <2>1. run'[r].lease = run[r].lease
        /\ run'[r].pc \notin {"relock", "reread"} /\ (UNCHANGED <<fence, entry>> \/ Renew(r))
    <3>1. run[r].pc = "beat" /\ run[r].why \in {"scan", "put", "ownership"}
      BY <1>10 DEF Beat, At, IInv, RunsOK, RunOK, PlacesOK
    <3> QED
      BY <1>0, <1>10, <3>1 DEF Beat, Run
  <2> QED
    BY <1>1, <1>2, <2>1, LockEffects, LeaseKept
<1>11. CASE Scan(r) \/ Put(r) \/ PutRaises(r) \/ Reconcile(r) \/ ReadBack(r) \/ VerifyOwnership(r)
           \/ PassRaises(r)
  <2>1. UNCHANGED <<fence, entry>> /\ (PassMoves(r) \/ PassEnds(r))
    BY <1>11, PassSteps
  <2>2. run'[r].lease = run[r].lease /\ run'[r].pc \in {"beat", "readback", "reconcile", "doc"}
    BY <2>1, Ends DEF PassMoves, PassEnds
  <2> QED
    BY <1>2, <2>1, <2>2
<1> QED
  BY <1>3, <1>4, <1>5, <1>6, <1>7, <1>8, <1>9, <1>10, <1>11 DEF Step, Fails

LEMMA NextLease == IInv /\ LeaseInv /\ [Next]_vars => LeaseInv'
<1> SUFFICES ASSUME IInv, LeaseInv, [Next]_vars PROVE LeaseInv'
  OBVIOUS
<1>0. IInv' /\ run \in [Runs -> Run] /\ entry \in [Registries -> Lease] /\ fence \in Lease /\ now \in Nat
  BY NextIInv DEF IInv, RunsOK, SharedOK
<1>1. ASSUME NEW r \in Runs, Step(r) \/ Fails(r) PROVE LeaseInv'
  BY <1>0, <1>1, StepLease
<1>2. CASE Tick
  BY <1>0, <1>2 DEF Tick, LeaseInv, At, Entry, FenceOk, Lease
<1>3. ASSUME NEW p \in Registries, Crash(p) PROVE LeaseInv'
  <2>1. /\ \A r \in Runs : run'[r].lease = run[r].lease /\ run'[r].pc \in {run[r].pc, "dead"}
        /\ \A x \in Registries : entry'[x].fence \in {entry[x].fence, 0}
        /\ UNCHANGED <<fence, now>>
    BY <1>0, <1>3 DEF Crash, Run, NoLease
  <2>2. \A r \in Runs : RegistryOf[r] \in Registries
    BY DEF Registries
  <2> QED
    BY <2>1, <2>2 DEF LeaseInv, At, Entry, FenceOk
<1>4. CASE UNCHANGED vars
  BY <1>4 DEF vars, LeaseInv, At, Entry, FenceOk
<1> QED
  BY <1>1, <1>2, <1>3, <1>4 DEF Next

\* Which steps report a lost lease.
LEMMA LostSteps ==
    ASSUME IInv, Next, NEW r \in Runs, run'[r].outcome # run[r].outcome, run'[r].outcome = "lost"
    PROVE  DocRefused(r) \/ Reread(r) \/ Relock(r) \/ VerifyOwnership(r)
<1>0. run \in [Runs -> Run]
  BY DEF IInv, RunsOK
<1>1. ASSUME NEW q \in Runs, Step(q) \/ Fails(q), q # r PROVE FALSE
  BY <1>1, OthersStay
<1>2. ASSUME Step(r) \/ Fails(r)
      PROVE  DocRefused(r) \/ Reread(r) \/ Relock(r) \/ VerifyOwnership(r)
  <2>1. CASE ReadControl(r) \/ TakeLock(r) \/ AcquireRaises(r) \/ Record(r) \/ RecordRefused(r)
             \/ RecordRaises(r)
    BY <1>0, <2>1, Ends DEF ReadControl, TakeLock, AcquireRaises, Record, RecordRefused,
                            RecordRaises, Run
  <2>2. CASE Answer(r) \/ WriteDoc(r) \/ DocRaises(r)
    BY <1>0, <2>2, Ends DEF Answer, WriteDoc, DocRaises, Run
  <2>3. CASE Beat(r) \/ Unlock(r)
    BY <1>0, <2>3 DEF Beat, Unlock, Run
  <2>4. CASE Scan(r) \/ Put(r) \/ PutRaises(r) \/ Reconcile(r) \/ ReadBack(r) \/ PassRaises(r)
    <3>1. run[r].pc # "ownership"  \/ PassRaises(r)
      BY <2>4 DEF Scan, Put, PutRaises, Reconcile, ReadBack, At
    <3>2. PassMoves(r) \/ EndWith(r, "failed")
      BY <2>4, <3>1, PassSteps DEF PassEnds, PassRaises, At
    <3> QED
      BY <3>2, Ends DEF PassMoves
  <2> QED
    BY <1>2, <2>1, <2>2, <2>3, <2>4 DEF Step, Fails
<1>3. CASE Tick \/ \E p \in Registries : Crash(p)
  BY <1>0, <1>3 DEF Tick, Crash, Run
<1> QED
  BY <1>1, <1>2, <1>3 DEF Next

\* A run loses its lease only to the run that took it, to another's lock in its
\* own process, or to contenders that took the fence at every attempt it had.
THEOREM LostToTheTaker == Spec => LostMeansTaken
<1>1. ASSUME IInv, LeaseInv, Next, NEW r \in Runs,
             run'[r].outcome # run[r].outcome, run'[r].outcome = "lost"
      PROVE  \/ doc # run[r].mine
             \/ Busy(r) /\ Entry(r).fence # run[r].lease
             \/ run[r].tries = Reacquires /\ ~FenceOk(r)
  <2>0. run \in [Runs -> Run]
    BY <1>1 DEF IInv, RunsOK
  <2>1. CASE DocRefused(r)
    BY <1>1, <2>0, <2>1 DEF DocRefused, Run
  <2>2. CASE Reread(r)
    BY <1>1, <2>0, <2>2 DEF Reread, LeaseInv, Run
  <2>3. CASE Relock(r)
    BY <1>1, <2>0, <2>3 DEF Relock, LeaseInv, Busy, Run
  <2>4. CASE VerifyOwnership(r)
    BY <1>1, <2>4, Ends DEF VerifyOwnership
  <2> QED
    BY <1>1, <2>1, <2>2, <2>3, <2>4, LostSteps
<1>2. Init => LeaseInv
  <2> SUFFICES ASSUME Init PROVE LeaseInv
    OBVIOUS
  <2>1. \A r \in Runs : run[r].lease = 0 /\ run[r].pc = "start"
    BY DEF Init, NewRun
  <2>2. fence.fence = 0
    BY DEF Init, NoLease
  <2> QED
    BY <2>1, <2>2 DEF LeaseInv, At
<1>3. IInv /\ LeaseInv /\ [Next]_vars =>
        [\A r \in Runs : run'[r].outcome # run[r].outcome /\ run'[r].outcome = "lost"
            => \/ doc # run[r].mine
               \/ Busy(r) /\ Entry(r).fence # run[r].lease
               \/ run[r].tries = Reacquires /\ ~FenceOk(r)]_vars
  BY <1>1
<1> QED
  BY <1>2, <1>3, NextLease, InductiveInvariant, PTL DEF Spec, LostMeansTaken

-----------------------------------------------------------------------------
(***************************************************************************)
(* Clocks: how much a run can store after its lease was taken over.  No    *)
(* time passes while the control document is written, so a lease lasts TTL *)
(* from the heartbeat that renewed it; Interval is no more than TTL, so a  *)
(* run that stored a key under another's document is due for the next      *)
(* heartbeat, and that one tells it.                                       *)
(***************************************************************************)
Work == {"scan", "put", "reconcile", "readback", "ownership", "beat"}

\* The document expires TTL after its stamp, and a confirmed one was stamped no
\* earlier than the heartbeat counted for it.
ClockOK(c, t) ==
    /\ c.last <= t
    /\ c.pc = "answer" => c.mine.expires = c.stamp + TTL
    /\ c.pc \in {"doc", "answer", "reread", "relock"} /\ c.why = "confirm" => c.last <= c.stamp

\* At work, the document is this run's or its lease has run out; and it lasts
\* until the next heartbeat is due, unless it was answered too slowly.
OwnOK(c, t, d) ==
    /\ c.pc \in Work \/ (c.pc = "answer" /\ c.why # "release") =>
        c.mine.status = "held" /\ (d = c.mine \/ c.mine.expires <= t)
    /\ c.pc \in Work => c.slow \/ c.last + Interval <= c.mine.expires

\* One key late: the document is lost, and the heartbeat is due.
LateOK(r, c, t, d) ==
    \/ c.slow
    \/ /\ c.late <= 1
       /\ c.late = 1 =>
           /\ c.pc \in {"readback", "reconcile", "beat", "doc", "reread", "relock", "unlock",
                        "done", "dead"}
           /\ d.owner # r
           /\ c.pc \in {"readback", "reconcile", "beat"} => c.last + Interval <= t

TimeOK(r, c, t, d) == ClockOK(c, t) /\ OwnOK(c, t, d) /\ LateOK(r, c, t, d)
TimeInv == \A r \in Runs : TimeOK(r, run[r], now, doc)

\* Who writes the document, and over what.
LEMMA DocWriter ==
    ASSUME IInv, NEW q \in Runs, Step(q) \/ Fails(q), doc' # doc
    PROVE  /\ doc'.owner = q
           /\ doc.status = "held" => doc.owner = q \/ doc.expires <= now
<1>1. Record(q) \/ RecordRaises(q) \/ WriteDoc(q) \/ DocRaises(q)
  BY DEF Step, Fails, ReadControl, TakeLock, AcquireRaises, RecordRefused, Answer,
         DocRefused, Reread, Relock, Beat, Scan, Put, PutRaises, Reconcile,
         ReadBack, VerifyOwnership, PassRaises, Unlock
<1>2. RunOK(q, run[q], now, source[q], target)
  BY DEF IInv, RunsOK
<1>3. CASE Record(q) \/ RecordRaises(q)
  <2>1. run[q].pc = "record" /\ doc = run[q].prior /\ doc' = DocOf(q, "held", run[q].stamp)
    BY <1>3 DEF Record, RecordRaises, Recordable, At
  <2> QED
    BY <1>2, <2>1 DEF RunOK, PriorOK, DocOf
<1>4. CASE WriteDoc(q) \/ DocRaises(q)
  <2>1. run[q].pc = "doc" /\ doc = run[q].mine /\ doc' = DocOf(q, Status(q), run[q].stamp)
    BY <1>4 DEF WriteDoc, DocRaises, At
  <2> QED
    BY <1>2, <2>1 DEF RunOK, MineOK, DocOf
<1> QED
  BY <1>1, <1>3, <1>4

\* A run at work, or whose document was just written, knows its own.
LEMMA MineIsOwn ==
    ASSUME IInv, NEW r \in Runs,
           run[r].pc \in Work \/ run[r].pc \in {"doc", "answer", "reread", "relock"}
    PROVE  run[r].mine.owner = r
BY DEF IInv, RunsOK, RunOK, PlacesOK, MineOK, Work

\* A step of one run leaves the clocks of the others as they should be.
LEMMA OthersInTime ==
    ASSUME IInv, TimeInv, NEW q \in Runs, Step(q) \/ Fails(q), NEW r \in Runs, r # q
    PROVE  TimeOK(r, run'[r], now', doc')
<1>1. now' = now /\ run'[r] = run[r] /\ TimeOK(r, run[r], now, doc)
  BY OthersStay DEF TimeInv
<1>2. CASE doc' = doc
  BY <1>1, <1>2
<1>3. CASE doc' # doc
  <2>1. doc'.owner = q /\ (doc.status = "held" => doc.owner = q \/ doc.expires <= now)
    BY <1>3, DocWriter
  <2>2. OwnOK(run[r], now, doc')
    BY <1>1, <2>1, MineIsOwn DEF TimeOK, OwnOK, Work
  <2>3. LateOK(r, run[r], now, doc')
    BY <1>1, <2>1 DEF TimeOK, LateOK
  <2> QED
    BY <1>1, <2>2, <2>3 DEF TimeOK
<1> QED
  BY <1>2, <1>3

\* Outside its work and its writes, a run that is not late need only know when
\* it was last told that the lease is its own.
LEMMA ResumeInTime ==
    ASSUME IInv, TimeInv, NEW r \in Runs, UNCHANGED <<now, doc>>, IInv', SameClock(r),
           run'[r].pc \in {"lock", "record", "doc", "reread", "relock", "unlock", "done"},
           \/ run'[r].stamp = now
           \/ /\ run[r].pc \in {"doc", "reread", "relock"}
              /\ run'[r].stamp = run[r].stamp /\ run'[r].why = run[r].why
           \/ run'[r].pc \in {"lock", "record", "unlock", "done"},
           run'[r].pc \in {"lock", "record"} => run[r].late = 0 \/ run[r].slow
    PROVE  TimeOK(r, run'[r], now', doc')
<1>1. /\ TimeOK(r, run[r], now, doc) /\ run[r].late \in Nat /\ run[r].last <= now
  BY DEF IInv, RunsOK, Run, TimeInv, TimeOK, ClockOK
<1>2. ClockOK(run'[r], now')
  BY <1>1 DEF TimeOK, ClockOK, SameClock
<1>3. OwnOK(run'[r], now', doc')
  BY DEF OwnOK, Work
<1>4. LateOK(r, run'[r], now', doc')
  BY <1>1 DEF TimeOK, LateOK, SameClock
<1> QED
  BY <1>2, <1>3, <1>4 DEF TimeOK

\* The steps of a run itself.
LEMMA AcquireInTime ==
    ASSUME IInv, IInv', TimeInv, NEW r \in Runs,
           \/ ReadControl(r) \/ TakeLock(r) \/ AcquireRaises(r) \/ RecordRefused(r)
           \/ RecordRaises(r) \/ Record(r)
    PROVE  TimeOK(r, run'[r], now', doc')
<1>0. /\ run \in [Runs -> Run] /\ TimeOK(r, run[r], now, doc) /\ now \in Nat /\ TTL \in Nat
      /\ run[r].late \in Nat
  BY TimesAssumption DEF IInv, RunsOK, SharedOK, TimeInv, Run
<1>1. run[r].pc \in {"start", "lock", "record"} /\ UNCHANGED now
  BY DEF ReadControl, TakeLock, AcquireRaises, RecordRefused, RecordRaises, Record, At, store
<1>2. run[r].late = 0 \/ run[r].slow
  BY <1>0, <1>1 DEF TimeOK, LateOK
<1>3. CASE ReadControl(r) \/ TakeLock(r) \/ AcquireRaises(r) \/ RecordRefused(r)
  <2>1. doc' = doc
    BY <1>3 DEF ReadControl, TakeLock, AcquireRaises, RecordRefused
  <2>2. SameClock(r) /\ run'[r].pc \in {"lock", "record", "done"}
    BY <1>0, <1>3, Ends DEF ReadControl, TakeLock, AcquireRaises, RecordRefused, Run, SameClock
  <2> QED
    BY <1>1, <1>2, <2>1, <2>2, ResumeInTime
<1>4. CASE RecordRaises(r)
  <2>1. run'[r].pc = "done" /\ SameClock(r)
    BY <1>4, Ends DEF RecordRaises
  <2> QED
    BY <1>0, <1>1, <1>2, <2>1 DEF TimeOK, ClockOK, OwnOK, LateOK, Work, SameClock
<1>5. CASE Record(r)
  <2> DEFINE written == DocOf(r, "held", run[r].stamp)
             w == IF run[r].prior.status = "absent" THEN "create" ELSE "takeover"
  <2>1. written.expires = run[r].stamp + TTL /\ written.status = "held"
    BY DEF DocOf
  <2>2. doc' = written
    BY <1>5 DEF Record
  <2>3. /\ run'[r].pc = "answer" /\ run'[r].mine = written /\ run'[r].stamp = run[r].stamp
        /\ run'[r].why = w /\ SameClock(r)
    <3>1. run' = [run EXCEPT ![r].pc = "answer", ![r].mine = written, ![r].why = w]
      BY <1>5 DEF Record
    <3> HIDE DEF written, w
    <3> QED
      BY <1>0, <3>1 DEF Run, SameClock
  <2>4. w # "confirm"
    OBVIOUS
  <2> HIDE DEF written, w
  <2>5. ClockOK(run'[r], now')
    BY <1>0, <1>1, <2>1, <2>3, <2>4 DEF TimeOK, ClockOK, SameClock
  <2>6. OwnOK(run'[r], now', doc')
    BY <2>1, <2>2, <2>3 DEF OwnOK, Work
  <2>7. LateOK(r, run'[r], now', doc')
    BY <1>0, <1>2, <2>3 DEF LateOK, SameClock
  <2> QED
    BY <2>5, <2>6, <2>7 DEF TimeOK
<1> QED
  BY <1>3, <1>4, <1>5

LEMMA AnswerInTime ==
    ASSUME IInv, IInv', TimeInv, NEW r \in Runs, Answer(r)
    PROVE  TimeOK(r, run'[r], now', doc')
<1>0. /\ run \in [Runs -> Run] /\ TimeOK(r, run[r], now, doc) /\ now \in Nat
      /\ TTL \in Nat /\ Interval \in Nat /\ Interval <= TTL
      /\ run[r].late \in Nat /\ run[r].last \in Nat /\ run[r].stamp \in Nat
      /\ run[r].slow \in BOOLEAN
  BY TimesAssumption DEF IInv, RunsOK, SharedOK, TimeInv, Run
<1>1. run[r].pc = "answer" /\ UNCHANGED <<now, doc>>
  BY DEF Answer, At, store
<1>2. run[r].late = 0 \/ run[r].slow
  BY <1>0, <1>1 DEF TimeOK, LateOK
<1>3. /\ run[r].mine.expires = run[r].stamp + TTL /\ run[r].last <= now
      /\ run[r].why # "release" => /\ run[r].mine.status = "held"
                                   /\ doc = run[r].mine \/ run[r].mine.expires <= now
      /\ run[r].why = "confirm" => run[r].last <= run[r].stamp
  BY <1>0, <1>1 DEF TimeOK, ClockOK, OwnOK
<1>4. /\ run'[r].mine = run[r].mine /\ run'[r].late = run[r].late
      /\ run[r].slow => run'[r].slow
  <2>1. CASE run[r].why \in {"create", "confirm", "release"}
    BY <1>0, <2>1 DEF Answer, Run
  <2>2. CASE run[r].why \in {"takeover", "scan", "put", "ownership"}
    BY <1>0, <2>2 DEF Answer, Run
  <2> QED
    BY <2>1, <2>2 DEF Answer
<1>5. LateOK(r, run'[r], now', doc')
  BY <1>2, <1>4 DEF LateOK
<1>6. CASE run[r].why = "create"
  <2>1. run'[r].pc = "doc" /\ run'[r].last = now /\ run'[r].stamp = now
    BY <1>0, <1>6 DEF Answer, Run
  <2> QED
    BY <1>0, <1>1, <1>5, <2>1 DEF TimeOK, ClockOK, OwnOK, Work
<1>7. CASE run[r].why = "confirm"
  <2>1. run'[r].pc = "beat" /\ run'[r].last = run[r].last
    BY <1>0, <1>7 DEF Answer, Run
  <2>2. run[r].last + Interval <= run[r].mine.expires
    BY <1>0, <1>3, <1>7
  <2> QED
    BY <1>1, <1>3, <1>4, <1>5, <1>7, <2>1, <2>2 DEF TimeOK, ClockOK, OwnOK, Work
<1>8. CASE run[r].why \in {"takeover", "scan", "put", "ownership"}
  <2>1. /\ run'[r].pc \in {"beat", "scan", "put", "ownership"} /\ run'[r].last = now
        /\ TooSlow(r) => run'[r].slow
    BY <1>0, <1>8 DEF Answer, Run
  <2>2. run'[r].slow \/ now + Interval <= run[r].mine.expires
    BY <1>0, <1>3, <2>1 DEF TooSlow
  <2>3. ClockOK(run'[r], now')
    BY <1>0, <1>1, <2>1 DEF ClockOK
  <2>4. OwnOK(run'[r], now', doc')
    BY <1>1, <1>3, <1>4, <1>8, <2>1, <2>2 DEF OwnOK, Work
  <2> QED
    BY <1>5, <2>3, <2>4 DEF TimeOK
<1>9. CASE run[r].why = "release"
  <2>1. run'[r].pc = "unlock" /\ run'[r].last = run[r].last
    BY <1>0, <1>9 DEF Answer, Run
  <2> QED
    BY <1>1, <1>3, <1>5, <2>1 DEF TimeOK, ClockOK, OwnOK, Work
<1> QED
  BY <1>6, <1>7, <1>8, <1>9 DEF Answer

LEMMA DocInTime ==
    ASSUME IInv, IInv', TimeInv, NEW r \in Runs,
           WriteDoc(r) \/ DocRefused(r) \/ Reread(r) \/ Relock(r) \/ DocRaises(r)
    PROVE  TimeOK(r, run'[r], now', doc')
<1>0. /\ run \in [Runs -> Run] /\ TimeOK(r, run[r], now, doc) /\ now \in Nat /\ TTL \in Nat
      /\ run[r].late \in Nat
  BY TimesAssumption DEF IInv, RunsOK, SharedOK, TimeInv, Run
<1>1. run[r].pc \in {"doc", "reread", "relock"} /\ UNCHANGED now
  BY DEF WriteDoc, DocRefused, Reread, Relock, DocRaises, At, store
<1>2. doc = run[r].mine => run[r].late = 0 \/ run[r].slow
  <2>1. run[r].mine.owner = r
    BY <1>1, MineIsOwn
  <2> QED
    BY <1>0, <2>1 DEF TimeOK, LateOK
<1>3. CASE WriteDoc(r)
  <2> DEFINE written == DocOf(r, Status(r), run[r].stamp)
  <2>1. /\ written.expires = run[r].stamp + TTL /\ (run[r].late = 0 \/ run[r].slow)
        /\ run[r].why # "release" => written.status = "held"
    BY <1>2, <1>3 DEF WriteDoc, DocOf, Status
  <2>2. doc' = written /\ run' = [run EXCEPT ![r].pc = "answer", ![r].mine = written]
    BY <1>3 DEF WriteDoc
  <2> HIDE DEF written
  <2>3. /\ run'[r].pc = "answer" /\ run'[r].mine = written /\ run'[r].stamp = run[r].stamp
        /\ SameClock(r) /\ run'[r].why = run[r].why
    BY <1>0, <2>2 DEF Run, SameClock
  <2>4. ClockOK(run'[r], now')
    BY <1>0, <1>1, <2>1, <2>3 DEF TimeOK, ClockOK, SameClock
  <2>5. OwnOK(run'[r], now', doc')
    BY <2>1, <2>2, <2>3 DEF OwnOK, Work
  <2>6. LateOK(r, run'[r], now', doc')
    BY <1>0, <2>1, <2>3 DEF LateOK, SameClock
  <2> QED
    BY <2>4, <2>5, <2>6 DEF TimeOK
<1>4. CASE DocRefused(r) \/ Reread(r) \/ Relock(r)
  <2>1. doc' = doc
    BY <1>4 DEF DocRefused, Reread, Relock
  <2>2. /\ SameClock(r) /\ run'[r].pc \in {"doc", "reread", "relock", "unlock"}
        /\ \/ run'[r].stamp = now
           \/ run'[r].stamp = run[r].stamp /\ run'[r].why = run[r].why
           \/ run'[r].pc = "unlock"
    <3>1. CASE LoseLease(r, "lost")
      BY <3>1, Ends
    <3>2. CASE ~LoseLease(r, "lost")
      BY <1>0, <1>4, <3>2 DEF DocRefused, Reread, Relock, Run, SameClock
    <3> QED
      BY <3>1, <3>2
  <2> QED
    BY <1>1, <2>1, <2>2, ResumeInTime
<1>5. CASE DocRaises(r)
  <2>1. /\ SameClock(r) /\ run'[r].pc \in {"doc", "unlock"}
        /\ run'[r].pc = "doc" => run'[r].stamp = now
    BY <1>5, Ends DEF DocRaises
  <2>2. CASE doc' = doc
    BY <1>1, <2>1, <2>2, ResumeInTime
  <2>3. CASE doc' # doc
    <3>1. run[r].late = 0 \/ run[r].slow
      BY <1>2, <1>5, <2>3 DEF DocRaises
    <3> QED
      BY <1>0, <1>1, <2>1, <3>1 DEF TimeOK, ClockOK, OwnOK, LateOK, Work, SameClock
  <2> QED
    BY <2>2, <2>3
<1> QED
  BY <1>3, <1>4, <1>5

LEMMA WorkInTime ==
    ASSUME IInv, IInv', TimeInv, NEW r \in Runs,
           \/ Beat(r) \/ Scan(r) \/ Put(r) \/ PutRaises(r) \/ Reconcile(r) \/ ReadBack(r)
           \/ VerifyOwnership(r) \/ PassRaises(r) \/ Unlock(r)
    PROVE  TimeOK(r, run'[r], now', doc')
<1>0. /\ run \in [Runs -> Run] /\ TimeOK(r, run[r], now, doc) /\ now \in Nat
      /\ Interval \in Nat /\ run[r].late \in Nat /\ run[r].last \in Nat
      /\ run[r].mine.expires \in Nat
  BY TimesAssumption DEF IInv, RunsOK, SharedOK, TimeInv, Run, Doc
<1>1. CASE Unlock(r)
  <2>1. run'[r].pc = "done" /\ SameClock(r) /\ UNCHANGED <<now, doc>>
    BY <1>0, <1>1 DEF Unlock, Run, SameClock, store
  <2> QED
    BY <2>1, ResumeInTime
<1>2. CASE Beat(r)
  <2>1. run[r].pc = "beat" /\ run[r].why \in {"scan", "put", "ownership"} /\ UNCHANGED <<now, doc>>
    BY <1>2 DEF Beat, At, IInv, RunsOK, RunOK, PlacesOK, store
  <2>2. CASE now - run[r].last < Interval
    <3>1. run[r].late = 0 \/ run[r].slow
      BY <1>0, <2>1, <2>2 DEF TimeOK, LateOK
    <3>2. run'[r].pc = run[r].why /\ SameClock(r) /\ run'[r].mine = run[r].mine
      BY <1>0, <1>2, <2>2, <3>1 DEF Beat, Run, SameClock
    <3> QED
      BY <1>0, <2>1, <3>1, <3>2 DEF TimeOK, ClockOK, OwnOK, LateOK, Work, SameClock
  <2>3. CASE ~(now - run[r].last < Interval)
    <3>1. run'[r].pc = "doc" /\ SameClock(r) /\ run'[r].stamp = now
      BY <1>0, <1>2, <2>3 DEF Beat, Run, SameClock
    <3> QED
      BY <2>1, <3>1, ResumeInTime
  <2> QED
    BY <2>2, <2>3
<1>3. CASE ~Beat(r) /\ ~Unlock(r)
  <2>1. UNCHANGED <<now, doc, fence, entry>> /\ (PassMoves(r) \/ PassEnds(r))
    BY <1>3, PassSteps
  <2>2. CASE PassEnds(r)
    <3>1. run'[r].pc = "doc" /\ SameClock(r) /\ run'[r].stamp = now
      BY <2>2, Ends DEF PassEnds
    <3> QED
      BY <2>1, <3>1, ResumeInTime
  <2>3. CASE PassMoves(r)
    <3>1. run[r].pc \in Work /\ run'[r].pc \in Work /\ run'[r].pc # "answer"
          /\ run'[r].pc \in {"readback", "reconcile", "beat"}
      BY <2>3 DEF PassMoves, Work
    <3>2. ClockOK(run'[r], now) /\ OwnOK(run'[r], now, doc)
      BY <1>0, <2>3, <3>1 DEF PassMoves, TimeOK, ClockOK, OwnOK, Work
    <3>3. CASE run[r].slow
      <4>1. run'[r].slow
        BY <2>3, <3>3 DEF PassMoves
      <4> QED
        BY <2>1, <3>2, <4>1 DEF TimeOK, LateOK
    <3>4. CASE run'[r].late = run[r].late
      <4>1. run[r].slow \/ (run[r].late = 1 => run[r].pc \in {"readback", "reconcile", "beat"})
        BY <1>0, <3>1 DEF TimeOK, LateOK, Work
      <4>2. run'[r].last = run[r].last /\ run'[r].slow = run[r].slow
        BY <2>3 DEF PassMoves
      <4>3. LateOK(r, run'[r], now, doc)
        BY <1>0, <3>1, <3>4, <4>1, <4>2 DEF TimeOK, LateOK
      <4> QED
        BY <2>1, <3>2, <4>3 DEF TimeOK
    <3>5. CASE ~run[r].slow /\ run[r].pc = "put" /\ doc.owner # r /\ run'[r].late = run[r].late + 1
      <4>1. run[r].late = 0
        <5>1. run[r].late <= 1 /\ run[r].late # 1
          BY <1>0, <3>5 DEF TimeOK, LateOK
        <5> QED
          BY <1>0, <5>1
      <4>2. run[r].mine.owner = r
        BY <3>1, MineIsOwn
      <4>3. run[r].mine.expires <= now /\ run[r].last + Interval <= run[r].mine.expires
        BY <1>0, <3>1, <3>5, <4>2 DEF TimeOK, OwnOK
      <4>4. run'[r].last = run[r].last /\ run[r].last + Interval <= now
        BY <1>0, <2>3, <4>3 DEF PassMoves
      <4>5. LateOK(r, run'[r], now, doc)
        BY <3>1, <3>5, <4>1, <4>4 DEF LateOK
      <4> QED
        BY <2>1, <3>2, <4>5 DEF TimeOK
    <3> QED
      BY <2>3, <3>3, <3>4, <3>5 DEF PassMoves
  <2> QED
    BY <2>1, <2>2, <2>3
<1> QED
  BY <1>1, <1>2, <1>3

LEMMA NextInTime ==
    ASSUME IInv, TimeInv, [Next]_vars
    PROVE  TimeInv'
<1>0. IInv' /\ run \in [Runs -> Run] /\ now \in Nat
  BY NextIInv DEF IInv, RunsOK, SharedOK
<1>1. ASSUME NEW q \in Runs, Step(q) \/ Fails(q) PROVE TimeInv'
  <2>1. TimeOK(q, run'[q], now', doc')
    BY <1>0, <1>1, AcquireInTime, AnswerInTime, DocInTime, WorkInTime DEF Step, Fails
  <2>2. \A r \in Runs : r # q => TimeOK(r, run'[r], now', doc')
    BY <1>1, OthersInTime
  <2> QED
    BY <2>1, <2>2 DEF TimeInv
<1>2. ASSUME Tick, NEW r \in Runs PROVE TimeOK(r, run'[r], now', doc')
  <2>1. /\ UNCHANGED <<doc, run>> /\ now' = now + 1
        /\ TimeOK(r, run[r], now, doc)
    BY <1>2 DEF Tick, TimeInv
  <2>2. /\ run[r].last \in Nat /\ run[r].mine.expires \in Nat /\ Interval \in Nat
        /\ run[r].mine.expires <= now => run[r].mine.expires <= now + 1
        /\ run[r].last <= now => run[r].last <= now + 1
        /\ run[r].last + Interval <= now => run[r].last + Interval <= now + 1
    BY <1>0, TimesAssumption DEF Run, Doc
  <2> QED
    BY <2>1, <2>2 DEF TimeOK, ClockOK, OwnOK, LateOK
<1>3. ASSUME NEW p \in Registries, Crash(p), NEW r \in Runs PROVE TimeOK(r, run'[r], now', doc')
  <2>1. UNCHANGED <<doc, now>> /\ TimeOK(r, run[r], now, doc)
    BY <1>3 DEF Crash, TimeInv
  <2>2. CASE run'[r] = run[r]
    BY <2>1, <2>2
  <2>3. CASE run'[r] = [run[r] EXCEPT !.pc = "dead"]
    <3>1. run'[r].pc = "dead" /\ SameClock(r)
      BY <1>0, <2>3 DEF Run, SameClock
    <3> QED
      BY <2>1, <3>1 DEF TimeOK, ClockOK, OwnOK, LateOK, Work, SameClock
  <2> QED
    BY <1>3, <2>2, <2>3 DEF Crash
<1>4. CASE UNCHANGED vars
  BY <1>4 DEF vars, TimeInv
<1> QED
  BY <1>1, <1>2, <1>3, <1>4 DEF Next, TimeInv

\* heartbeat_if_due(): whatever else is slow or fails, a run that was taken over
\* stores at most the key it was writing, unless one of its own writes of the
\* control document was answered more than TTL - Interval after its stamp.
THEOREM OneKeyAfterTakeover == Spec => []AtMostOneKeyAfterTakeover
<1>1. Init => TimeInv
  <2> SUFFICES ASSUME Init, NEW r \in Runs PROVE TimeOK(r, run[r], now, doc)
    BY DEF TimeInv
  <2>1. run[r].pc = "start" /\ run[r].last = 0 /\ run[r].late = 0 /\ now = 0
    BY DEF Init, NewRun
  <2> QED
    BY <2>1 DEF TimeOK, ClockOK, OwnOK, LateOK, Work
<1>2. IInv /\ TimeInv /\ [Next]_vars => TimeInv'
  BY NextInTime
<1>3. TimeInv => AtMostOneKeyAfterTakeover
  BY DEF TimeInv, TimeOK, LateOK, AtMostOneKeyAfterTakeover
<1> QED
  BY <1>1, <1>2, <1>3, InductiveInvariant, PTL DEF Spec

=============================================================================
