-------------------------- MODULE Reconcile_proofs --------------------------
(***************************************************************************)
(* Proofs about Reconcile, for every set of keys, bodies and callers: a    *)
(* write that is reconciled and retried takes effect at most once, OK is   *)
(* told only of a body that was stored, and all that the callers do is a   *)
(* behaviour of StoreContract.                                             *)
(***************************************************************************)
EXTENDS Reconcile, TLAPS

(***************************************************************************)
(* The inductive invariant.                                                *)
(***************************************************************************)
\* Leases are of the past, and no two callers of a key have the same fence.
LeasesOK ==
    /\ \A c \in Clients : lease[c].key # None => lease[c].fence =< fence[lease[c].key]
    /\ \A c, d \in Clients :
        c # d /\ lease[c].key = lease[d].key /\ lease[c].key # None
        => lease[c].fence # lease[d].fence

\* A write that was begun is a create, or an update under the caller's lease.
WriteOK(c) ==
    session[c].phase # "new" =>
        /\ Own(c) \in Write
        /\ Own(c).fenced <=> Own(c).prior # Absent
        /\ Own(c).fenced => lease[c].key = Own(c).key

\* What was sent so far: nothing, the write, the write and its retry.
SentOK(c) ==
    /\ session[c].phase \in {"new", "write"} => session[c].applied + session[c].late = 0
    /\ session[c].phase \in {"reconcile", "retry"} => session[c].applied + session[c].late =< 1
    /\ session[c].applied + session[c].late =< 2
    /\ session[c].phase = "retry" \/ session[c].applied + session[c].late = 2
       => Own(c).fenced /\ Own(c).prior # Own(c).body

\* A delayed update was prepared on the fence of its lease.
LateOK(c) ==
    session[c].late > 0 /\ Own(c).fenced => session[c].seen = lease[c].fence

\* Where an applied update could land again, the key still has its body, or a
\* newer lease supersedes it.
OnceOK(c) ==
    /\ session[c].applied =< 1
    /\ session[c].applied > 0 /\ Own(c).fenced /\ Own(c).prior # Own(c).body
       => value[Own(c).key] = Own(c).body \/ lease[c].fence < fence[Own(c).key]

CallerOK(c) == WriteOK(c) /\ SentOK(c) /\ LateOK(c) /\ OnceOK(c)

\* Somebody's write stored each body.
StoredOK ==
    \A k \in Keys : value[k] # Absent =>
        \E d \in Clients : /\ session[d].applied > 0
                           /\ Own(d).key = k /\ Own(d).body = value[k]

IInv ==
    /\ TypeOK /\ LeasesOK
    /\ \A c \in Clients : CallerOK(c)
    /\ StoredOK /\ OkMeansStored

-----------------------------------------------------------------------------
\* The initial states satisfy the invariant: nothing was sent or stored.
LEMMA InitIInv == Init => IInv
  <1> SUFFICES ASSUME Init PROVE IInv
    OBVIOUS
  <1>1. TypeOK
    BY SentinelAssumption DEF Init, TypeOK, NoLease, NoSession, Session, Answers
  <1>2. LeasesOK
    BY DEF Init, LeasesOK, NoLease
  <1>3. ASSUME NEW c \in Clients PROVE CallerOK(c)
    BY DEF Init, NoSession, CallerOK, WriteOK, SentOK, LateOK, OnceOK
  <1>4. StoredOK
    BY DEF Init, StoredOK
  <1>5. OkMeansStored
    BY DEF Init, NoSession, OkMeansStored
  <1> QED
    BY <1>1, <1>2, <1>3, <1>4, <1>5 DEF IInv

\* A stored value stays some caller's, and so does the value an OK stands for,
\* in a step that starts no write, forgets no application and stores at most
\* the body of a write that it counts as applied.
LEMMA StoredStays ==
    ASSUME IInv,
           session' \in [Clients -> Session],
           NEW c \in Clients,
           \A d \in Clients :
                /\ session[d].applied > 0 => Own(d)' = Own(d) /\ session'[d].applied > 0
                /\ session'[d].told = "OK" =>
                     \/ session[d].told = "OK" /\ Own(d)' = Own(d)
                     \/ /\ Own(d)' = Own(d) /\ Own(d) \in Write
                        /\ value[Own(d).key] = Own(d).body
                     \/ session'[d].applied > 0,
           \/ value' = value
           \/ /\ value' = [value EXCEPT ![Own(c).key] = Own(c).body]
              /\ Own(c)' = Own(c) /\ session'[c].applied > 0
    PROVE  StoredOK' /\ OkMeansStored'
  <1>1. StoredOK /\ OkMeansStored /\ TypeOK
    BY DEF IInv
  <1>2. StoredOK'
    <2> SUFFICES ASSUME NEW k \in Keys, value'[k] # Absent
                 PROVE  \E d \in Clients : /\ session'[d].applied > 0
                                           /\ Own(d)'.key = k /\ Own(d)'.body = value'[k]
      BY DEF StoredOK, Own
    <2>1. CASE value'[k] = value[k]
      <3>1. PICK d \in Clients : /\ session[d].applied > 0
                                /\ Own(d).key = k /\ Own(d).body = value[k]
        BY <1>1, <2>1 DEF StoredOK
      <3> QED
        BY <3>1, <2>1
    <2>2. CASE value'[k] # value[k]
      BY <2>2, <1>1 DEF TypeOK
    <2> QED
      BY <2>1, <2>2
  <1>3. OkMeansStored'
    <2> SUFFICES ASSUME NEW d \in Clients, session'[d].told = "OK"
                 PROVE  \E e \in Clients : /\ session'[e].applied > 0
                                           /\ Own(e)'.key = Own(d)'.key
                                           /\ Own(e)'.body = Own(d)'.body
      BY DEF OkMeansStored, Own
    <2>1. CASE session[d].told = "OK" /\ Own(d)' = Own(d)
      <3>1. PICK e \in Clients : /\ session[e].applied > 0
                                /\ Own(e).key = Own(d).key /\ Own(e).body = Own(d).body
        BY <1>1, <2>1 DEF OkMeansStored
      <3> QED
        BY <3>1, <2>1
    <2>2. CASE Own(d)' = Own(d) /\ Own(d) \in Write /\ value[Own(d).key] = Own(d).body
      <3>1. Own(d).key \in Keys /\ value[Own(d).key] # Absent
        BY <2>2, SentinelAssumption DEF Write
      <3>2. PICK e \in Clients : /\ session[e].applied > 0
                                /\ Own(e).key = Own(d).key
                                /\ Own(e).body = value[Own(d).key]
        BY <1>1, <3>1 DEF StoredOK
      <3> QED
        BY <3>2, <2>2
    <2>3. CASE session'[d].applied > 0
      BY <2>3
    <2> QED
      BY <2>1, <2>2, <2>3
  <1> QED
    BY <1>2, <1>3

\* A step of caller c that sends, answers or applies its write: the others keep
\* their invariant, because what c applies needs the value others left, and
\* the newest lease of the key.
LEMMA CallerStep ==
    ASSUME IInv, NEW c \in Clients, NEW s \in Session,
           session[c].phase # "new", s.phase # "new",
           session' = [session EXCEPT ![c] = s],
           fence' = fence, lease' = lease,
           s.write = Own(c), s.applied >= session[c].applied,
           s.told # "none" <=> s.phase = "told",
           s.told = "OK" => value[Own(c).key] = Own(c).body \/ s.applied > 0,
           \/ value' = value
           \/ /\ value' = [value EXCEPT ![Own(c).key] = Own(c).body]
              /\ value[Own(c).key] = Own(c).prior
              /\ Own(c).fenced => lease[c].fence = fence[Own(c).key]
              /\ s.applied > 0,
           CallerOK(c)'
    PROVE  IInv'
  <1>1. TypeOK /\ LeasesOK /\ WriteOK(c) /\ \A d \in Clients : CallerOK(d)
    BY DEF IInv, CallerOK
  <1>2. Own(c) \in Write /\ Own(c)' = Own(c) /\ session'[c] = s
    BY <1>1 DEF WriteOK, Own, TypeOK
  <1>3. \A d \in Clients \ {c} : session'[d] = session[d]
    BY <1>1 DEF TypeOK
  <1>4. TypeOK'
    <2>1. value' \in [Keys -> Bodies \cup {Absent}]
      BY <1>1, <1>2 DEF TypeOK, Write
    <2>2. session' \in [Clients -> Session]
      BY <1>1 DEF TypeOK
    <2>3. s.applied + s.late =< 2
      BY <1>2 DEF CallerOK, SentOK
    <2> QED
      BY <1>1, <1>2, <1>3, <2>1, <2>2, <2>3 DEF TypeOK
  <1>5. LeasesOK'
    BY <1>1 DEF LeasesOK
  <1>6. ASSUME NEW d \in Clients \ {c} PROVE CallerOK(d)'
    <2>1. WriteOK(d)' /\ SentOK(d)' /\ LateOK(d)'
      BY <1>1, <1>3 DEF CallerOK, WriteOK, SentOK, LateOK, Own
    <2>2. OnceOK(d)'
      <3> SUFFICES ASSUME session[d].applied > 0, Own(d).fenced, Own(d).prior # Own(d).body
                   PROVE  \/ value'[Own(d).key] = Own(d).body
                          \/ lease[d].fence < fence[Own(d).key]
        BY <1>1, <1>3 DEF OnceOK, Own, CallerOK
      <3>1. Own(d) \in Write /\ lease[d].key = Own(d).key
        <4>1. session[d].phase # "new"
          BY <1>1 DEF CallerOK, SentOK, TypeOK, Session
        <4> QED
          BY <4>1, <1>1 DEF CallerOK, WriteOK
      <3>2. \/ value[Own(d).key] = Own(d).body
            \/ lease[d].fence < fence[Own(d).key]
        BY <1>1 DEF CallerOK, OnceOK
      <3>3. CASE value'[Own(d).key] = value[Own(d).key]
        BY <3>2, <3>3
      <3>4. CASE value'[Own(d).key] # value[Own(d).key]
        <4>1. /\ Own(d).key = Own(c).key /\ value[Own(c).key] = Own(c).prior
              /\ Own(c).fenced => lease[c].fence = fence[Own(c).key]
          BY <3>4, <3>1, <1>1 DEF TypeOK, Write
        <4>2. CASE Own(c).fenced
          <5>1. lease[c].key = lease[d].key /\ lease[c].key # None
            BY <4>1, <4>2, <3>1, <1>1, <1>2, SentinelAssumption DEF WriteOK, Write
          <5>2. lease[d].fence # lease[c].fence /\ lease[d].fence =< fence[Own(d).key]
            BY <5>1, <3>1, <1>1 DEF LeasesOK
          <5>3. lease[d].fence \in Nat /\ fence[Own(d).key] \in Nat
            BY <3>1, <1>1 DEF TypeOK, Write
          <5> QED
            BY <5>2, <5>3, <4>1, <4>2
        <4>3. CASE ~Own(c).fenced
          <5>1. value[Own(d).key] = Absent
            BY <4>1, <4>3, <1>1 DEF WriteOK
          <5>2. Own(d).body # Absent
            BY <3>1, SentinelAssumption DEF Write
          <5> QED
            BY <5>1, <5>2, <3>2
        <4> QED
          BY <4>2, <4>3
      <3> QED
        BY <3>3, <3>4
    <2> QED
      BY <2>1, <2>2 DEF CallerOK
  <1>7. StoredOK' /\ OkMeansStored'
    <2>1. session' \in [Clients -> Session]
      BY <1>4 DEF TypeOK
    <2>2. ASSUME NEW d \in Clients
          PROVE  /\ session[d].applied > 0 => Own(d)' = Own(d) /\ session'[d].applied > 0
                 /\ session'[d].told = "OK" =>
                      \/ session[d].told = "OK" /\ Own(d)' = Own(d)
                      \/ /\ Own(d)' = Own(d) /\ Own(d) \in Write
                         /\ value[Own(d).key] = Own(d).body
                      \/ session'[d].applied > 0
      <3>1. CASE d = c
        <4>1. session[c].applied \in Nat /\ s.applied \in Nat
          BY <1>1 DEF TypeOK, Session
        <4> QED
          BY <3>1, <4>1, <1>2
      <3>2. CASE d # c
        BY <3>2, <1>3 DEF Own
      <3> QED
        BY <3>1, <3>2
    <2> QED
      BY <2>1, <2>2, <1>2, StoredStays
  <1> QED
    BY <1>4, <1>5, <1>6, <1>7 DEF IInv

-----------------------------------------------------------------------------
\* A new lease is newer than those of the key before it, and of a caller that
\* has sent nothing.
LEMMA LockStep == ASSUME IInv, NEW c \in Clients, Lock(c) PROVE IInv'
  <1>1. TypeOK /\ LeasesOK /\ \A d \in Clients : CallerOK(d)
    BY DEF IInv
  <1>2. PICK k \in Keys :
            /\ fence' = [fence EXCEPT ![k] = @ + 1]
            /\ lease' = [lease EXCEPT ![c] = [key |-> k, fence |-> fence[k] + 1]]
    BY DEF Lock
  <1>3. session' = session /\ value' = value /\ session[c].phase = "new" /\ lease[c] = NoLease
    BY DEF Lock
  <1>4. fence' \in [Keys -> Nat] /\ \A j \in Keys : fence[j] =< fence'[j]
    BY <1>1, <1>2 DEF TypeOK
  <1>5. TypeOK'
    BY <1>1, <1>2, <1>3, <1>4 DEF TypeOK
  <1>6. LeasesOK'
    <2>1. /\ lease'[c].key = k /\ lease'[c].fence = fence[k] + 1 /\ fence'[k] = fence[k] + 1
          /\ fence[k] \in Nat
          /\ \A d \in Clients \ {c} : lease'[d] = lease[d]
      BY <1>1, <1>2 DEF TypeOK
    <2>2. ASSUME NEW d \in Clients, lease'[d].key # None
          PROVE  lease'[d].fence =< fence'[lease'[d].key]
      <3>1. CASE d = c
        BY <3>1, <2>1
      <3>2. CASE d # c
        <4>1. lease[d].key \in Keys /\ lease[d].fence =< fence[lease[d].key]
          BY <3>2, <2>1, <2>2, <1>1 DEF TypeOK, LeasesOK
        <4>2. /\ lease[d].fence \in Nat /\ fence[lease[d].key] \in Nat
              /\ fence'[lease[d].key] \in Nat
          BY <4>1, <1>1, <1>4 DEF TypeOK
        <4> QED
          BY <4>1, <4>2, <1>4, <2>1, <3>2
      <3> QED
        BY <3>1, <3>2
    <2>3. ASSUME NEW d \in Clients \ {c}, lease[d].key = k
          PROVE  lease[d].fence # fence[k] + 1
      <3>1. lease[d].fence =< fence[k] /\ lease[d].fence \in Nat
        BY <2>3, <1>1, SentinelAssumption DEF LeasesOK, TypeOK
      <3> QED
        BY <3>1, <2>1
    <2>4. ASSUME NEW d \in Clients, NEW e \in Clients, d # e,
                 lease'[d].key = lease'[e].key, lease'[d].key # None
          PROVE  lease'[d].fence # lease'[e].fence
      <3>1. CASE d = c
        BY <3>1, <2>1, <2>3, <2>4
      <3>2. CASE e = c
        BY <3>2, <2>1, <2>3, <2>4
      <3>3. CASE d # c /\ e # c
        BY <3>3, <2>1, <2>4, <1>1 DEF LeasesOK
      <3> QED
        BY <3>1, <3>2, <3>3
    <2> QED
      BY <2>2, <2>4 DEF LeasesOK
  <1>7. ASSUME NEW d \in Clients PROVE CallerOK(d)'
    <2>1. CASE d = c
      BY <2>1, <1>1, <1>3 DEF CallerOK, WriteOK, SentOK, LateOK, OnceOK, Own, TypeOK, Session
    <2>2. CASE d # c
      <3>1. lease'[d] = lease[d] /\ Own(d)' = Own(d)
        BY <2>2, <1>1, <1>2, <1>3 DEF TypeOK, Own
      <3>2. WriteOK(d)' /\ SentOK(d)' /\ LateOK(d)'
        BY <3>1, <1>1, <1>3 DEF CallerOK, WriteOK, SentOK, LateOK, Own
      <3>3. OnceOK(d)'
        <4> SUFFICES ASSUME session[d].applied > 0, Own(d).fenced, Own(d).prior # Own(d).body,
                            lease[d].fence < fence[Own(d).key]
                     PROVE  lease[d].fence < fence'[Own(d).key]
          BY <3>1, <1>1, <1>3 DEF OnceOK, CallerOK, Own
        <4>1. Own(d).key \in Keys
          <5>1. session[d].phase # "new"
            BY <1>1 DEF CallerOK, SentOK, TypeOK, Session
          <5> QED
            BY <5>1, <1>1 DEF CallerOK, WriteOK, Write
        <4>2. /\ lease[d].fence \in Nat /\ fence[Own(d).key] \in Nat
              /\ fence'[Own(d).key] \in Nat
          BY <4>1, <1>1, <1>4 DEF TypeOK
        <4> QED
          BY <4>1, <4>2, <1>4
      <3> QED
        BY <3>2, <3>3 DEF CallerOK
    <2> QED
      BY <2>1, <2>2
  <1>8. StoredOK' /\ OkMeansStored'
    BY <1>3, StoredStays, <1>5, <1>1 DEF TypeOK, Own
  <1> QED
    BY <1>5, <1>6, <1>7, <1>8 DEF IInv

\* A write that begins has sent nothing, so it is nobody's claim to a value.
LEMMA BeginWriteStep == ASSUME IInv, NEW c \in Clients, BeginWrite(c) PROVE IInv'
  <1>1. TypeOK /\ LeasesOK /\ \A d \in Clients : CallerOK(d)
    BY DEF IInv
  <1>2. PICK w \in Write :
            /\ session[c].phase = "new"
            /\ w.fenced <=> w.prior # Absent
            /\ w.fenced => lease[c].key = w.key
            /\ session' = [session EXCEPT ![c] =
                   [phase |-> "write", write |-> w, seen |-> fence[w.key], late |-> 0,
                told |-> "none", applied |-> 0]]
            /\ value' = value /\ fence' = fence /\ lease' = lease
    BY DEF BeginWrite
  <1> DEFINE s == [phase |-> "write", write |-> w, seen |-> fence[w.key], late |-> 0,
                told |-> "none", applied |-> 0]
  <1>3. /\ s = [phase |-> "write", write |-> w, seen |-> fence[w.key], late |-> 0,
                told |-> "none", applied |-> 0]
        /\ s \in Session
    <2>1. fence[w.key] \in Nat /\ w \in Write
      BY <1>1, <1>2 DEF TypeOK, Write
    <2> QED
      BY <2>1 DEF Session, Answers
  <1>4. /\ session' \in [Clients -> Session] /\ session'[c] = s
        /\ \A d \in Clients \ {c} : session'[d] = session[d]
    BY <1>1, <1>2, <1>3 DEF TypeOK
  <1> HIDE DEF s
  <1>5. TypeOK'
    <2>1. ASSUME NEW d \in Clients
          PROVE  /\ session'[d].told # "none" <=> session'[d].phase = "told"
                 /\ session'[d].applied + session'[d].late =< 2
      BY <1>1, <1>3, <1>4 DEF TypeOK
    <2> QED
      BY <2>1, <1>1, <1>2, <1>4 DEF TypeOK
  <1>6. LeasesOK'
    BY <1>1, <1>2 DEF LeasesOK
  <1>7. ASSUME NEW d \in Clients PROVE CallerOK(d)'
    <2>1. CASE d = c
      BY <2>1, <1>2, <1>3, <1>4 DEF CallerOK, WriteOK, SentOK, LateOK, OnceOK, Own
    <2>2. CASE d # c
      BY <2>2, <1>1, <1>2, <1>4 DEF CallerOK, WriteOK, SentOK, LateOK, OnceOK, Own
    <2> QED
      BY <2>1, <2>2
  <1>8. StoredOK' /\ OkMeansStored'
    <2>1. ASSUME NEW d \in Clients
          PROVE  /\ session[d].applied > 0 => Own(d)' = Own(d) /\ session'[d].applied > 0
                 /\ session'[d].told = "OK" => session[d].told = "OK" /\ Own(d)' = Own(d)
      <3>1. CASE d = c
        <4>1. ~(session[c].applied > 0)
          BY <1>1, <1>2 DEF CallerOK, SentOK, TypeOK, Session
        <4> QED
          BY <3>1, <4>1, <1>3, <1>4
      <3>2. CASE d # c
        BY <3>2, <1>4 DEF Own
      <3> QED
        BY <3>1, <3>2
    <2> QED
      BY <2>1, <1>2, <1>4, StoredStays
  <1> QED
    BY <1>5, <1>6, <1>7, <1>8 DEF IInv

-----------------------------------------------------------------------------
(***************************************************************************)
(* What a caller is told leaves what it sent alone.                        *)
(***************************************************************************)
\* What Answered() changes: the phase and what the caller is told.
LEMMA AnsweredIs ==
    ASSUME IInv, NEW c \in Clients, Sending(c), NEW result \in Answers \ {"none"}
    PROVE  /\ Answered(c, result) \in Session
           /\ Answered(c, result).write = Own(c)
           /\ Answered(c, result).seen = session[c].seen
           /\ Answered(c, result).late = session[c].late
           /\ Answered(c, result).applied = session[c].applied
           /\ Answered(c, result).phase =
                  IF result = "UNKNOWN" /\ session[c].phase = "write" THEN "reconcile" ELSE "told"
           /\ Answered(c, result).told =
                  IF result = "UNKNOWN" /\ session[c].phase = "write" THEN "none" ELSE result
  <1>1. session[c] \in Session /\ (session[c].told # "none" <=> session[c].phase = "told")
    BY DEF IInv, TypeOK
  <1>2. CASE result = "UNKNOWN" /\ session[c].phase = "write"
    BY <1>1, <1>2 DEF Answered, Session, Answers, Own
  <1>3. CASE ~(result = "UNKNOWN" /\ session[c].phase = "write")
    BY <1>1, <1>3 DEF Answered, Session, Answers, Own
  <1> QED
    BY <1>2, <1>3

\* A step that moves the caller to another phase and tells it something.
LEMMA QuietStep ==
    ASSUME IInv, NEW c \in Clients, NEW s \in Session,
           session[c].phase \in {"write", "reconcile", "retry"},
           s.write = Own(c), s.seen = session[c].seen,
           s.late = session[c].late, s.applied = session[c].applied,
           s.phase \in {"reconcile", "retry", "told"},
           s.phase = "reconcile" => session[c].phase = "write",
           s.phase = "retry" => /\ session[c].phase = "reconcile"
                                /\ Own(c).prior # Absent /\ Own(c).prior # Own(c).body,
           s.told # "none" <=> s.phase = "told",
           s.told = "OK" => value[Own(c).key] = Own(c).body,
           session' = [session EXCEPT ![c] = s],
           value' = value, fence' = fence, lease' = lease
    PROVE  IInv'
  <1>1. TypeOK /\ CallerOK(c) /\ session[c] \in Session
    BY DEF IInv, TypeOK
  <1>2. session'[c] = s
    BY <1>1 DEF TypeOK
  <1>3. WriteOK(c)'
    BY <1>1, <1>2 DEF CallerOK, WriteOK, Own
  <1>4. SentOK(c)'
    BY <1>1, <1>2, <1>3 DEF CallerOK, WriteOK, SentOK, Own, Session
  <1>5. LateOK(c)' /\ OnceOK(c)'
    BY <1>1, <1>2 DEF CallerOK, LateOK, OnceOK, Own
  <1> HIDE DEF CallerOK
  <1>6. CallerOK(c)'
    BY <1>3, <1>4, <1>5 DEF CallerOK
  <1>7. s.applied >= session[c].applied
    BY <1>1 DEF Session
  <1> QED
    BY <1>6, <1>7, CallerStep

\* A lost request.
LEMMA IsLostStep == ASSUME IInv, NEW c \in Clients, IsLost(c) PROVE IInv'
  <1>1. Sending(c) /\ session[c].phase \in {"write", "retry"}
    BY DEF IsLost, Sending
  <1> DEFINE s == Answered(c, "UNKNOWN")
  <1>2. session' = [session EXCEPT ![c] = s] /\ value' = value /\ fence' = fence /\ lease' = lease
    BY DEF IsLost
  <1>3. /\ s \in Session /\ s.write = Own(c) /\ s.seen = session[c].seen
        /\ s.late = session[c].late /\ s.applied = session[c].applied
        /\ s.phase = IF session[c].phase = "write" THEN "reconcile" ELSE "told"
        /\ s.told = IF session[c].phase = "write" THEN "none" ELSE "UNKNOWN"
    BY <1>1, AnsweredIs DEF Answers
  <1> HIDE DEF s
  <1> QED
    BY <1>1, <1>2, <1>3, QuietStep

\* A refused request; OK is told only to a create whose body is there.
LEMMA RefusedStep == ASSUME IInv, NEW c \in Clients, Refused(c) PROVE IInv'
  <1>1. PICK result \in {"OK", "EXISTS", "STALE"} :
            /\ result = "OK" <=> ~Own(c).fenced /\ value[Own(c).key] = Own(c).body
            /\ session' = [session EXCEPT ![c] = Answered(c, result)]
    BY DEF Refused
  <1>2. /\ Sending(c) /\ session[c].phase \in {"write", "retry"}
        /\ value' = value /\ fence' = fence /\ lease' = lease
    BY DEF Refused, Sending
  <1> DEFINE s == Answered(c, result)
  <1>3. /\ s \in Session /\ s.write = Own(c) /\ s.seen = session[c].seen
        /\ s.late = session[c].late /\ s.applied = session[c].applied
        /\ s.phase = "told" /\ s.told = result
    BY <1>1, <1>2, AnsweredIs DEF Answers
  <1>4. session' = [session EXCEPT ![c] = s]
    BY <1>1
  <1> HIDE DEF s
  <1>5. s.told = "OK" => value[Own(c).key] = Own(c).body
    BY <1>1, <1>3
  <1> QED
    BY <1>2, <1>3, <1>4, <1>5, QuietStep

\* reconcile() finds the body, retries, or gives up.
LEMMA ReconcileStep ==
    ASSUME IInv, NEW c \in Clients, FindOwn(c) \/ Retry(c) \/ GiveUp(c)
    PROVE  IInv'
  <1>1. session[c] \in Session /\ session[c].phase = "reconcile" /\ session[c].told = "none"
    BY DEF FindOwn, Retry, GiveUp, Reconciling, IInv, TypeOK
  <1>2. CASE FindOwn(c)
    <2> DEFINE s == [session[c] EXCEPT !.phase = "told", !.told = "OK"]
    <2>1. /\ session' = [session EXCEPT ![c] = s] /\ value[Own(c).key] = Own(c).body
          /\ value' = value /\ fence' = fence /\ lease' = lease
      BY <1>1, <1>2 DEF FindOwn, Tell, IInv, TypeOK
    <2>2. /\ s \in Session /\ s.write = Own(c) /\ s.seen = session[c].seen
          /\ s.late = session[c].late /\ s.applied = session[c].applied
          /\ s.phase = "told" /\ s.told = "OK"
      BY <1>1 DEF Session, Answers, Own
    <2> HIDE DEF s
    <2> QED
      BY <1>1, <2>1, <2>2, QuietStep
  <1>3. CASE Retry(c)
    <2> DEFINE s == [session[c] EXCEPT !.phase = "retry"]
    <2>1. /\ session' = [session EXCEPT ![c] = s]
          /\ Own(c).prior # Absent /\ Own(c).prior # Own(c).body
          /\ value' = value /\ fence' = fence /\ lease' = lease
      BY <1>1, <1>3 DEF Retry, IInv, TypeOK
    <2>2. /\ s \in Session /\ s.write = Own(c) /\ s.seen = session[c].seen
          /\ s.late = session[c].late /\ s.applied = session[c].applied
          /\ s.phase = "retry" /\ s.told = "none"
      BY <1>1 DEF Session, Answers, Own
    <2> HIDE DEF s
    <2> QED
      BY <1>1, <2>1, <2>2, QuietStep
  <1>4. CASE GiveUp(c)
    <2> DEFINE s == [session[c] EXCEPT !.phase = "told", !.told = "UNKNOWN"]
    <2>1. /\ session' = [session EXCEPT ![c] = s]
          /\ value' = value /\ fence' = fence /\ lease' = lease
      BY <1>1, <1>4 DEF GiveUp, Tell, IInv, TypeOK
    <2>2. /\ s \in Session /\ s.write = Own(c) /\ s.seen = session[c].seen
          /\ s.late = session[c].late /\ s.applied = session[c].applied
          /\ s.phase = "told" /\ s.told = "UNKNOWN"
      BY <1>1 DEF Session, Answers, Own
    <2> HIDE DEF s
    <2> QED
      BY <1>1, <2>1, <2>2, QuietStep
  <1> QED
    BY <1>2, <1>3, <1>4

-----------------------------------------------------------------------------
(***************************************************************************)
(* Requests that are applied.                                              *)
(***************************************************************************)
\* A request that finds its precondition was not applied before: the key
\* would have its body, or a newer lease.
LEMMA FirstTime ==
    ASSUME IInv, NEW c \in Clients,
           session[c].phase # "new", session[c].phase # "reconcile",
           session[c].phase = "told" => session[c].late > 0,
           value[Own(c).key] = Own(c).prior,
           Own(c).fenced => lease[c].fence = fence[Own(c).key]
    PROVE  session[c].applied = 0
  <1>1. CallerOK(c) /\ session[c] \in Session
    BY DEF IInv, TypeOK
  <1> SUFFICES ASSUME session[c].applied # 0 PROVE FALSE
    OBVIOUS
  <1>2. session[c].applied > 0 /\ session[c].phase \in {"retry", "told"}
    BY <1>1 DEF Session, CallerOK, SentOK
  <1>3. Own(c).fenced /\ Own(c).prior # Own(c).body
    BY <1>1, <1>2 DEF Session, CallerOK, SentOK
  <1>4. lease[c].fence < fence[Own(c).key]
    BY <1>1, <1>2, <1>3 DEF CallerOK, OnceOK
  <1>5. lease[c].fence \in Nat
    BY DEF IInv, TypeOK
  <1> QED
    BY <1>3, <1>4, <1>5

\* A request that is applied counts once, and stores its body.
LEMMA AppliedStep ==
    ASSUME IInv, NEW c \in Clients, NEW s \in Session, session[c].phase # "new",
           session[c].applied = 0,
           s.write = Own(c), s.seen = session[c].seen, s.applied = 1,
           \/ /\ s.late = session[c].late
              /\ \/ session[c].phase = "write" /\ s.phase \in {"reconcile", "told"}
                 \/ session[c].phase = "retry" /\ s.phase = "told"
           \/ s.late = session[c].late - 1 /\ s.phase = session[c].phase,
           s.told # "none" <=> s.phase = "told",
           value[Own(c).key] = Own(c).prior,
           Own(c).fenced => lease[c].fence = fence[Own(c).key],
           value' = [value EXCEPT ![Own(c).key] = Own(c).body],
           session' = [session EXCEPT ![c] = s],
           fence' = fence, lease' = lease
    PROVE  IInv'
  <1>1. TypeOK /\ CallerOK(c) /\ session[c] \in Session
    BY DEF IInv, TypeOK
  <1>2. session'[c] = s /\ Own(c)' = Own(c)
    BY <1>1 DEF TypeOK, Own
  <1>3. Own(c) \in Write
    BY <1>1 DEF CallerOK, WriteOK
  <1>4. s.phase # "new" /\ WriteOK(c)'
    BY <1>1, <1>2 DEF CallerOK, WriteOK
  <1>5. SentOK(c)'
    BY <1>1, <1>2 DEF CallerOK, SentOK, Session
  <1>6. LateOK(c)'
    <2>1. s.late > 0 => session[c].late > 0
      BY <1>1 DEF Session
    <2> QED
      BY <1>1, <1>2, <2>1 DEF CallerOK, LateOK
  <1>7. OnceOK(c)'
    <2>1. value'[Own(c).key] = Own(c).body
      BY <1>1, <1>3 DEF TypeOK, Write
    <2> QED
      BY <1>2, <2>1 DEF OnceOK
  <1>8. CallerOK(c)'
    BY <1>4, <1>5, <1>6, <1>7 DEF CallerOK
  <1>9. s.applied >= session[c].applied /\ s.applied > 0
    OBVIOUS
  <1> QED
    BY <1>4, <1>8, <1>9, CallerStep

\* The request is applied on arrival; the caller hears of it or reconciles.
LEMMA LandsStep == ASSUME IInv, NEW c \in Clients, Lands(c) PROVE IInv'
  <1>1. PICK result \in {"OK", "UNKNOWN"} :
            session' = [session EXCEPT ![c] = [Answered(c, result) EXCEPT !.applied = @ + 1]]
    BY DEF Lands
  <1>2. /\ Sending(c) /\ session[c].phase \in {"write", "retry"}
        /\ value[Own(c).key] = Own(c).prior
        /\ Own(c).fenced => lease[c].fence = fence[Own(c).key]
        /\ value' = [value EXCEPT ![Own(c).key] = Own(c).body]
        /\ fence' = fence /\ lease' = lease
    BY DEF Lands, Sending, Admitted, FenceOk, Apply
  <1>3. session[c].applied = 0
    BY <1>2, FirstTime
  <1> DEFINE a == Answered(c, result)
             s == [a EXCEPT !.applied = @ + 1]
  <1>4. /\ a \in Session /\ a.write = Own(c) /\ a.seen = session[c].seen
        /\ a.late = session[c].late /\ a.applied = 0
        /\ a.phase = IF result = "UNKNOWN" /\ session[c].phase = "write" THEN "reconcile"
                     ELSE "told"
        /\ a.told = IF result = "UNKNOWN" /\ session[c].phase = "write" THEN "none"
                    ELSE result
    BY <1>1, <1>2, <1>3, AnsweredIs DEF Answers
  <1> HIDE DEF a
  <1>5. /\ s \in Session /\ s.write = Own(c) /\ s.seen = session[c].seen
        /\ s.late = session[c].late /\ s.applied = 1
        /\ s.phase = a.phase /\ s.told = a.told
    BY <1>4 DEF Session
  <1>6. session' = [session EXCEPT ![c] = s]
    BY <1>1 DEF a
  <1> HIDE DEF s
  <1>7. s.told # "none" <=> s.phase = "told"
    BY <1>4, <1>5, <1>1
  <1> QED
    BY <1>2, <1>3, <1>4, <1>5, <1>6, <1>7, AppliedStep

\* A delayed request is applied, under the fence it was prepared on.
LEMMA LateLandsStep == ASSUME IInv, NEW c \in Clients, LateLands(c) PROVE IInv'
  <1>1. CallerOK(c) /\ session[c] \in Session
    BY DEF IInv, TypeOK
  <1>2. /\ session[c].late > 0 /\ session[c].phase # "new"
        /\ value[Own(c).key] = Own(c).prior
        /\ Own(c).fenced => lease[c].fence = fence[Own(c).key]
        /\ value' = [value EXCEPT ![Own(c).key] = Own(c).body]
        /\ fence' = fence /\ lease' = lease
    BY <1>1 DEF LateLands, CallerOK, SentOK, LateOK, Apply, Session
  <1> DEFINE s == [session[c] EXCEPT !.late = @ - 1, !.applied = @ + 1]
  <1>3. session' = [session EXCEPT ![c] = s]
    BY DEF LateLands, IInv, TypeOK
  <1>4. session[c].applied = 0
    <2>1. CASE session[c].phase = "reconcile"
      BY <1>1, <1>2, <2>1 DEF CallerOK, SentOK, Session
    <2>2. CASE session[c].phase # "reconcile"
      BY <1>2, <2>2, FirstTime
    <2> QED
      BY <2>1, <2>2
  <1>5. /\ s \in Session /\ s.write = Own(c) /\ s.seen = session[c].seen
        /\ s.late = session[c].late - 1 /\ s.applied = 1
        /\ s.phase = session[c].phase /\ s.told = session[c].told
    <2> DEFINE b == [session[c] EXCEPT !.late = @ - 1]
    <2>1. session[c].late - 1 \in 0..2
      BY <1>1, <1>2 DEF Session
    <2>2. /\ b \in Session /\ b.write = Own(c) /\ b.seen = session[c].seen
          /\ b.late = session[c].late - 1 /\ b.applied = 0
          /\ b.phase = session[c].phase /\ b.told = session[c].told
      BY <1>1, <1>4, <2>1 DEF Session, Own
    <2>3. s = [b EXCEPT !.applied = @ + 1]
      OBVIOUS
    <2> HIDE DEF b, s
    <2> QED
      BY <2>2, <2>3 DEF Session
  <1>6. s.told # "none" <=> s.phase = "told"
    BY <1>5 DEF IInv, TypeOK
  <1> HIDE DEF s
  <1> QED
    BY <1>2, <1>3, <1>4, <1>5, <1>6, AppliedStep

\* A request that is delayed while its precondition holds has not been applied
\* before, so it is the first or the second that is on its way.
LEMMA IsDelayedStep == ASSUME IInv, NEW c \in Clients, IsDelayed(c) PROVE IInv'
  <1>1. TypeOK /\ CallerOK(c) /\ session[c] \in Session
    BY DEF IInv, TypeOK
  <1>2. /\ Sending(c) /\ session[c].phase \in {"write", "retry"}
        /\ value[Own(c).key] = Own(c).prior
        /\ Own(c).fenced => lease[c].fence = fence[Own(c).key]
        /\ value' = value /\ fence' = fence /\ lease' = lease
    BY DEF IsDelayed, Sending, Admitted, FenceOk
  <1>3. session[c].applied = 0
    BY <1>2, FirstTime
  <1>4. session[c].late \in {0, 1} /\ (session[c].phase = "write" => session[c].late = 0)
    BY <1>1, <1>2, <1>3 DEF CallerOK, SentOK, Session
  <1> DEFINE a == Answered(c, "UNKNOWN")
             s == [a EXCEPT !.late = @ + 1, !.seen = fence[Own(c).key]]
  <1>5. /\ a \in Session /\ a.write = Own(c)
        /\ a.late = session[c].late /\ a.applied = 0
        /\ a.phase = IF session[c].phase = "write" THEN "reconcile" ELSE "told"
        /\ a.told = IF session[c].phase = "write" THEN "none" ELSE "UNKNOWN"
    BY <1>2, <1>3, AnsweredIs DEF Answers
  <1>6. Own(c) \in Write /\ fence[Own(c).key] \in Nat
    BY <1>1, <1>2 DEF CallerOK, WriteOK, TypeOK, Write
  <1> HIDE DEF a
  <1>7. /\ s \in Session /\ s.write = Own(c) /\ s.seen = fence[Own(c).key]
        /\ s.late = session[c].late + 1 /\ s.applied = 0
        /\ s.phase = a.phase /\ s.told = a.told
    <2> DEFINE b == [a EXCEPT !.late = @ + 1]
    <2>1. session[c].late + 1 \in 0..2
      BY <1>4
    <2>2. /\ b \in Session /\ b.write = Own(c) /\ b.late = session[c].late + 1
          /\ b.applied = 0 /\ b.phase = a.phase /\ b.told = a.told
      BY <1>5, <2>1 DEF Session
    <2>3. s = [b EXCEPT !.seen = fence[Own(c).key]]
      OBVIOUS
    <2> HIDE DEF b, s
    <2> QED
      BY <1>6, <2>2, <2>3 DEF Session
  <1>8. session' = [session EXCEPT ![c] = s] /\ session'[c] = s /\ Own(c)' = Own(c)
    <2>1. session' = [session EXCEPT ![c] = s]
      BY DEF IsDelayed, a
    <2> QED
      BY <1>1, <1>7, <2>1 DEF TypeOK, Own
  <1> HIDE DEF s
  <1>9. CallerOK(c)'
    <2>1. WriteOK(c)'
      BY <1>1, <1>2, <1>5, <1>7, <1>8 DEF CallerOK, WriteOK
    <2>2. SentOK(c)'
      BY <1>1, <1>2, <1>4, <1>5, <1>7, <1>8 DEF CallerOK, SentOK
    <2>3. LateOK(c)' /\ OnceOK(c)'
      BY <1>2, <1>7, <1>8 DEF LateOK, OnceOK
    <2> QED
      BY <2>1, <2>2, <2>3 DEF CallerOK
  <1>10. /\ s.phase # "new" /\ (s.told # "none" <=> s.phase = "told") /\ s.told # "OK"
         /\ session[c].phase # "new" /\ s.applied >= session[c].applied
    BY <1>2, <1>3, <1>5, <1>7
  <1> QED
    BY <1>2, <1>7, <1>8, <1>9, <1>10, CallerStep

-----------------------------------------------------------------------------
\* Every step preserves the invariant.
LEMMA StepIInv == ASSUME IInv, [Next]_vars PROVE IInv'
  <1>1. ASSUME NEW c \in Clients,
               \/ Lock(c) \/ BeginWrite(c)
               \/ Lands(c) \/ IsDelayed(c) \/ IsLost(c) \/ Refused(c) \/ LateLands(c)
               \/ FindOwn(c) \/ Retry(c) \/ GiveUp(c)
        PROVE  IInv'
    BY <1>1, LockStep, BeginWriteStep, LandsStep, IsDelayedStep, IsLostStep, RefusedStep,
       LateLandsStep, ReconcileStep
  <1>2. CASE UNCHANGED vars
    BY <1>2 DEF vars, IInv, TypeOK, LeasesOK, CallerOK, WriteOK, SentOK, LateOK, OnceOK,
                StoredOK, OkMeansStored, Own
  <1> QED
    BY <1>1, <1>2 DEF Next

-----------------------------------------------------------------------------
\* For every set of keys, bodies and callers the invariant holds: what a caller
\* has sent is bounded by its write and one retry, a delayed update carries the
\* fence of its lease, and an applied one is visible or superseded.
THEOREM InductiveInvariant == Spec => []IInv
  BY InitIInv, StepIInv, PTL DEF Spec

\* The requests of a caller of reconcile() take effect at most once, however
\* late they arrive: the second finds the body of the first or a newer lease.
THEOREM RetryLandsOnce == Spec => []AppliedAtMostOnce
  <1>1. IInv => AppliedAtMostOnce
    BY DEF IInv, CallerOK, OnceOK, AppliedAtMostOnce
  <1> QED
    BY <1>1, InductiveInvariant, PTL

\* A caller that is told OK by persist() or by reconcile() was told so of a
\* body that some caller's request stored at that key.
THEOREM OkIsTrue == Spec => []OkMeansStored
  <1>1. IInv => OkMeansStored
    BY DEF IInv
  <1> QED
    BY <1>1, InductiveInvariant, PTL

-----------------------------------------------------------------------------
(***************************************************************************)
(* Every step is a step of the store contract, or none.                    *)
(***************************************************************************)
\* A request was prepared on a fence of the past.
SeenOK == \A c \in Clients : session[c].phase # "new" => session[c].seen <= fence[Own(c).key]

OpOf(s) == IF s.phase \in {"write", "retry"} THEN [stage |-> "open", write |-> s.write]
           ELSE [stage |-> "idle"]
Orphans == {Own(c) : c \in InFlight}

\* Caller c, alone, moves on to session s.
LEMMA SessionOf ==
    ASSUME IInv, NEW c \in Clients, NEW s, session' = [session EXCEPT ![c] = s]
    PROVE  /\ session'[c] = s /\ \A d \in Clients \ {c} : session'[d] = session[d]
           /\ [d \in Clients |-> OpOf(session[d])]'
                = [[d \in Clients |-> OpOf(session[d])] EXCEPT ![c] = OpOf(s)]
  BY DEF IInv, TypeOK, OpOf

\* An attempt ends: it landed, was refused or is lost, and nothing is on its way.
LEMMA Ended ==
    ASSUME IInv, NEW c \in Clients, Lands(c) \/ IsLost(c) \/ Refused(c)
    PROVE  \E s : /\ session' = [session EXCEPT ![c] = s]
                  /\ s.phase \in {"reconcile", "told"} /\ s.write = Own(c)
                  /\ s.seen = session[c].seen /\ s.late = session[c].late
  <1>1. CASE Lands(c)
    <2>1. PICK r \in Answers \ {"none"} :
            session' = [session EXCEPT ![c] = [Answered(c, r) EXCEPT !.applied = @ + 1]]
      BY <1>1 DEF Lands, Answers
    <2> DEFINE a == Answered(c, r)
               l0 == [a EXCEPT !.applied = @ + 1]
               l == [a EXCEPT !.applied = a.applied + 1]
    <2>2. session' = [session EXCEPT ![c] = l0]
      BY <2>1
    <2>3. /\ a \in Session /\ a.write = Own(c) /\ a.seen = session[c].seen
          /\ a.late = session[c].late /\ a.phase \in {"reconcile", "told"}
      BY <1>1, AnsweredIs DEF Lands
    <2> HIDE DEF a
    <2>4. l0 = l
      OBVIOUS
    <2> HIDE DEF l0
    <2>5. /\ l.write = a.write /\ l.seen = a.seen /\ l.late = a.late /\ l.phase = a.phase
      BY <2>3 DEF Session
    <2> HIDE DEF l
    <2> QED
      BY <2>2, <2>3, <2>4, <2>5
  <1>2. CASE IsLost(c) \/ Refused(c)
    <2>1. PICK r \in Answers \ {"none"} : session' = [session EXCEPT ![c] = Answered(c, r)]
      BY <1>2 DEF IsLost, Refused, Answers
    <2> DEFINE a == Answered(c, r)
    <2>2. session' = [session EXCEPT ![c] = a]
      BY <2>1
    <2>3. /\ a.write = Own(c) /\ a.seen = session[c].seen
          /\ a.late = session[c].late /\ a.phase \in {"reconcile", "told"}
      BY <1>2, AnsweredIs DEF IsLost, Refused
    <2> HIDE DEF a
    <2> QED
      BY <2>2, <2>3
  <1> QED
    BY <1>1, <1>2

\* An attempt ends with its request on its way, prepared on the fence of now.
LEMMA Delayed ==
    ASSUME IInv, NEW c \in Clients, IsDelayed(c)
    PROVE  \E s : /\ session' = [session EXCEPT ![c] = s]
                  /\ s.phase \in {"reconcile", "told"} /\ s.write = Own(c)
                  /\ s.seen = fence[Own(c).key]
  <1> DEFINE a == Answered(c, "UNKNOWN")
             d1 == [a EXCEPT !.late = a.late + 1]
             d == [d1 EXCEPT !.seen = fence[Own(c).key]]
             d0 == [a EXCEPT !.late = @ + 1, !.seen = fence[Own(c).key]]
  <1>1. session' = [session EXCEPT ![c] = d0]
    BY DEF IsDelayed
  <1>2. a \in Session /\ a.write = Own(c) /\ a.phase \in {"reconcile", "told"}
    BY AnsweredIs DEF IsDelayed, Answers
  <1> HIDE DEF a
  <1>3. d0 = d
    OBVIOUS
  <1> HIDE DEF d0
  <1>4. /\ d1.write = a.write /\ d1.phase = a.phase /\ DOMAIN d1 = DOMAIN NoSession
    BY <1>2 DEF Session, NoSession
  <1> HIDE DEF d1
  <1>5. /\ d.write = a.write /\ d.phase = a.phase /\ d.seen = fence[Own(c).key]
    BY <1>4 DEF NoSession
  <1> HIDE DEF d
  <1> QED
    BY <1>1, <1>2, <1>3, <1>5

\* What reconcile() tells, its retry, and a late request that lands.
LEMMA Told ==
    ASSUME IInv, NEW c \in Clients, FindOwn(c) \/ GiveUp(c)
    PROVE  \E s : /\ session' = [session EXCEPT ![c] = s] /\ s.write = Own(c)
                  /\ s.seen = session[c].seen /\ s.late = session[c].late /\ s.phase = "told"
  <1>1. session[c] \in Session /\ session[c].write = Own(c)
    BY DEF IInv, TypeOK, Own
  <1>2. PICK r : session' = [session EXCEPT ![c].phase = "told", ![c].told = r]
    BY DEF FindOwn, GiveUp, Tell
  <1> DEFINE s1 == [session[c] EXCEPT !.phase = "told"]
             s == [s1 EXCEPT !.told = r]
  <1>3. session' = [session EXCEPT ![c] = s]
    BY <1>2 DEF IInv, TypeOK
  <1>4. /\ s1.write = Own(c) /\ s1.seen = session[c].seen /\ s1.late = session[c].late
        /\ s1.phase = "told" /\ DOMAIN s1 = DOMAIN NoSession
    BY <1>1 DEF Session, NoSession
  <1> HIDE DEF s1
  <1>5. /\ s.write = Own(c) /\ s.seen = session[c].seen /\ s.late = session[c].late
        /\ s.phase = "told"
    BY <1>4 DEF NoSession
  <1> HIDE DEF s
  <1> QED
    BY <1>3, <1>5

LEMMA Retried ==
    ASSUME IInv, NEW c \in Clients, Retry(c)
    PROVE  \E s : /\ session' = [session EXCEPT ![c] = s] /\ s.write = Own(c)
                  /\ s.seen = session[c].seen /\ s.late = session[c].late /\ s.phase = "retry"
  <1> DEFINE s == [session[c] EXCEPT !.phase = "retry"]
  <1>1. session' = [session EXCEPT ![c] = s] /\ session[c] \in Session
    BY DEF Retry, IInv, TypeOK
  <1>2. /\ s.write = Own(c) /\ s.seen = session[c].seen /\ s.late = session[c].late
        /\ s.phase = "retry"
    BY <1>1 DEF Session, Own
  <1> HIDE DEF s
  <1> QED
    BY <1>1, <1>2

LEMMA Arrived ==
    ASSUME IInv, NEW c \in Clients, LateLands(c)
    PROVE  \E s : /\ session' = [session EXCEPT ![c] = s] /\ s.write = Own(c)
                  /\ s.seen = session[c].seen /\ s.phase = session[c].phase
                  /\ session[c].late > 0
  <1> DEFINE s1 == [session[c] EXCEPT !.late = session[c].late - 1]
             s == [s1 EXCEPT !.applied = session[c].applied + 1]
  <1>1. session' = [session EXCEPT ![c] = s] /\ session[c] \in Session /\ session[c].late > 0
    BY DEF LateLands, IInv, TypeOK
  <1>2. /\ s1.write = Own(c) /\ s1.seen = session[c].seen /\ s1.phase = session[c].phase
        /\ DOMAIN s1 = DOMAIN NoSession
    BY <1>1 DEF Session, NoSession, Own
  <1> HIDE DEF s1
  <1>3. /\ s.write = Own(c) /\ s.seen = session[c].seen /\ s.phase = session[c].phase
    BY <1>2 DEF NoSession
  <1> HIDE DEF s
  <1> QED
    BY <1>1, <1>3

-----------------------------------------------------------------------------
\* A caller that sends something has a write.
LEMMA OwnWrite ==
    ASSUME IInv, NEW c \in Clients, session[c].phase # "new"
    PROVE  /\ Own(c) \in Write /\ Own(c).key \in Keys /\ fence[Own(c).key] \in Nat
           /\ session[c].seen \in Nat
           /\ Own(c).fenced => lease[c].key = Own(c).key
  BY DEF IInv, CallerOK, WriteOK, Write, TypeOK, Session

\* A session that goes on carries a fence of the past.
LEMMA SeenStep ==
    ASSUME IInv, SeenOK, NEW c \in Clients, NEW s, session' = [session EXCEPT ![c] = s],
           fence' = fence,
           s.phase # "new" => s.seen <= fence[s.write.key]
    PROVE  SeenOK'
  BY SessionOf DEF SeenOK, Own

LEMMA NextSeen == ASSUME IInv, SeenOK, [Next]_vars PROVE SeenOK'
  <1>1. ASSUME NEW c \in Clients, Lock(c) PROVE SeenOK'
    <2>1. PICK k \in Keys : fence' = [fence EXCEPT ![k] = fence[k] + 1] /\ session' = session
      BY <1>1 DEF Lock
    <2> SUFFICES ASSUME NEW d \in Clients, session[d].phase # "new"
                 PROVE  session[d].seen <= fence'[Own(d).key]
      BY <2>1 DEF SeenOK, Own
    <2>2. /\ session[d].seen <= fence[Own(d).key] /\ session[d].seen \in Nat
          /\ Own(d).key \in Keys /\ fence[Own(d).key] \in Nat
      BY OwnWrite DEF SeenOK
    <2> QED
      BY <2>1, <2>2 DEF IInv, TypeOK
  <1>2. ASSUME NEW c \in Clients, BeginWrite(c) PROVE SeenOK'
    <2>1. PICK w \in Write :
            /\ session' = [session EXCEPT ![c] =
                 [phase |-> "write", write |-> w, seen |-> fence[w.key], late |-> 0,
                  told |-> "none", applied |-> 0]]
            /\ fence' = fence
      BY <1>2 DEF BeginWrite
    <2>2. PICK s : s = [phase |-> "write", write |-> w, seen |-> fence[w.key], late |-> 0,
                        told |-> "none", applied |-> 0]
      OBVIOUS
    <2>3. fence[w.key] \in Nat /\ s.seen = fence[w.key] /\ s.write = w
      BY <2>2 DEF IInv, TypeOK, Write
    <2>4. session' = [session EXCEPT ![c] = s] /\ s.seen <= fence[s.write.key]
      BY <2>1, <2>2, <2>3
    <2> QED
      BY <2>1, <2>4, SeenStep
  <1>3. ASSUME NEW c \in Clients, Lands(c) \/ IsLost(c) \/ Refused(c) \/ IsDelayed(c) PROVE SeenOK'
    <2>1. PICK s : /\ session' = [session EXCEPT ![c] = s] /\ s.write = Own(c)
                   /\ s.seen = session[c].seen \/ s.seen = fence[Own(c).key]
      BY <1>3, Ended, Delayed
    <2>2. fence' = fence /\ session[c].phase # "new"
      BY <1>3 DEF Lands, IsLost, Refused, IsDelayed, Sending
    <2>3. s.seen <= fence[s.write.key]
      BY <2>1, <2>2, OwnWrite DEF SeenOK
    <2> QED
      BY <2>1, <2>2, <2>3, SeenStep
  <1>4. ASSUME NEW c \in Clients, FindOwn(c) \/ GiveUp(c) \/ Retry(c) \/ LateLands(c) PROVE SeenOK'
    <2>1. PICK s : /\ session' = [session EXCEPT ![c] = s] /\ s.write = Own(c)
                   /\ s.seen = session[c].seen
      BY <1>4, Told, Retried, Arrived
    <2>2. fence' = fence /\ session[c].phase # "new"
      BY <1>4 DEF FindOwn, GiveUp, Retry, Reconciling, LateLands, IInv, CallerOK, SentOK, TypeOK,
                  Session
    <2>3. s.seen <= fence[s.write.key]
      BY <2>1, <2>2 DEF SeenOK
    <2> QED
      BY <2>1, <2>2, <2>3, SeenStep
  <1>5. CASE UNCHANGED vars
    BY <1>5 DEF vars, SeenOK, Own
  <1> QED
    BY <1>1, <1>2, <1>3, <1>4, <1>5 DEF Next

-----------------------------------------------------------------------------
\* The requests on their way, when caller c moves on to session s.
LEMMA OrphansOf ==
    ASSUME IInv, NEW c \in Clients, NEW s, session' = [session EXCEPT ![c] = s], fence' = fence,
           s.write = Own(c)
    PROVE  /\ Orphans' \subseteq Orphans \cup {Own(c)}
           /\ (s.late > 0 => session[c].late > 0 /\ s.seen = session[c].seen)
                => Orphans' \subseteq Orphans
           /\ s.late = session[c].late /\ s.seen = session[c].seen => Orphans' = Orphans
  <1>1. session'[c] = s /\ \A d \in Clients \ {c} : session'[d] = session[d]
    BY SessionOf
  <1>2. \A d \in Clients : Own(d)' = Own(d)
    BY <1>1 DEF Own
  <1>3. \A d \in Clients \ {c} : d \in InFlight' <=> d \in InFlight
    BY <1>1, <1>2 DEF InFlight
  <1>4. InFlight \in SUBSET Clients /\ InFlight' \in SUBSET Clients
    BY DEF InFlight
  <1>5. (s.late > 0 => session[c].late > 0 /\ s.seen = session[c].seen)
          => (c \in InFlight' => c \in InFlight)
    BY <1>1, <1>2 DEF InFlight
  <1>6. s.late = session[c].late /\ s.seen = session[c].seen
          => (c \in InFlight' <=> c \in InFlight)
    BY <1>1, <1>2 DEF InFlight
  <1> QED
    BY <1>2, <1>3, <1>4, <1>5, <1>6 DEF Orphans

\* A caller that sends has an open write; any other is idle.
LEMMA OpenOnly ==
    ASSUME NEW c
    PROVE  /\ Sending(c) => OpOf(session[c]) = [stage |-> "open", write |-> Own(c)]
           /\ ~Sending(c) => OpOf(session[c]) = [stage |-> "idle"]
  BY DEF OpOf, Sending, Own

\* The operations of the contract, while caller c moves on to session s.
Ops == [d \in Clients |-> IF Sending(d) THEN [stage |-> "open", write |-> Own(d)]
                          ELSE [stage |-> "idle"]]

LEMMA OpsBecome ==
    ASSUME IInv, NEW c \in Clients, NEW s, session' = [session EXCEPT ![c] = s]
    PROVE  /\ Ops' = [Ops EXCEPT ![c] = OpOf(s)]
           /\ Sending(c) => Ops[c] = [stage |-> "open", write |-> Own(c)]
           /\ ~Sending(c) => Ops[c] = [stage |-> "idle"]
  <1>1. Ops = [d \in Clients |-> OpOf(session[d])]
    BY OpenOnly DEF Ops
  <1>2. Ops' = [d \in Clients |-> OpOf(session'[d])]
    BY DEF Ops, OpOf, Sending, Own
  <1>3. [d \in Clients |-> OpOf(session'[d])]
          = [[d \in Clients |-> OpOf(session[d])] EXCEPT ![c] = OpOf(s)]
    BY SessionOf
  <1> QED
    BY <1>1, <1>2, <1>3, OpenOnly

LEMMA LockImpl == ASSUME IInv, SeenOK, NEW c \in Clients, Lock(c) PROVE Contract!Lock(c)
  <1>1. PICK k \in Keys : /\ fence' = [fence EXCEPT ![k] = fence[k] + 1]
                          /\ lease' = [lease EXCEPT ![c] = [key |-> k, fence |-> fence[k] + 1]]
    BY DEF Lock
  <1>2. value' = value /\ session' = session /\ ~Sending(c)
    BY DEF Lock, Sending
  <1>3. Ops' = Ops /\ Ops[c] = [stage |-> "idle"]
    BY <1>2 DEF Ops, Sending, Own
  <1>4. Orphans' \subseteq {o \in Orphans : o.key # k}
    <2> SUFFICES ASSUME NEW d \in InFlight' PROVE Own(d) \in Orphans /\ Own(d).key # k
      BY <1>2 DEF Orphans, Own
    <2>1. d \in Clients /\ session[d].late > 0 /\ session[d].seen = fence'[Own(d).key]
      BY <1>2 DEF InFlight, Own
    <2>2. session[d].phase # "new"
      BY <2>1 DEF IInv, CallerOK, SentOK, TypeOK, Session
    <2>3. /\ session[d].seen <= fence[Own(d).key] /\ session[d].seen \in Nat
          /\ Own(d).key \in Keys /\ fence[Own(d).key] \in Nat
      BY <2>1, <2>2, OwnWrite DEF SeenOK
    <2>4. Own(d).key # k
      BY <1>1, <2>1, <2>3 DEF IInv, TypeOK
    <2>5. session[d].seen = fence[Own(d).key]
      BY <1>1, <2>1, <2>3, <2>4 DEF IInv, TypeOK
    <2> QED
      BY <2>1, <2>4, <2>5 DEF Orphans, InFlight
  <1>5. Orphans' \subseteq Contract!Outrun(k)
    BY <1>4 DEF Contract!Outrun, Orphans
  <1> QED
    BY <1>1, <1>2, <1>3, <1>5 DEF Contract!Lock, Contract!Idle, Ops, Orphans

\* The write begins, or its retry.
LEMMA OpensImpl ==
    ASSUME IInv, NEW c \in Clients, BeginWrite(c) \/ Retry(c) PROVE Contract!BeginWrite(c)
  <1>1. PICK s : /\ session' = [session EXCEPT ![c] = s] /\ s.write \in Write
                 /\ s.phase \in {"write", "retry"} /\ Orphans' = Orphans
    <2>1. CASE BeginWrite(c)
      <3>1. PICK w \in Write :
              session' = [session EXCEPT ![c] =
                 [phase |-> "write", write |-> w, seen |-> fence[w.key], late |-> 0,
                  told |-> "none", applied |-> 0]]
        BY <2>1 DEF BeginWrite
      <3>2. PICK s : s = [phase |-> "write", write |-> w, seen |-> fence[w.key], late |-> 0,
                          told |-> "none", applied |-> 0]
        OBVIOUS
      <3>3. /\ session' = [session EXCEPT ![c] = s] /\ s.write = w /\ s.phase = "write"
            /\ s.late = 0
        BY <3>1, <3>2
      <3>4. session[c].phase = "new" /\ ~(session[c].late > 0) /\ fence' = fence
        BY <2>1 DEF BeginWrite, IInv, CallerOK, SentOK, TypeOK, Session
      <3>5. session'[c] = s /\ \A d \in Clients \ {c} : session'[d] = session[d]
        BY <3>3, SessionOf
      <3>6. c \notin InFlight /\ c \notin InFlight'
        BY <3>3, <3>4, <3>5 DEF InFlight
      <3>7. \A d \in Clients \ {c} : Own(d)' = Own(d) /\ (d \in InFlight' <=> d \in InFlight)
        BY <3>4, <3>5 DEF InFlight, Own
      <3>8. Orphans' = Orphans
        <4>1. \A d \in InFlight : d \in Clients \ {c}
          BY <3>6 DEF InFlight
        <4>2. \A d \in InFlight' : d \in Clients \ {c}
          BY <3>6 DEF InFlight
        <4> QED
          BY <3>7, <4>1, <4>2 DEF Orphans
      <3> QED
        BY <3>3, <3>8
    <2>2. CASE Retry(c)
      <3>1. PICK s : /\ session' = [session EXCEPT ![c] = s] /\ s.write = Own(c)
                     /\ s.seen = session[c].seen /\ s.late = session[c].late /\ s.phase = "retry"
        BY <2>2, Retried
      <3>2. Own(c) \in Write /\ fence' = fence
        BY <2>2, OwnWrite DEF Retry, Reconciling
      <3> QED
        BY <3>1, <3>2, OrphansOf
    <2> QED
      BY <2>1, <2>2
  <1>2. UNCHANGED <<value, fence, lease>> /\ ~Sending(c)
    BY DEF BeginWrite, Retry, Reconciling, Sending
  <1>3. Ops' = [Ops EXCEPT ![c] = [stage |-> "open", write |-> s.write]] /\ Ops[c] = [stage |-> "idle"]
    BY <1>1, <1>2, OpsBecome DEF OpOf
  <1>4. s.write \in Contract!Write
    BY <1>1 DEF Write, Contract!Write
  <1> QED
    BY <1>1, <1>2, <1>3, <1>4
    DEF Contract!BeginWrite, Contract!Idle, Contract!Open, Ops, Orphans

\* A caller that sends has opened a write, with the fence of its lease.
LEMMA Sends ==
    ASSUME IInv, NEW c \in Clients, Sending(c)
    PROVE  /\ Own(c) \in Write /\ Ops[c] = [stage |-> "open", write |-> Own(c)]
           /\ FenceOk(c) => Contract!FenceOk(c, Own(c))
  <1>1. session[c].phase # "new" /\ lease[c] \in [key: Keys \cup {None}, fence: Nat]
    BY DEF Sending, IInv, TypeOK
  <1>2. Own(c) \in Write /\ (Own(c).fenced => lease[c].key = Own(c).key)
    BY <1>1, OwnWrite
  <1>3. lease[c] = [key |-> lease[c].key, fence |-> lease[c].fence]
    BY <1>1
  <1> QED
    BY <1>2, <1>3 DEF Ops, FenceOk, Contract!FenceOk

LEMMA LandsImpl == ASSUME IInv, NEW c \in Clients, Lands(c) PROVE Contract!Land(c)
  <1>1. PICK s : /\ session' = [session EXCEPT ![c] = s]
                 /\ s.phase \in {"reconcile", "told"} /\ s.write = Own(c)
                 /\ s.seen = session[c].seen /\ s.late = session[c].late
    BY Ended
  <1>2. /\ Sending(c) /\ Admitted(c) /\ Apply(c) /\ UNCHANGED <<fence, lease>>
    BY DEF Lands
  <1>3. /\ Ops[c] = [stage |-> "open", write |-> Own(c)] /\ Contract!FenceOk(c, Own(c))
        /\ value[Own(c).key] = Own(c).prior
        /\ value' = [value EXCEPT ![Own(c).key] = Own(c).body]
    BY <1>2, Sends DEF Admitted, Apply
  <1>4. Ops' = [Ops EXCEPT ![c] = [stage |-> "idle"]]
    BY <1>1, OpsBecome DEF OpOf
  <1>5. Orphans' = Orphans
    BY <1>1, <1>2, OrphansOf
  <1>6. Orphans' \in SUBSET Contract!Outlive(Own(c).key)
    BY <1>5 DEF Contract!Outlive, Orphans
  <1>7. Contract!IsOpen(c) /\ Ops[c].write = Own(c)
    BY <1>3 DEF Contract!IsOpen, Ops
  <1> QED
    BY <1>2, <1>3, <1>4, <1>6, <1>7 DEF Contract!Land, Contract!Idle, Ops, Orphans

\* Refused or lost: the caller returns, and nothing has changed.
LEMMA ReturnImpl ==
    ASSUME IInv, NEW c \in Clients, IsLost(c) \/ Refused(c) PROVE Contract!Return(c)
  <1>1. PICK s : /\ session' = [session EXCEPT ![c] = s]
                 /\ s.phase \in {"reconcile", "told"} /\ s.write = Own(c)
                 /\ s.seen = session[c].seen /\ s.late = session[c].late
    BY Ended
  <1>2. Sending(c) /\ UNCHANGED <<value, fence, lease>>
    BY DEF IsLost, Refused
  <1>3. Ops' = [Ops EXCEPT ![c] = [stage |-> "idle"]] /\ Ops[c] # [stage |-> "idle"]
    <2>1. Ops' = [Ops EXCEPT ![c] = [stage |-> "idle"]]
      BY <1>1, OpsBecome DEF OpOf
    <2>2. Ops[c] = [stage |-> "open", write |-> Own(c)]
      BY <1>2, Sends
    <2> QED
      BY <2>1, <2>2
  <1>4. Orphans' = Orphans
    BY <1>1, <1>2, OrphansOf
  <1> QED
    BY <1>2, <1>3, <1>4 DEF Contract!Return, Contract!Idle, Ops, Orphans

LEMMA DelayImpl == ASSUME IInv, NEW c \in Clients, IsDelayed(c) PROVE Contract!Abandon(c)
  <1>1. PICK s : /\ session' = [session EXCEPT ![c] = s]
                 /\ s.phase \in {"reconcile", "told"} /\ s.write = Own(c)
    BY Delayed
  <1>2. Sending(c) /\ UNCHANGED <<value, fence, lease>>
    BY DEF IsDelayed
  <1>3. Ops' = [Ops EXCEPT ![c] = [stage |-> "idle"]]
    BY <1>1, OpsBecome DEF OpOf
  <1>4. Contract!IsOpen(c) /\ Ops[c].write = Own(c)
    BY <1>2, Sends DEF Contract!IsOpen, Ops
  <1>5. Orphans' \subseteq Orphans \cup {Own(c)}
    BY <1>1, <1>2, OrphansOf
  <1> QED
    BY <1>2, <1>3, <1>4, <1>5 DEF Contract!Abandon, Contract!Idle, Ops, Orphans

LEMMA ArrivalImpl == ASSUME IInv, NEW c \in Clients, LateLands(c) PROVE Contract!OrphanLands
  <1>1. PICK s : /\ session' = [session EXCEPT ![c] = s] /\ s.write = Own(c)
                 /\ s.seen = session[c].seen /\ s.phase = session[c].phase
                 /\ session[c].late > 0
    BY Arrived
  <1>2. /\ session[c].seen = fence[Own(c).key] /\ value[Own(c).key] = Own(c).prior
        /\ value' = [value EXCEPT ![Own(c).key] = Own(c).body]
        /\ UNCHANGED <<fence, lease>>
    BY DEF LateLands, Apply
  <1>3. Own(c) \in Orphans
    BY <1>1, <1>2 DEF Orphans, InFlight
  <1>4. Orphans' \subseteq Orphans
    BY <1>1, <1>2, OrphansOf
  <1>5. Orphans' \in SUBSET Contract!Outlive(Own(c).key)
    BY <1>4 DEF Contract!Outlive, Orphans
  <1>6. Ops' = Ops
    <2>1. session'[c] = s /\ \A d \in Clients \ {c} : session'[d] = session[d]
      BY <1>1, SessionOf
    <2>2. \A d \in Clients : Own(d)' = Own(d) /\ (Sending(d)' <=> Sending(d))
      BY <1>1, <2>1 DEF Own, Sending
    <2> QED
      BY <2>2 DEF Ops
  <1> QED
    BY <1>2, <1>3, <1>5, <1>6 DEF Contract!OrphanLands, Ops, Orphans

\* What reconcile() finds and tells is nothing to the store.
LEMMA ToldImpl ==
    ASSUME IInv, NEW c \in Clients, FindOwn(c) \/ GiveUp(c) PROVE Contract!OrphansAreDropped
  <1>1. PICK s : /\ session' = [session EXCEPT ![c] = s] /\ s.write = Own(c)
                 /\ s.seen = session[c].seen /\ s.late = session[c].late /\ s.phase = "told"
    BY Told
  <1>2. ~Sending(c) /\ UNCHANGED <<value, fence, lease>>
    BY DEF FindOwn, GiveUp, Reconciling, Sending
  <1>3. Orphans' \in SUBSET Orphans
    BY <1>1, <1>2, OrphansOf
  <1>4. Ops' = Ops
    <2>1. session'[c] = s /\ \A d \in Clients \ {c} : session'[d] = session[d]
      BY <1>1, SessionOf
    <2>2. \A d \in Clients : Own(d)' = Own(d) /\ (Sending(d)' <=> Sending(d))
      BY <1>1, <1>2, <2>1 DEF Own, Sending
    <2> QED
      BY <2>2 DEF Ops
  <1> QED
    BY <1>2, <1>3, <1>4 DEF Contract!OrphansAreDropped, Ops, Orphans

LEMMA InitImpl == Init => Contract!Init
  <1> SUFFICES ASSUME Init PROVE Contract!Init
    OBVIOUS
  <1>1. \A c \in Clients : session[c] = NoSession /\ ~Sending(c) /\ c \notin InFlight
    BY DEF Init, NoSession, Sending, InFlight
  <1>2. Ops = [c \in Clients |-> [stage |-> "idle"]] /\ Orphans = {}
    BY <1>1 DEF Ops, Orphans, InFlight
  <1> QED
    BY <1>2 DEF Init, NoLease, Contract!Init, Contract!Idle, Contract!NoLease, Ops, Orphans

LEMMA NextImpl == ASSUME IInv, SeenOK, [Next]_vars PROVE [Contract!Next]_(Contract!vars)
  <1>1. ASSUME NEW c \in Clients, Lock(c) PROVE Contract!Next
    BY <1>1, LockImpl DEF Contract!Next
  <1>2. ASSUME NEW c \in Clients, BeginWrite(c) \/ Retry(c) PROVE Contract!Next
    BY <1>2, OpensImpl DEF Contract!Next
  <1>3. ASSUME NEW c \in Clients, Lands(c) PROVE Contract!Next
    BY <1>3, LandsImpl DEF Contract!Next
  <1>4. ASSUME NEW c \in Clients, IsLost(c) \/ Refused(c) PROVE Contract!Next
    BY <1>4, ReturnImpl DEF Contract!Next
  <1>5. ASSUME NEW c \in Clients, IsDelayed(c) PROVE Contract!Next
    BY <1>5, DelayImpl DEF Contract!Next
  <1>6. ASSUME NEW c \in Clients, LateLands(c) PROVE Contract!Next
    BY <1>6, ArrivalImpl DEF Contract!Next
  <1>7. ASSUME NEW c \in Clients, FindOwn(c) \/ GiveUp(c) PROVE Contract!Next
    BY <1>7, ToldImpl DEF Contract!Next
  <1>8. CASE UNCHANGED vars
    <2>1. Ops' = Ops /\ Orphans' = Orphans
      BY <1>8 DEF vars, Ops, Orphans, InFlight, Own, Sending
    <2> QED
      BY <1>8, <2>1 DEF vars, Contract!vars, Ops, Orphans
  <1> QED
    BY <1>1, <1>2, <1>3, <1>4, <1>5, <1>6, <1>7, <1>8 DEF Next

\* A caller of persist() and reconcile() asks of the store nothing but what
\* the contract of its adapters lets happen: every step of this module, with
\* requests late or lost, is a step of StoreContract or leaves it unchanged.
THEOREM RefinesContract == Spec => ImplementsContract
  <1>1. Init => SeenOK
    BY DEF Init, NoSession, SeenOK
  <1>2. IInv /\ SeenOK /\ [Next]_vars => SeenOK'
    BY NextSeen
  <1>3. IInv /\ SeenOK /\ [Next]_vars => [Contract!Next]_(Contract!vars)
    BY NextImpl
  <1>4. Spec => []IInv
    BY InductiveInvariant
  <1> QED
    BY <1>1, <1>2, <1>3, <1>4, InitImpl, PTL DEF Spec, ImplementsContract, Contract!Spec
=============================================================================
