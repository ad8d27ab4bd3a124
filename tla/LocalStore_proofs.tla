-------------------------- MODULE LocalStore_proofs --------------------------
(* Proofs about LocalStore, for every number of processes, threads, keys   *)
(* and bodies, every bound, and every interleaving of crashes.             *)
EXTENDS LocalStoreRefinement, FiniteSetTheorems, TLAPS

-----------------------------------------------------------------------------
(* Type correctness.                                                       *)


\* The constant records have their types.
LEMMA NullTypes ==
    /\ NoBlob \in Blob /\ NoOwner \in Owner /\ Released \in Advisory
    /\ NoPlan \in [Keys -> Nat] /\ NoLease \in Lease /\ NoCall \in Call
    /\ Torn \in Record
<1>1. NoBlob \in Blob
  BY DEF NoBlob, Blob
<1>2. NoOwner \in Owner
  BY DEF NoOwner, Owner
<1>3. NoCall \in Call
  BY <1>1, <1>2 DEF NoCall, Call
<1>4. Released \in Advisory
  BY DEF Released, Advisory
<1>5. NoPlan \in [Keys -> Nat]
  BY DEF NoPlan
<1>6. NoLease \in Lease
  BY DEF NoLease, Lease
<1>7. Torn \in Record
  BY DEF Torn, Record
<1> QED
  BY <1>1, <1>2, <1>3, <1>4, <1>5, <1>6, <1>7

\* What the actions assign to call keeps its type.
LEMMA CallTypes ==
    ASSUME NEW f \in [Clients -> Call], NEW c \in Clients
    PROVE  /\ [f EXCEPT ![c] = NoCall] \in [Clients -> Call]
           /\ [f EXCEPT ![c].polls = @ + 1] \in [Clients -> Call]
           /\ \A o \in Owner : [f EXCEPT ![c].own = o] \in [Clients -> Call]
           /\ \A o \in Owner, s \in {"pending", "consumed", "expired"} :
                 [f EXCEPT ![c].own = o, ![c].settle = s] \in [Clients -> Call]
<1>1. [f EXCEPT ![c] = NoCall] \in [Clients -> Call]
  BY NullTypes
<1>2. [f EXCEPT ![c].polls = @ + 1] \in [Clients -> Call]
  BY DEF Call
<1>3. ASSUME NEW o \in Owner PROVE [f EXCEPT ![c].own = o] \in [Clients -> Call]
  BY DEF Call
<1>4. ASSUME NEW o \in Owner, NEW s \in {"pending", "consumed", "expired"}
      PROVE  [f EXCEPT ![c].own = o, ![c].settle = s] \in [Clients -> Call]
  BY DEF Call
<1> QED
  BY <1>1, <1>2, <1>3, <1>4

\* ... and so does the call a write() begins with.
LEMMA BeginCallTypes ==
    ASSUME NEW k \in Keys, NEW b \in Bodies, NEW e \in Bodies \cup {Empty, None},
           NEW cur \in Blob, NEW own \in Owner
    PROVE  [NoCall EXCEPT !.key = k, !.body = b, !.expected = e, !.cur = cur, !.own = own] \in Call
BY NullTypes DEF Call

LEMMA InitTypeOK == Init => TypeOK
<1> SUFFICES ASSUME Init PROVE TypeOK
  OBVIOUS
<1>1. FilesOK
  BY NullTypes DEF Init, FilesOK
<1>2. InstancesOK
  <2>1. NoPlan \in [Keys -> 0..Len(journal)]
    BY DEF Init, NoPlan
  <2> QED
    BY <2>1 DEF Init, InstancesOK
<1>3. CallsOK
  BY NullTypes DEF Init, CallsOK, Pcs, CasPcs, CommitPcs
<1> QED
  BY <1>1, <1>2, <1>3, NullTypes DEF Init, TypeOK, LocksOK, CountersOK

\* A client returns.
LEMMA ReturnOK ==
    ASSUME CallsOK, NEW c \in Clients, Return(c)
    PROVE  CallsOK'
<1>1. pc' = [pc EXCEPT ![c] = "idle"] /\ call' = [call EXCEPT ![c] = NoCall]
  BY DEF Return, Goto
<1>2. pc' \in [Clients -> Pcs]
  BY <1>1 DEF CallsOK, Pcs
<1>3. call' \in [Clients -> Call]
  BY <1>1, CallTypes DEF CallsOK
<1>4. ASSUME NEW d \in Clients, pc'[d] # "idle"
      PROVE  pc'[d] = pc[d] /\ call'[d] = call[d]
  BY <1>1, <1>4 DEF CallsOK
<1> QED
  BY <1>1, <1>2, <1>3, <1>4 DEF CallsOK, CasPcs, CommitPcs

\* A client goes on to another point of its call.
LEMMA GotoOK ==
    ASSUME CallsOK, NEW c \in Clients, NEW label \in Pcs, Goto(c, label), UNCHANGED call,
           pc[c] # "idle", label \in CasPcs => pc[c] \in CasPcs
    PROVE  CallsOK'
<1>1. pc' = [pc EXCEPT ![c] = label]
  BY DEF Goto
<1>2. pc' \in [Clients -> Pcs]
  BY <1>1 DEF CallsOK
<1> QED
  BY <1>1, <1>2 DEF CallsOK

\* A client begins a call, or goes on after changing its local variables.
LEMMA GotoWithOK ==
    ASSUME CallsOK, NEW c \in Clients, NEW label \in Pcs, Goto(c, label),
           call' \in [Clients -> Call], call'[c].key \in Keys,
           label \in CasPcs => call'[c].body \in Bodies,
           \A d \in Clients \ {c} : call'[d] = call[d]
    PROVE  CallsOK'
<1>1. pc' = [pc EXCEPT ![c] = label]
  BY DEF Goto
<1>2. pc' \in [Clients -> Pcs]
  BY <1>1 DEF CallsOK
<1> QED
  BY <1>1, <1>2 DEF CallsOK

\* The steps of a write() keep the types.
LEMMA WriteTypeOK ==
    ASSUME TypeOK, NEW c \in Clients,
           \/ BeginCreate(c) \/ BeginUpdate(c)
           \/ AdmitWrite(c) \/ RepeatCreate(c) \/ RefuseWrite(c) \/ LoseFence(c)
           \/ AppendRecord(c) \/ ReserveName(c) \/ ReplaceBlob(c) \/ GiveUpReplace(c)
           \/ FinishWrite(c) \/ SettleFence(c) \/ SettleHash(c)
    PROVE  TypeOK'
<1> USE DEF TypeOK, LocksOK, CountersOK, files, locks, insts, locals, hist
<1>labels. {"w_decide", "w_append", "w_reserve", "w_replace", "w_sync", "s_fence", "s_hash"} \subseteq Pcs
           /\ {"w_decide", "w_append", "w_reserve", "w_replace", "w_sync"} \subseteq CasPcs
           /\ "s_fence" \notin CasPcs /\ "s_hash" \notin CasPcs
  BY DEF Pcs, CasPcs, CommitPcs, SettlePcs
<1>len. Len(journal) \in Nat
  BY DEF FilesOK
<1>1. ASSUME NEW k \in Keys, NEW b \in Bodies, NEW e \in Bodies \cup {Empty, None},
             BeginWrite(c, k, b, e)
      PROVE  TypeOK'
  <2> DEFINE r == [NoCall EXCEPT !.key = k, !.body = b, !.expected = e,
                                 !.cur = published[k], !.own = owner[k]]
  <2>1. r \in Call /\ r.key = k /\ r.body = b
    BY BeginCallTypes, NullTypes DEF Call, FilesOK
  <2>2. call' = [call EXCEPT ![c] = r]
    BY <1>1 DEF BeginWrite
  <2> HIDE DEF r
  <2>3. call' \in [Clients -> Call] /\ call'[c] = r /\ \A d \in Clients \ {c} : call'[d] = call[d]
    BY <2>1, <2>2 DEF CallsOK
  <2>4. CallsOK'
    BY <1>1, <1>labels, <2>1, <2>3, GotoWithOK DEF BeginWrite
  <2> QED
    BY <1>1, <2>4 DEF BeginWrite, TakeCasLock, FilesOK, InstancesOK
<1>2. CASE BeginCreate(c) \/ BeginUpdate(c)
  BY <1>1, <1>2 DEF BeginCreate, BeginUpdate
<1>3. CASE AdmitWrite(c)
  <2>1. CallsOK'
    BY <1>3, <1>labels, GotoOK DEF AdmitWrite
  <2> QED
    BY <1>3, <2>1 DEF AdmitWrite, FilesOK, InstancesOK
<1>4. CASE RepeatCreate(c)
  <2>1. CallsOK'
    BY <1>4, ReturnOK DEF RepeatCreate
  <2>2. call[c].cur.pos \in Nat
    BY DEF CallsOK, Call, Blob
  <2> QED
    BY <1>4, <2>1, <2>2 DEF RepeatCreate, FilesOK, InstancesOK
<1>5. CASE RefuseWrite(c)
  <2>1. CallsOK'
    BY <1>5, ReturnOK DEF RefuseWrite
  <2> QED
    BY <1>5, <2>1 DEF RefuseWrite, FilesOK, InstancesOK
<1>6. CASE LoseFence(c)
  <2>1. CallsOK'
    BY <1>6, <1>labels, GotoOK DEF LoseFence
  <2> QED
    BY <1>6, <2>1 DEF LoseFence, FilesOK, InstancesOK
<1>7. CASE AppendRecord(c)
  <2>1. RecordOf(c) \in Record
    BY <1>7, <1>labels DEF AppendRecord, RecordOf, FenceToAccept, Record, CallsOK, Call, Blob, Lease
  <2>2. journal' \in Seq(Record)
    BY <1>7, <2>1 DEF AppendRecord, FilesOK
  <2>3. CallsOK'
    BY <1>7, <1>labels, GotoOK DEF AppendRecord
  <2>4. \A n \in 0..Len(journal) : n \in 0..Len(journal')
    BY <1>7, <1>len, <2>1 DEF AppendRecord, FilesOK
  <2>5. InstancesOK'
    BY <1>7, <2>4 DEF AppendRecord, InstancesOK
  <2> QED
    BY <1>7, <2>2, <2>3, <2>5 DEF AppendRecord, FilesOK
<1>8. CASE ReserveName(c)
  <2>1. [body |-> Empty, pos |-> 0] \in Blob
    BY DEF Blob
  <2>2. CallsOK'
    BY <1>8, <1>labels, GotoOK DEF ReserveName
  <2> QED
    BY <1>8, <2>1, <2>2 DEF ReserveName, FilesOK, InstancesOK
<1>9. CASE ReplaceBlob(c)
  <2>1. [body |-> call[c].body, pos |-> Len(journal)] \in Blob
    BY <1>9, <1>len, <1>labels DEF ReplaceBlob, Blob, CallsOK
  <2>2. CallsOK'
    BY <1>9, <1>labels, GotoOK DEF ReplaceBlob
  <2> QED
    BY <1>9, <2>1, <2>2 DEF ReplaceBlob, FilesOK, InstancesOK
<1>10. CASE GiveUpReplace(c)
  <2>1. CallsOK'
    BY <1>10, ReturnOK DEF GiveUpReplace
  <2> QED
    BY <1>10, <1>len, <2>1 DEF GiveUpReplace, FilesOK, InstancesOK
<1>11. CASE FinishWrite(c)
  <2>1. FenceToAccept(c) \in Nat
    BY DEF FenceToAccept, Lease
  <2>2. accepted' \in [Instances -> [Keys -> Nat]]
    BY <1>11, <2>1, ShapeAssumption DEF FinishWrite, Caller, InstancesOK
  <2>3. disk' \in [Keys -> Blob]
    BY <1>11, <1>labels DEF FinishWrite, FilesOK, CallsOK
  <2>4. CallsOK'
    BY <1>11, ReturnOK DEF FinishWrite
  <2> QED
    BY <1>11, <1>len, <2>2, <2>3, <2>4 DEF FinishWrite, FilesOK, InstancesOK
<1>12. CASE SettleFence(c)
  <2> DEFINE o == owner[call[c].key]
             s == IF o.fence <= accepted[Caller(c)][call[c].key] THEN "consumed"
                  ELSE IF o.expiry <= now THEN "expired" ELSE "pending"
  <2>1. o \in Owner /\ s \in {"pending", "consumed", "expired"}
    BY <1>12 DEF SettleFence, FilesOK, CallsOK
  <2>2. call' = [call EXCEPT ![c].own = o, ![c].settle = s]
    BY <1>12 DEF SettleFence
  <2> HIDE DEF o, s
  <2>3. call' \in [Clients -> Call]
    BY <2>1, <2>2, CallTypes DEF CallsOK
  <2>4. call'[c].key = call[c].key /\ \A d \in Clients \ {c} : call'[d] = call[d]
    BY <2>2 DEF CallsOK, Call
  <2>5. CallsOK'
    BY <1>12, <1>labels, <2>3, <2>4, GotoWithOK DEF SettleFence, CallsOK
  <2> QED
    BY <1>12, <2>5 DEF SettleFence, FilesOK, InstancesOK
<1>13. CASE SettleHash(c)
  <2>1. CASE Return(c)
    BY <1>13, <2>1, ReturnOK DEF SettleHash, FilesOK, InstancesOK
  <2>2. CASE Goto(c, "s_fence") /\ call' = [call EXCEPT ![c].polls = @ + 1]
    <3>1. call' \in [Clients -> Call]
      BY <2>2, CallTypes DEF CallsOK
    <3>2. call'[c].key = call[c].key /\ \A d \in Clients \ {c} : call'[d] = call[d]
      BY <2>2 DEF CallsOK, Call
    <3>3. CallsOK'
      BY <1>13, <2>2, <1>labels, <3>1, <3>2, GotoWithOK DEF SettleHash, CallsOK
    <3> QED
      BY <1>13, <3>3 DEF SettleHash, FilesOK, InstancesOK
  <2> QED
    BY <1>13, <2>1, <2>2 DEF SettleHash
<1> QED
  BY <1>2, <1>3, <1>4, <1>5, <1>6, <1>7, <1>8, <1>9, <1>10, <1>11, <1>12, <1>13

\* The advisory files keep their type, the replaced ones included.
LEMMA SetAdvisoryOK ==
    ASSUME FilesOK, NEW k \in Keys, NEW entry \in Advisory, SetAdvisory(k, entry)
    PROVE  advisory' \in [Keys -> Advisory] /\ older' \in [Keys -> SUBSET Advisory]
<1>1. advisory[k] \in Advisory /\ older[k] \in SUBSET Advisory
  BY DEF FilesOK
<1>2. older[k] \cup {advisory[k]} \in SUBSET Advisory
  BY <1>1
<1> QED
  BY <1>2 DEF FilesOK, SetAdvisory

\* The steps of lock(), renew() and unlock() keep the types.
LEMMA LockTypeOK ==
    ASSUME TypeOK, NEW c \in Clients,
           \/ BeginLock(c) \/ AllocateFence(c) \/ GiveUpLock(c) \/ GrantLock(c)
           \/ RenewOwner(c) \/ RenewAdvisory(c) \/ Unlock(c)
    PROVE  TypeOK'
<1> USE DEF TypeOK, LocksOK, CountersOK, files, locks, insts, locals, hist
<1>labels. GuardPcs \subseteq Pcs /\ GuardPcs \cap CasPcs = {} /\ "idle" \notin GuardPcs
           /\ GuardPcs = {"l_cas", "l_advisory", "r_advisory"}
  BY DEF Pcs, CasPcs, CommitPcs, GuardPcs
<1>ttl. \A ttl \in TTLs : now + ttl \in Nat
  <2>1. now \in Nat
    OBVIOUS
  <2>2. TTLs \subseteq Nat
    BY ShapeAssumption
  <2> QED
    BY <2>1, <2>2
<1>1. CASE BeginLock(c)
  <2> DEFINE o == [NoOwner EXCEPT !.token = tokens + 1]
  <2>1. PICK k \in Keys, ttl \in TTLs :
            call' = [call EXCEPT ![c] = [NoCall EXCEPT !.key = k, !.expiry = now + ttl, !.own = o]]
    BY <1>1 DEF BeginLock
  <2> DEFINE r == [NoCall EXCEPT !.key = k, !.expiry = now + ttl, !.own = o]
  <2>o. o \in Owner
    BY NullTypes DEF Owner
  <2> HIDE DEF o
  <2>2. r \in Call /\ r.key = k
    BY <1>ttl, <2>o, NullTypes DEF Call
  <2>3. call' = [call EXCEPT ![c] = r]
    BY <2>1
  <2> HIDE DEF r
  <2>4. call' \in [Clients -> Call] /\ call'[c] = r /\ \A d \in Clients \ {c} : call'[d] = call[d]
    BY <2>2, <2>3 DEF CallsOK
  <2>5. CallsOK'
    BY <1>1, <1>labels, <2>2, <2>4, GotoWithOK DEF BeginLock
  <2>6. tokens' = tokens + 1
    BY <1>1 DEF BeginLock
  <2>7. guard' = c /\ UNCHANGED <<now, files, casLock, insts, lease, crashes, hist>>
    BY <1>1 DEF BeginLock
  <2> QED
    BY <2>5, <2>6, <2>7 DEF FilesOK, InstancesOK
<1>2. CASE AllocateFence(c)
  <2> DEFINE k == call[c].key
             o == [token |-> call[c].own.token, expiry |-> call[c].expiry,
                   fence |-> NextFence(c, k)]
  <2>1. k \in Keys
    BY <1>2 DEF AllocateFence, CallsOK
  <2>2. owner[k].fence \in Nat
    BY <2>1 DEF FilesOK, Owner
  <2>3. accepted[Caller(c)][k] \in Nat
    BY <2>1, ShapeAssumption DEF InstancesOK, Caller
  <2>f. NextFence(c, k) \in Nat
    BY <2>2, <2>3 DEF NextFence, Larger
  <2>4. call[c].own.token \in Nat /\ call[c].expiry \in Nat
    BY DEF CallsOK, Call, Owner
  <2>5. o \in Owner
    BY <2>f, <2>4 DEF Owner
  <2>6. owner' = [owner EXCEPT ![k] = o] /\ call' = [call EXCEPT ![c].own = o]
    BY <1>2 DEF AllocateFence
  <2> HIDE DEF o
  <2>7. owner' \in [Keys -> Owner] /\ call' \in [Clients -> Call]
    BY <2>1, <2>5, <2>6, CallTypes DEF FilesOK, CallsOK
  <2>8. call'[c].key = k /\ \A d \in Clients \ {c} : call'[d] = call[d]
    BY <2>6 DEF CallsOK, Call
  <2>9. CallsOK'
    BY <1>2, <1>labels, <2>1, <2>7, <2>8, GotoWithOK DEF AllocateFence
  <2> QED
    BY <1>2, <2>7, <2>9 DEF AllocateFence, FilesOK, InstancesOK
<1>3. CASE GiveUpLock(c)
  <2>1. CallsOK'
    BY <1>3, ReturnOK DEF GiveUpLock
  <2> QED
    BY <1>3, <2>1 DEF GiveUpLock, FilesOK, InstancesOK
<1>4. CASE GrantLock(c)
  <2>1. call[c].own \in Owner /\ call[c].key \in Keys
    BY <1>4 DEF GrantLock, CallsOK, Call
  <2>2. /\ [token |-> call[c].own.token, expiry |-> call[c].own.expiry] \in Advisory
        /\ [key |-> call[c].key, token |-> call[c].own.token, fence |-> call[c].own.fence] \in Lease
    BY <2>1 DEF Owner, Advisory, Lease
  <2>3. /\ advisory' \in [Keys -> Advisory] /\ older' \in [Keys -> SUBSET Advisory]
        /\ lease' \in [Clients -> Lease]
    BY <1>4, <2>1, <2>2, SetAdvisoryOK DEF GrantLock
  <2>4. CallsOK'
    BY <1>4, ReturnOK DEF GrantLock
  <2> QED
    BY <1>4, <2>3, <2>4 DEF GrantLock, FilesOK, InstancesOK
<1>5. CASE RenewOwner(c)
  <2>1. PICK ttl \in TTLs :
            /\ owner' = [owner EXCEPT ![lease[c].key].expiry = now + ttl]
            /\ call' = [call EXCEPT ![c] = [NoCall EXCEPT !.key = lease[c].key, !.expiry = now + ttl]]
    BY <1>5 DEF RenewOwner
  <2>2. lease[c].key \in Keys
    BY <1>5 DEF RenewOwner, Holds
  <2>3. owner' \in [Keys -> Owner]
    BY <2>1, <1>ttl DEF FilesOK, Owner
  <2> DEFINE r == [NoCall EXCEPT !.key = lease[c].key, !.expiry = now + ttl]
  <2>4. r \in Call /\ r.key = lease[c].key
    BY <1>ttl, <2>2, NullTypes DEF Call
  <2>5. call' = [call EXCEPT ![c] = r]
    BY <2>1
  <2> HIDE DEF r
  <2>6. call' \in [Clients -> Call] /\ call'[c] = r /\ \A d \in Clients \ {c} : call'[d] = call[d]
    BY <2>4, <2>5 DEF CallsOK
  <2>7. CallsOK'
    BY <1>5, <1>labels, <2>2, <2>4, <2>6, GotoWithOK DEF RenewOwner
  <2> QED
    BY <1>5, <2>3, <2>7 DEF RenewOwner, FilesOK, InstancesOK
<1>6. CASE RenewAdvisory(c)
  <2>1. [token |-> lease[c].token, expiry |-> call[c].expiry] \in Advisory
    BY DEF Lease, CallsOK, Call, Advisory
  <2>2. advisory' \in [Keys -> Advisory] /\ older' \in [Keys -> SUBSET Advisory]
    <3>1. call[c].key \in Keys
      BY <1>6 DEF RenewAdvisory, CallsOK
    <3> QED
      BY <1>6, <2>1, <3>1, SetAdvisoryOK DEF RenewAdvisory
  <2>3. CallsOK'
    BY <1>6, ReturnOK DEF RenewAdvisory
  <2> QED
    BY <1>6, <2>2, <2>3 DEF RenewAdvisory, FilesOK, InstancesOK
<1>7. CASE Unlock(c)
  <2>1. advisory' \in [Keys -> Advisory] /\ older' \in [Keys -> SUBSET Advisory]
    BY <1>7, NullTypes, SetAdvisoryOK DEF Unlock, Holds
  <2>2. CallsOK'
    BY <1>7 DEF Unlock, CallsOK
  <2> QED
    BY <1>7, <2>1, <2>2 DEF Unlock, FilesOK, InstancesOK
<1> QED
  BY <1>1, <1>2, <1>3, <1>4, <1>5, <1>6, <1>7

\* Replay keeps a position of the journal that holds a record of the key, or 0.
LEMMA LatestType ==
    ASSUME NEW k \in Keys
    PROVE  /\ Latest(k) \in Positions \cup {0}
           /\ Latest(k) \in Positions => IsLatest(k, Latest(k))
<1>1. CASE \E p \in Positions : IsLatest(k, p)
  <2> DEFINE L == CHOOSE p \in Positions : IsLatest(k, p)
  <2>1. L \in Positions /\ IsLatest(k, L)
    BY <1>1
  <2>2. Latest(k) = L
    BY <1>1 DEF Latest
  <2> QED
    BY <2>1, <2>2
<1>2. CASE ~\E p \in Positions : IsLatest(k, p)
  BY <1>2 DEF Latest, Positions
<1> QED
  BY <1>1, <1>2

\* The death of processes keeps the types of what lives in memory.
LEMMA ForgetOK ==
    ASSUME TypeOK, NEW dead \in SUBSET Instances, Forget(dead),
           \A n \in 0..Len(journal) : n \in 0..Len(journal')
    PROVE  LocksOK' /\ InstancesOK' /\ CallsOK' /\ lease' \in [Clients -> Lease]
<1> USE DEF TypeOK
<1>1. LocksOK'
  BY DEF Forget, LocksOK
<1>2. NoPlan \in [Keys -> 0..Len(journal')]
  BY DEF NoPlan, FilesOK
<1>3. InstancesOK'
  BY <1>2 DEF Forget, InstancesOK
<1>4. lease' \in [Clients -> Lease]
  BY NullTypes DEF Forget
<1>5. pc' \in [Clients -> Pcs] /\ call' \in [Clients -> Call]
  BY NullTypes DEF Forget, CallsOK, Pcs
<1>6. ASSUME NEW c \in Clients, pc'[c] # "idle"
      PROVE  pc'[c] = pc[c] /\ call'[c] = call[c]
  BY <1>6 DEF Forget
<1> QED
  BY <1>1, <1>3, <1>4, <1>5, <1>6 DEF CallsOK, CasPcs, CommitPcs

\* The steps of a constructor keep the types.
LEMMA ResumeTypeOK ==
    ASSUME TypeOK, NEW i \in Instances, StartInstance(i) \/ Resume(i)
    PROVE  TypeOK'
<1> USE DEF TypeOK, CountersOK, files, locks, insts, locals, hist
<1>len. Len(journal) \in Nat
  BY DEF FilesOK
<1>1. CASE StartInstance(i)
  <2>1. [k \in Keys |-> Latest(k)] \in [Keys -> 0..Len(journal)]
    BY <1>len, LatestType DEF Positions
  <2> QED
    BY <1>1, <2>1 DEF StartInstance, TakeCasLock, LocksOK, FilesOK, InstancesOK, CallsOK
<1>2. ASSUME NEW k \in Keys, Restoring(i, k)
      PROVE  /\ plan[i][k] \in 1..Len(journal)
             /\ journal[plan[i][k]] \in Record
             /\ JournaledBody(i, k) \in Bodies \cup {Absent}
             /\ journal[plan[i][k]].fence \in Nat
  <2>1. plan[i][k] \in 1..Len(journal)
    BY <1>2, <1>len DEF Restoring, InstancesOK
  <2>2. journal[plan[i][k]] \in Record
    BY <2>1 DEF FilesOK
  <2> QED
    BY <2>1, <2>2 DEF JournaledBody, Record
<1>3. ASSUME NEW k \in Keys, Restoring(i, k), Restored(i, k),
             UNCHANGED <<journal, istate>>, rkey' \in [Instances -> Keys \cup {None}]
      PROVE  InstancesOK'
  BY <1>2, <1>3, <1>len DEF Restored, InstancesOK
<1>4. ASSUME NEW k \in Keys, ResumeSkip(i, k) PROVE TypeOK'
  <2>1. published' = [published EXCEPT ![k].pos = plan[i][k]] /\ plan[i][k] \in Nat
    BY <1>2, <1>4, <1>len DEF ResumeSkip
  <2>2. published' \in [Keys -> Blob]
    BY <2>1 DEF FilesOK, Blob
  <2>3. InstancesOK'
    BY <1>3, <1>4 DEF ResumeSkip, InstancesOK
  <2> QED
    BY <1>4, <2>2, <2>3 DEF ResumeSkip, LocksOK, FilesOK, CallsOK
<1>5. ASSUME NEW k \in Keys, ResumeReserve(i, k) PROVE TypeOK'
  <2>1. [body |-> Empty, pos |-> 0] \in Blob
    BY DEF Blob
  <2> QED
    BY <1>5, <2>1 DEF ResumeReserve, LocksOK, FilesOK, InstancesOK, CallsOK
<1>6. ASSUME NEW k \in Keys, ResumeReplace(i, k) PROVE TypeOK'
  <2>1. [body |-> JournaledBody(i, k), pos |-> plan[i][k]] \in Blob
    BY <1>2, <1>6, <1>len DEF ResumeReplace, Blob
  <2> QED
    BY <1>6, <2>1 DEF ResumeReplace, LocksOK, FilesOK, InstancesOK, CallsOK
<1>7. ASSUME NEW k \in Keys, ResumeSync(i, k) PROVE TypeOK'
  <2>1. disk' \in [Keys -> Blob]
    BY <1>7 DEF ResumeSync, FilesOK
  <2>2. rkey' \in [Instances -> Keys \cup {None}]
    BY <1>7 DEF ResumeSync, InstancesOK
  <2>3. InstancesOK'
    BY <1>3, <1>7, <2>2 DEF ResumeSync
  <2> QED
    BY <1>7, <2>1, <2>3 DEF ResumeSync, LocksOK, FilesOK, CallsOK
<1>8. CASE ResumeDone(i)
  BY <1>8 DEF ResumeDone, LocksOK, FilesOK, InstancesOK, CallsOK
<1> QED
  BY <1>1, <1>4, <1>5, <1>6, <1>7, <1>8 DEF Resume

\* Crashes and the clock keep the types.
LEMMA CrashTypeOK ==
    ASSUME TypeOK,
           \/ \E i \in Instances : ResumeFails(i) \/ Crash(i)
           \/ \E c \in Clients : CrashInAppend(c)
           \/ HostCrash
           \/ Tick
    PROVE  TypeOK'
<1> USE DEF TypeOK, CountersOK, files, locks, insts, locals, hist, CrashBudget
<1>len. Len(journal) \in Nat
  BY DEF FilesOK
<1>1. ASSUME NEW i \in Instances, ResumeFails(i) \/ Crash(i) PROVE TypeOK'
  <2>1. {i} \in SUBSET Instances /\ Forget({i}) /\ UNCHANGED <<now, files, tokens, hist>>
    BY <1>1 DEF ResumeFails, Crash
  <2>2. crashes' \in Nat
    BY <1>1 DEF ResumeFails, Crash
  <2> QED
    BY <2>1, <2>2, ForgetOK DEF FilesOK
<1>2. ASSUME NEW c \in Clients, CrashInAppend(c) PROVE TypeOK'
  <2>1. journal' \in Seq(Record) /\ \A n \in 0..Len(journal) : n \in 0..Len(journal')
    BY <1>2, <1>len, NullTypes DEF CrashInAppend, FilesOK
  <2>2. {Caller(c)} \in SUBSET Instances
    BY ShapeAssumption DEF Caller
  <2> QED
    BY <1>2, <2>1, <2>2, ForgetOK DEF CrashInAppend, FilesOK
<1>3. CASE HostCrash
  <2>1. published' \in [Keys -> Blob] /\ disk' \in [Keys -> Blob]
    BY <1>3 DEF HostCrash, FilesOK
  <2>2. \A k \in Keys : Kept(k) \subseteq Advisory
    BY DEF Kept, FilesOK
  <2>3. advisory' \in [Keys -> Advisory] /\ older' \in [Keys -> SUBSET Advisory]
    <3>1. PICK back \in [Keys -> UNION {Kept(k) : k \in Keys}] : advisory' = back
      BY <1>3 DEF HostCrash
    <3>2. UNION {Kept(k) : k \in Keys} \subseteq Advisory
      BY <2>2
    <3> QED
      BY <1>3, <3>1, <3>2 DEF HostCrash
  <2> QED
    BY <1>3, <2>1, <2>3, ForgetOK DEF HostCrash, FilesOK
<1>4. CASE Tick
  BY <1>4 DEF Tick, LocksOK, FilesOK, InstancesOK, CallsOK
<1> QED
  BY <1>1, <1>2, <1>3, <1>4

LEMMA NextTypeOK == TypeOK /\ [Next]_vars => TypeOK'
<1> SUFFICES ASSUME TypeOK, [Next]_vars PROVE TypeOK'
  OBVIOUS
<1>1. ASSUME NEW c \in Clients, Begin(c) \/ Continue(c) \/ CrashInAppend(c) PROVE TypeOK'
  BY <1>1, WriteTypeOK, LockTypeOK, CrashTypeOK DEF Begin, Continue
<1>2. ASSUME NEW i \in Instances, StartInstance(i) \/ Resume(i) \/ ResumeFails(i) \/ Crash(i)
      PROVE  TypeOK'
  BY <1>2, ResumeTypeOK, CrashTypeOK
<1>3. CASE HostCrash \/ Tick
  BY <1>3, CrashTypeOK
<1>4. CASE UNCHANGED vars
  BY <1>4 DEF vars, files, locks, insts, locals, hist,
              TypeOK, LocksOK, FilesOK, InstancesOK, CallsOK, CountersOK
<1> QED
  BY <1>1, <1>2, <1>3, <1>4 DEF Next

\* Type correctness: every call that is under way has a key and every write()
\* a body, and a constructor only restores positions the journal has.
THEOREM TypeCorrect == Spec => []TypeOK
BY InitTypeOK, NextTypeOK, PTL DEF Spec

-----------------------------------------------------------------------------
(* The inductive invariant behind the fence properties.                    *)

\* cas.lock is held by exactly the write() or the constructor that is inside it.
CasExclusive ==
    /\ \A c \in Clients : pc[c] \in CasPcs <=> casLock = c
    /\ \A i \in Instances : istate[i] = "resume" => casLock = i

\* What write() read of the owner file keeps naming the current fence until
\* it has decided: lock() advances the fence under cas.lock only.
SnapshotCurrent ==
    \A c \in Clients : pc[c] = "w_decide" => call[c].own.fence = owner[call[c].key].fence

\* An admitted Overwrite carries the current fence until it returns.
LeaseCurrent ==
    \A c \in Clients :
        pc[c] \in CommitPcs /\ call[c].expected # None
        => lease[c].fence = owner[call[c].key].fence

\* The last record is the one the write() past its append has appended.
RecordIsOwn ==
    \A c \in Clients :
        pc[c] \in {"w_reserve", "w_replace", "w_sync"}
        => /\ Len(journal) > 0
           /\ journal[Len(journal)].key = call[c].key
           /\ journal[Len(journal)].fence = FenceToAccept(c)

\* No journaled fence is ahead of the fence allocated for its key.
JournalBehindOwner ==
    \A p \in Positions :
        journal[p].key \in Keys => journal[p].fence <= owner[journal[p].key].fence

FenceInv == /\ CasExclusive /\ SnapshotCurrent /\ LeaseCurrent /\ RecordIsOwn
            /\ JournalBehindOwner /\ FencesNeverRegress

IInv == TypeOK /\ FenceInv

LEMMA InitFenceInv == Init => FenceInv
BY SentinelAssumption
   DEF Init, FenceInv, CasExclusive, SnapshotCurrent, LeaseCurrent, RecordIsOwn,
       JournalBehindOwner, FencesNeverRegress, Positions, CasPcs, CommitPcs

\* Only one write() is under cas.lock, and no lock() advances the fence then.
LEMMA CasAlone ==
    ASSUME FenceInv, NEW c \in Clients, pc[c] \in CasPcs
    PROVE  /\ casLock = c
           /\ \A d \in Clients \ {c} : pc[d] \notin CasPcs
           /\ \A i \in Instances : istate[i] # "resume"
BY SentinelAssumption DEF FenceInv, CasExclusive

\* A step of a client outside write()'s critical section.
LEMMA OutsideStep ==
    ASSUME FenceInv, NEW c \in Clients, pc[c] \notin CasPcs, pc'[c] \notin CasPcs,
           \A d \in Clients \ {c} : pc'[d] = pc[d] /\ call'[d] = call[d] /\ lease'[d] = lease[d],
           \A k \in Keys : owner'[k].fence = owner[k].fence,
           UNCHANGED <<casLock, journal, istate>>, CallsOK
    PROVE  FenceInv'
<1> USE DEF FenceInv
<1>1. CasExclusive'
  BY DEF CasExclusive
<1>2. SnapshotCurrent' /\ LeaseCurrent' /\ RecordIsOwn'
  BY DEF SnapshotCurrent, LeaseCurrent, RecordIsOwn, FenceToAccept, CallsOK, CasPcs, CommitPcs
<1>3. JournalBehindOwner' /\ FencesNeverRegress'
  BY DEF JournalBehindOwner, FencesNeverRegress, Positions
<1> QED
  BY <1>1, <1>2, <1>3

\* A write() releases cas.lock.
LEMMA LeaveStep ==
    ASSUME FenceInv, NEW c \in Clients, pc[c] \in CasPcs, pc'[c] \notin CasPcs,
           \A d \in Clients \ {c} : pc'[d] = pc[d],
           casLock' = None, UNCHANGED <<journal, owner, istate>>
    PROVE  FenceInv'
<1> USE DEF FenceInv
<1>1. \A d \in Clients : pc'[d] \notin CasPcs
  BY CasAlone
<1>2. CasExclusive'
  BY <1>1, CasAlone, SentinelAssumption DEF CasExclusive
<1>3. SnapshotCurrent' /\ LeaseCurrent' /\ RecordIsOwn'
  BY <1>1 DEF SnapshotCurrent, LeaseCurrent, RecordIsOwn, CasPcs, CommitPcs
<1>4. JournalBehindOwner' /\ FencesNeverRegress'
  BY DEF JournalBehindOwner, FencesNeverRegress, Positions
<1> QED
  BY <1>2, <1>3, <1>4

\* A write() goes on in its critical section without touching the journal.
LEMMA InsideStep ==
    ASSUME FenceInv, NEW c \in Clients, pc[c] \in CasPcs, pc'[c] \in CasPcs \ {"w_decide"},
           pc'[c] # "w_append" => pc[c] \in {"w_reserve", "w_replace", "w_sync"},
           pc'[c] = "w_append" /\ call[c].expected # None
               => lease[c].fence = owner[call[c].key].fence,
           \A d \in Clients \ {c} : pc'[d] = pc[d],
           UNCHANGED <<call, lease, casLock, journal, owner, istate>>
    PROVE  FenceInv'
<1> USE DEF FenceInv
<1>1. CasExclusive'
  BY DEF CasExclusive
<1>2. \A d \in Clients \ {c} : pc'[d] \notin CasPcs
  BY CasAlone
<1>3. SnapshotCurrent' /\ LeaseCurrent' /\ RecordIsOwn'
  BY <1>2 DEF SnapshotCurrent, LeaseCurrent, RecordIsOwn, FenceToAccept, CasPcs, CommitPcs
<1>4. JournalBehindOwner' /\ FencesNeverRegress'
  BY DEF JournalBehindOwner, FencesNeverRegress, Positions
<1> QED
  BY <1>1, <1>3, <1>4

\* The write() in its critical section appends its record.
LEMMA AppendStep ==
    ASSUME IInv, NEW c \in Clients, AppendRecord(c)
    PROVE  FenceInv'
<1> USE DEF IInv, FenceInv
<1> DEFINE r == RecordOf(c)
<1>1. /\ journal \in Seq(Record) /\ Len(journal) \in Nat
      /\ call[c].key \in Keys /\ pc[c] = "w_append" /\ pc[c] \in CommitPcs /\ pc[c] \in CasPcs
  BY DEF TypeOK, FilesOK, CallsOK, AppendRecord, CasPcs, CommitPcs
<1>2. /\ journal' = Append(journal, r)
      /\ pc' = [pc EXCEPT ![c] = IF call[c].expected = None THEN "w_reserve" ELSE "w_replace"]
      /\ UNCHANGED <<call, lease, owner, casLock, istate>>
  BY DEF AppendRecord, Goto, locks, insts
<1>3. r.key = call[c].key /\ r.fence = FenceToAccept(c)
  BY DEF RecordOf
<1>4. r.fence = 0 \/ r.fence = owner[call[c].key].fence
  BY <1>1, <1>3 DEF FenceToAccept, LeaseCurrent
<1>5. r.fence \in Nat /\ \A k \in Keys : owner[k].fence \in Nat
  BY <1>3 DEF FenceToAccept, TypeOK, Lease, FilesOK, Owner
<1> HIDE DEF r
<1>6. /\ Len(journal') = Len(journal) + 1
      /\ journal'[Len(journal) + 1] = r
      /\ \A p \in Positions : journal'[p] = journal[p]
  BY <1>1, <1>2 DEF Positions
<1>7. \A d \in Clients \ {c} : pc'[d] = pc[d] /\ pc'[d] \notin CasPcs
  BY <1>1, <1>2, CasAlone DEF TypeOK, CallsOK
<1>8. pc'[c] \in {"w_reserve", "w_replace"}
  BY <1>2 DEF TypeOK, CallsOK
<1>9. CasExclusive'
  BY <1>1, <1>2, <1>7, <1>8 DEF CasExclusive, CasPcs, CommitPcs
<1>10. SnapshotCurrent' /\ LeaseCurrent'
  BY <1>1, <1>2, <1>7, <1>8 DEF SnapshotCurrent, LeaseCurrent, CasPcs, CommitPcs
<1>11. RecordIsOwn'
  BY <1>1, <1>2, <1>3, <1>6, <1>7, <1>8 DEF RecordIsOwn, FenceToAccept, CasPcs, CommitPcs
<1>12. Positions' = Positions \cup {Len(journal) + 1}
  BY <1>1, <1>6 DEF Positions
<1>13. JournalBehindOwner'
  <2> SUFFICES ASSUME NEW p \in Positions', journal'[p].key \in Keys
               PROVE  journal'[p].fence <= owner[journal'[p].key].fence
    BY <1>2 DEF JournalBehindOwner
  <2>1. CASE p \in Positions
    BY <1>6, <2>1 DEF JournalBehindOwner
  <2>2. CASE p = Len(journal) + 1
    BY <1>1, <1>3, <1>4, <1>5, <1>6, <2>2
  <2> QED
    BY <1>12, <2>1, <2>2
<1>14. FencesNeverRegress'
  <2> SUFFICES ASSUME NEW p \in Positions', NEW q \in Positions',
                      p < q, journal'[p].key \in Keys, journal'[p].key = journal'[q].key,
                      journal'[p].fence > 0, journal'[q].fence > 0
               PROVE  journal'[p].fence <= journal'[q].fence
    BY DEF FencesNeverRegress
  <2>1. p \in Positions
    BY <1>1, <1>12 DEF Positions
  <2>2. CASE q \in Positions
    BY <1>6, <2>1, <2>2 DEF FencesNeverRegress
  <2>3. CASE q = Len(journal) + 1
    BY <1>3, <1>4, <1>5, <1>6, <2>1, <2>3 DEF JournalBehindOwner
  <2> QED
    BY <1>12, <2>2, <2>3
<1> QED
  BY <1>9, <1>10, <1>11, <1>13, <1>14

\* lock() advances the fence while nobody is in write()'s critical section.
LEMMA AllocateStep ==
    ASSUME IInv, NEW c \in Clients, AllocateFence(c)
    PROVE  FenceInv'
<1> USE DEF IInv, FenceInv
<1> DEFINE k == call[c].key
<1>1. /\ casLock = None /\ UNCHANGED <<casLock, journal, istate>>
      /\ pc' = [pc EXCEPT ![c] = "l_advisory"]
      /\ k \in Keys
  BY DEF AllocateFence, OwnerMayAdvance, Goto, locks, insts, TypeOK, CallsOK
<1>2. \A d \in Clients : pc[d] \notin CasPcs
  BY <1>1, SentinelAssumption DEF CasExclusive
<1>3. \A d \in Clients : pc'[d] \notin CasPcs
  BY <1>1, <1>2 DEF TypeOK, CallsOK, CasPcs, CommitPcs
<1>4. \A x \in Keys : owner[x].fence \in Nat
  BY DEF TypeOK, FilesOK, Owner
<1>5. accepted[Caller(c)][k] \in Nat
  BY <1>1, ShapeAssumption DEF TypeOK, InstancesOK, Caller
<1>6. NextFence(c, k) \in Nat /\ NextFence(c, k) > owner[k].fence
  BY <1>1, <1>4, <1>5 DEF NextFence, Larger
<1>7. \A x \in Keys : owner'[x].fence >= owner[x].fence
  <2>1. owner' = [owner EXCEPT ![k] = [token |-> call[c].own.token, expiry |-> call[c].expiry,
                                       fence |-> NextFence(c, k)]]
    BY DEF AllocateFence
  <2>2. owner'[k].fence = NextFence(c, k)
    BY <1>1, <2>1 DEF TypeOK, FilesOK
  <2>3. \A x \in Keys \ {k} : owner'[x] = owner[x]
    BY <2>1 DEF TypeOK, FilesOK
  <2> QED
    BY <1>4, <1>6, <2>2, <2>3, <1>1
<1>8. CasExclusive'
  BY <1>1, <1>2, <1>3, SentinelAssumption DEF CasExclusive
<1>9. SnapshotCurrent' /\ LeaseCurrent' /\ RecordIsOwn'
  BY <1>3 DEF SnapshotCurrent, LeaseCurrent, RecordIsOwn, CasPcs, CommitPcs
<1>10. \A p \in Positions : journal[p].fence \in Nat
  <2> SUFFICES ASSUME NEW p \in Positions PROVE journal[p].fence \in Nat
    OBVIOUS
  <2>1. journal[p] \in Record
    BY DEF Positions, TypeOK, FilesOK
  <2> QED
    BY <2>1 DEF Record
<1>11. \A x \in Keys : owner'[x].fence \in Nat
  BY LockTypeOK DEF TypeOK, FilesOK, Owner
<1>12. JournalBehindOwner'
  BY <1>1, <1>4, <1>7, <1>10, <1>11 DEF JournalBehindOwner, Positions
<1>13. FencesNeverRegress'
  BY <1>1 DEF FencesNeverRegress, Positions
<1> QED
  BY <1>8, <1>9, <1>12, <1>13

\* The steps of a write() keep the invariant.
LEMMA WriteFenceInv ==
    ASSUME IInv, NEW c \in Clients,
           \/ BeginCreate(c) \/ BeginUpdate(c)
           \/ AdmitWrite(c) \/ RepeatCreate(c) \/ RefuseWrite(c) \/ LoseFence(c)
           \/ AppendRecord(c) \/ ReserveName(c) \/ ReplaceBlob(c) \/ GiveUpReplace(c)
           \/ FinishWrite(c) \/ SettleFence(c) \/ SettleHash(c)
    PROVE  FenceInv'
<1> USE DEF IInv, TypeOK, files, locks, insts, locals, hist
<1>pcs. /\ pc \in [Clients -> Pcs] /\ call \in [Clients -> Call] /\ CallsOK
        /\ CasPcs = {"w_decide", "w_append", "w_reserve", "w_replace", "w_sync"}
  BY DEF CallsOK, CasPcs, CommitPcs
<1>1. ASSUME NEW k \in Keys, NEW b \in Bodies, NEW e \in Bodies \cup {Empty, None},
             BeginWrite(c, k, b, e)
      PROVE  FenceInv'
  <2>1. /\ casLock = None /\ casLock' = c /\ UNCHANGED <<journal, owner, istate, lease>>
        /\ pc' = [pc EXCEPT ![c] = "w_decide"]
    BY <1>1 DEF BeginWrite, TakeCasLock, Goto
  <2>2. call'[c].key = k /\ call'[c].own = owner[k]
    BY <1>1, <1>pcs DEF BeginWrite, NoCall
  <2>3. \A d \in Clients \ {c} : pc'[d] = pc[d] /\ pc[d] \notin CasPcs
    BY <1>pcs, <2>1, SentinelAssumption DEF FenceInv, CasExclusive
  <2>4. \A i \in Instances : istate[i] # "resume"
    BY <2>1, SentinelAssumption DEF FenceInv, CasExclusive
  <2>5. CasExclusive'
    BY <1>pcs, <2>1, <2>3, <2>4 DEF CasExclusive
  <2>6. SnapshotCurrent' /\ LeaseCurrent' /\ RecordIsOwn'
    BY <1>pcs, <2>1, <2>2, <2>3 DEF SnapshotCurrent, LeaseCurrent, RecordIsOwn, CommitPcs
  <2>7. JournalBehindOwner' /\ FencesNeverRegress'
    BY <2>1 DEF FenceInv, JournalBehindOwner, FencesNeverRegress, Positions
  <2> QED
    BY <2>5, <2>6, <2>7 DEF FenceInv
<1>2. CASE BeginCreate(c) \/ BeginUpdate(c)
  BY <1>1, <1>2 DEF BeginCreate, BeginUpdate
<1>3. CASE AdmitWrite(c)
  <2>1. /\ pc[c] = "w_decide" /\ pc' = [pc EXCEPT ![c] = "w_append"]
        /\ UNCHANGED <<call, lease, casLock, journal, owner, istate>>
    BY <1>3 DEF AdmitWrite, Goto
  <2>2. call[c].expected # None => lease[c].fence = owner[call[c].key].fence
    BY <1>3, <2>1 DEF AdmitWrite, CreateAdmitted, UpdateAdmitted, FenceOk, FenceInv, SnapshotCurrent
  <2> QED
    BY <1>pcs, <2>1, <2>2, InsideStep
<1>4. CASE RepeatCreate(c) \/ RefuseWrite(c) \/ GiveUpReplace(c) \/ FinishWrite(c) \/ LoseFence(c)
  <2>1. /\ pc[c] \in CasPcs /\ casLock' = None /\ UNCHANGED <<journal, owner, istate>>
        /\ pc' = [pc EXCEPT ![c] = "idle"] \/ pc' = [pc EXCEPT ![c] = "s_fence"]
    BY <1>4, <1>pcs DEF RepeatCreate, RefuseWrite, GiveUpReplace, FinishWrite, LoseFence, Return, Goto
  <2> QED
    BY <1>pcs, <2>1, LeaveStep
<1>5. CASE AppendRecord(c)
  BY <1>5, AppendStep
<1>6. CASE ReserveName(c) \/ ReplaceBlob(c)
  <2>1. /\ pc[c] \in {"w_reserve", "w_replace"}
        /\ pc' = [pc EXCEPT ![c] = "w_replace"] \/ pc' = [pc EXCEPT ![c] = "w_sync"]
        /\ UNCHANGED <<call, lease, casLock, journal, owner, istate>>
    BY <1>6 DEF ReserveName, ReplaceBlob, Goto
  <2> QED
    BY <1>pcs, <2>1, InsideStep
<1>7. CASE SettleFence(c) \/ SettleHash(c)
  <2>1. /\ pc[c] \in {"s_fence", "s_hash"}
        /\ \/ pc' = [pc EXCEPT ![c] = "idle"]
           \/ pc' = [pc EXCEPT ![c] = "s_fence"]
           \/ pc' = [pc EXCEPT ![c] = "s_hash"]
        /\ UNCHANGED <<lease, casLock, journal, owner, istate>>
    BY <1>7 DEF SettleFence, SettleHash, Return, Goto
  <2>2. \A d \in Clients \ {c} : call'[d] = call[d]
    BY <1>7, <1>pcs DEF SettleFence, SettleHash, Return
  <2> QED
    BY <1>pcs, <2>1, <2>2, OutsideStep
<1> QED
  BY <1>2, <1>3, <1>4, <1>5, <1>6, <1>7

\* The steps of lock(), renew() and unlock() keep the invariant.
LEMMA LockFenceInv ==
    ASSUME IInv, NEW c \in Clients,
           \/ BeginLock(c) \/ AllocateFence(c) \/ GiveUpLock(c) \/ GrantLock(c)
           \/ RenewOwner(c) \/ RenewAdvisory(c) \/ Unlock(c)
    PROVE  FenceInv'
<1> USE DEF IInv, TypeOK, files, locks, insts, locals, hist
<1>pcs. /\ pc \in [Clients -> Pcs] /\ call \in [Clients -> Call] /\ CallsOK
        /\ lease \in [Clients -> Lease]
        /\ CasPcs = {"w_decide", "w_append", "w_reserve", "w_replace", "w_sync"}
  BY DEF CallsOK, CasPcs, CommitPcs
<1>1. CASE AllocateFence(c)
  BY <1>1, AllocateStep
<1>2. CASE BeginLock(c)
  <2>1. /\ pc[c] = "idle" /\ pc' = [pc EXCEPT ![c] = "l_cas"]
        /\ UNCHANGED <<lease, casLock, journal, owner, istate>>
    BY <1>2 DEF BeginLock, Idle, Goto
  <2>2. \A d \in Clients \ {c} : call'[d] = call[d]
    BY <1>2, <1>pcs DEF BeginLock
  <2> QED
    BY <1>pcs, <2>1, <2>2, OutsideStep
<1>3. CASE GiveUpLock(c) \/ GrantLock(c) \/ RenewAdvisory(c)
  <2>1. /\ pc[c] \in {"l_cas", "l_advisory", "r_advisory"} /\ pc' = [pc EXCEPT ![c] = "idle"]
        /\ UNCHANGED <<casLock, journal, owner, istate>>
    BY <1>3 DEF GiveUpLock, GrantLock, RenewAdvisory, Return, Goto
  <2>2. \A d \in Clients \ {c} : call'[d] = call[d] /\ lease'[d] = lease[d]
    BY <1>3, <1>pcs DEF GiveUpLock, GrantLock, RenewAdvisory, Return
  <2> QED
    BY <1>pcs, <2>1, <2>2, OutsideStep
<1>4. CASE RenewOwner(c)
  <2>1. /\ pc[c] = "idle" /\ pc' = [pc EXCEPT ![c] = "r_advisory"]
        /\ UNCHANGED <<lease, casLock, journal, istate>>
    BY <1>4 DEF RenewOwner, Idle, Goto
  <2>2. \A d \in Clients \ {c} : call'[d] = call[d]
    BY <1>4, <1>pcs DEF RenewOwner
  <2>3. \A k \in Keys : owner'[k].fence = owner[k].fence
    <3>1. PICK e : owner' = [owner EXCEPT ![lease[c].key].expiry = e]
      BY <1>4 DEF RenewOwner
    <3>2. owner \in [Keys -> Owner]
      BY DEF FilesOK
    <3> QED
      BY <3>1, <3>2 DEF Owner
  <2> QED
    BY <1>pcs, <2>1, <2>2, <2>3, OutsideStep
<1>5. CASE Unlock(c)
  <2>1. pc[c] = "idle" /\ UNCHANGED <<pc, call, lease, casLock, journal, owner, istate>>
    BY <1>5 DEF Unlock, Idle
  <2> QED
    BY <1>pcs, <2>1, OutsideStep
<1> QED
  BY <1>1, <1>2, <1>3, <1>4, <1>5

\* Constructors, crashes and the clock keep the invariant.
LEMMA ResumeFenceInv ==
    ASSUME IInv, NEW i \in Instances, StartInstance(i) \/ Resume(i)
    PROVE  FenceInv'
<1> USE DEF IInv, FenceInv, files, locks, insts, locals, hist
<1>1. /\ UNCHANGED <<journal, owner, pc, call, lease>>
      /\ \/ casLock = None /\ casLock' = i /\ istate' = [istate EXCEPT ![i] = "resume"]
         \/ UNCHANGED <<casLock, istate>>
         \/ istate[i] = "resume" /\ casLock' = None /\ istate' = [istate EXCEPT ![i] = "up"]
  BY DEF StartInstance, TakeCasLock, Resume, ResumeSkip, ResumeReserve, ResumeReplace,
         ResumeSync, ResumeDone
<1>2. CasExclusive'
  <2>1. istate \in [Instances -> {"down", "resume", "up"}]
    BY DEF TypeOK, InstancesOK
  <2>2. CASE casLock = None /\ casLock' = i /\ istate' = [istate EXCEPT ![i] = "resume"]
    BY <1>1, <2>1, <2>2, SentinelAssumption DEF CasExclusive
  <2>3. CASE UNCHANGED <<casLock, istate>>
    BY <1>1, <2>3 DEF CasExclusive
  <2>4. CASE istate[i] = "resume" /\ casLock' = None /\ istate' = [istate EXCEPT ![i] = "up"]
    <3>1. casLock = i /\ i \notin Clients
      BY <2>4, SentinelAssumption DEF CasExclusive
    <3>2. \A d \in Clients : pc[d] \notin CasPcs
      BY <3>1 DEF CasExclusive
    <3>3. \A j \in Instances : istate'[j] # "resume"
      BY <2>1, <2>4, <3>1 DEF CasExclusive
    <3> QED
      BY <1>1, <2>4, <3>2, <3>3, SentinelAssumption DEF CasExclusive
  <2> QED
    BY <1>1, <2>2, <2>3, <2>4
<1>3. SnapshotCurrent' /\ LeaseCurrent' /\ RecordIsOwn' /\ JournalBehindOwner' /\ FencesNeverRegress'
  BY <1>1 DEF SnapshotCurrent, LeaseCurrent, RecordIsOwn, FenceToAccept,
              JournalBehindOwner, FencesNeverRegress, Positions
<1> QED
  BY <1>2, <1>3

\* The death of processes keeps the parts that live in memory, whatever
\* journal it leaves to the clients that survive.
LEMMA ForgetFence ==
    ASSUME IInv, NEW dead \in SUBSET Instances, Forget(dead), UNCHANGED owner,
           \/ UNCHANGED journal
           \/ \A c \in Clients : pc[c] \in CasPcs => Caller(c) \in dead
    PROVE  CasExclusive' /\ SnapshotCurrent' /\ LeaseCurrent' /\ RecordIsOwn'
<1> USE DEF IInv, FenceInv
<1> DEFINE gone == dead \cup {c \in Clients : Caller(c) \in dead}
<1>1. \A c \in Clients : pc'[c] \in CasPcs =>
          c \notin gone /\ pc'[c] = pc[c] /\ call'[c] = call[c] /\ lease'[c] = lease[c]
  BY DEF Forget, CasPcs, CommitPcs
<1>2. \A c \in Clients \ gone : pc'[c] = pc[c]
  BY SentinelAssumption DEF Forget
<1>3. casLock' = IF casLock \in gone THEN None ELSE casLock
  BY DEF Forget
<1>4. \A c \in Clients : c \in gone => pc'[c] \notin CasPcs
  BY <1>1
<1>5. \A i \in Instances : istate'[i] = "resume" => istate[i] = "resume" /\ i \notin gone
  BY SentinelAssumption DEF Forget
<1>6. CasExclusive'
  <2>1. ASSUME NEW c \in Clients PROVE (pc[c] \in CasPcs <=> casLock = c)'
    BY <1>1, <1>2, <1>3, <1>4, SentinelAssumption DEF CasExclusive
  <2>2. ASSUME NEW i \in Instances, istate'[i] = "resume" PROVE casLock' = i
    BY <1>3, <1>5, <2>2 DEF CasExclusive
  <2> QED
    BY <2>1, <2>2 DEF CasExclusive
<1>7. SnapshotCurrent' /\ LeaseCurrent'
  BY <1>1 DEF SnapshotCurrent, LeaseCurrent, CasPcs, CommitPcs
<1>8. RecordIsOwn'
  BY <1>1 DEF RecordIsOwn, FenceToAccept, CasPcs, CommitPcs
<1> QED
  BY <1>6, <1>7, <1>8

LEMMA CrashFenceInv ==
    ASSUME IInv,
           \/ \E i \in Instances : ResumeFails(i) \/ Crash(i)
           \/ \E c \in Clients : CrashInAppend(c)
           \/ HostCrash
           \/ Tick
    PROVE  FenceInv'
<1> USE DEF files, locks, insts, locals, hist
<1>1. ASSUME UNCHANGED <<journal, owner>> PROVE JournalBehindOwner' /\ FencesNeverRegress'
  BY <1>1 DEF IInv, FenceInv, JournalBehindOwner, FencesNeverRegress, Positions
<1>2. ASSUME NEW i \in Instances, ResumeFails(i) \/ Crash(i) PROVE FenceInv'
  <2>1. Forget({i}) /\ UNCHANGED <<journal, owner>> /\ {i} \in SUBSET Instances
    BY <1>2 DEF ResumeFails, Crash
  <2> QED
    BY <1>1, <2>1, ForgetFence DEF FenceInv
<1>3. CASE HostCrash
  <2>1. Forget(Instances) /\ UNCHANGED <<journal, owner>>
    BY <1>3 DEF HostCrash
  <2> QED
    BY <1>1, <2>1, ForgetFence DEF FenceInv
<1>4. CASE Tick
  BY <1>1, <1>4 DEF Tick, IInv, FenceInv, CasExclusive, SnapshotCurrent, LeaseCurrent,
                    RecordIsOwn, FenceToAccept
<1>5. ASSUME NEW c \in Clients, CrashInAppend(c) PROVE FenceInv'
  <2>1. Forget({Caller(c)}) /\ UNCHANGED owner /\ {Caller(c)} \in SUBSET Instances
    BY <1>5, ShapeAssumption DEF CrashInAppend, Caller
  <2>2. \A d \in Clients : pc[d] \in CasPcs => d = c
    BY <1>5, CasAlone DEF CrashInAppend, CasPcs, CommitPcs, IInv
  <2>3. CasExclusive' /\ SnapshotCurrent' /\ LeaseCurrent' /\ RecordIsOwn'
    BY <2>1, <2>2, ForgetFence
  <2>4. journal \in Seq(Record) /\ journal' = Append(journal, Torn)
    BY <1>5 DEF CrashInAppend, IInv, TypeOK, FilesOK
  <2>5. /\ Positions' = Positions \cup {Len(journal) + 1}
        /\ \A p \in Positions : journal'[p] = journal[p]
        /\ journal'[Len(journal) + 1] = Torn
    BY <2>4 DEF Positions
  <2>6. Torn.key \notin Keys
    BY SentinelAssumption DEF Torn
  <2>7. JournalBehindOwner' /\ FencesNeverRegress'
    BY <2>1, <2>5, <2>6 DEF JournalBehindOwner, FencesNeverRegress, IInv, FenceInv
  <2> QED
    BY <2>3, <2>7 DEF FenceInv
<1> QED
  BY <1>2, <1>3, <1>4, <1>5

LEMMA NextIInv == IInv /\ [Next]_vars => IInv'
<1> SUFFICES ASSUME IInv, [Next]_vars PROVE FenceInv'
  BY NextTypeOK DEF IInv
<1>1. ASSUME NEW c \in Clients, Begin(c) \/ Continue(c) \/ CrashInAppend(c) PROVE FenceInv'
  BY <1>1, WriteFenceInv, LockFenceInv, CrashFenceInv DEF Begin, Continue
<1>2. ASSUME NEW i \in Instances, StartInstance(i) \/ Resume(i) \/ ResumeFails(i) \/ Crash(i)
      PROVE  FenceInv'
  BY <1>2, ResumeFenceInv, CrashFenceInv
<1>3. CASE HostCrash \/ Tick
  BY <1>3, CrashFenceInv
<1>4. CASE UNCHANGED vars
  BY <1>4 DEF vars, files, locks, insts, locals, IInv, FenceInv, CasExclusive,
              SnapshotCurrent, LeaseCurrent, RecordIsOwn, FenceToAccept,
              JournalBehindOwner, FencesNeverRegress, Positions
<1> QED
  BY <1>1, <1>2, <1>3, <1>4 DEF Next

\* Writers are alone in the critical section, what they read there stays true until
\* they publish, and no fence in the journal is above the durable owner's.
THEOREM InductiveInvariant == Spec => []IInv
<1>1. Init => IInv
  BY InitTypeOK, InitFenceInv DEF IInv
<1> QED
  BY <1>1, NextIInv, PTL DEF Spec

\* The fences in the journal of a key never go down, whichever processes wrote
\* its records and however often they crashed and restarted in between.
THEOREM FencesMonotone == Spec => []FencesNeverRegress
<1>1. IInv => FencesNeverRegress
  BY DEF IInv, FenceInv
<1> QED
  BY <1>1, InductiveInvariant, PTL

\* A write() that publishes an update does so under the fence lock() allocated
\* last: lock() cannot overtake it between its fence check and its publish.
THEOREM NoOvertaking == Spec => LandsUnderCurrentFence
<1> USE DEF files, locks, insts, locals, hist
<1> DEFINE Lands(k) == /\ casLock \in Clients /\ casLock' = casLock
                       /\ published'[k].pos > published[k].pos
           Current(k) == journal[published'[k].pos].fence \in {0, owner[k].fence}
<1>1. ASSUME IInv, NEW c \in Clients, NEW k \in Keys, ReplaceBlob(c), Lands(k) PROVE Current(k)
  <2>1. k = call[c].key /\ published'[k].pos = Len(journal)
    <3>1. published \in [Keys -> Blob] /\ published[k].pos \in Nat
      BY <1>1 DEF IInv, TypeOK, FilesOK, Blob
    <3>2. published' = [published EXCEPT ![call[c].key] =
                           [body |-> call[c].body, pos |-> Len(journal)]]
      BY <1>1 DEF ReplaceBlob
    <3>3. published'[k] # published[k]
      BY <1>1, <3>1
    <3> QED
      BY <3>1, <3>2, <3>3
  <2>2. journal[Len(journal)].fence = FenceToAccept(c)
    BY <1>1 DEF ReplaceBlob, IInv, FenceInv, RecordIsOwn
  <2>3. call[c].expected # None => lease[c].fence = owner[k].fence
    BY <1>1, <2>1 DEF ReplaceBlob, IInv, FenceInv, LeaseCurrent, CommitPcs
  <2> QED
    BY <2>1, <2>2, <2>3 DEF FenceToAccept
<1>2. ASSUME IInv, NEW c \in Clients, NEW k \in Keys, ReserveName(c), Lands(k) PROVE FALSE
  <2>1. published' = [published EXCEPT ![call[c].key] = [body |-> Empty, pos |-> 0]]
    BY <1>2 DEF ReserveName
  <2>2. published \in [Keys -> Blob] /\ published[k].pos \in Nat
    BY <1>2 DEF IInv, TypeOK, FilesOK, Blob
  <2> QED
    BY <1>2, <2>1, <2>2
<1>3. ASSUME IInv, NEW i \in Instances, NEW k \in Keys, Resume(i), Lands(k) PROVE FALSE
  <2>1. istate[i] = "resume"
    BY <1>3 DEF Resume, ResumeSkip, ResumeReserve, ResumeReplace, ResumeSync, ResumeDone, Restoring
  <2> QED
    BY <1>3, <2>1, SentinelAssumption DEF IInv, FenceInv, CasExclusive
<1>4. ASSUME NEW k \in Keys, HostCrash, Lands(k) PROVE FALSE
  BY <1>4, ShapeAssumption, SentinelAssumption DEF HostCrash, Forget, Caller
<1>5. ASSUME NEW k \in Keys, UNCHANGED published, published[k].pos \in Nat, Lands(k) PROVE FALSE
  BY <1>5
<1>6. ASSUME IInv, [Next]_vars, NEW k \in Keys, Lands(k) PROVE Current(k)
  <2> HIDE DEF Lands, Current
  <2>1. published[k].pos \in Nat
    BY <1>6 DEF IInv, TypeOK, FilesOK, Blob
  <2>2. ASSUME NEW c \in Clients, Begin(c) \/ Continue(c) \/ CrashInAppend(c) PROVE Current(k)
    <3>1. CASE ReplaceBlob(c) \/ ReserveName(c)
      BY <1>1, <1>2, <1>6, <3>1
    <3>2. CASE ~ReplaceBlob(c) /\ ~ReserveName(c)
      <4>1. UNCHANGED published
        BY <2>2, <3>2
           DEF Begin, BeginCreate, BeginUpdate, BeginWrite, BeginLock, RenewOwner, Unlock,
               Continue, AdmitWrite, RepeatCreate, RefuseWrite, LoseFence, AppendRecord,
               GiveUpReplace, FinishWrite, SettleFence, SettleHash, AllocateFence, GiveUpLock,
               GrantLock, RenewAdvisory, CrashInAppend
      <4> QED
        BY <1>5, <1>6, <2>1, <4>1
    <3> QED
      BY <3>1, <3>2
  <2>3. ASSUME NEW i \in Instances, StartInstance(i) \/ Resume(i) \/ ResumeFails(i) \/ Crash(i)
        PROVE  Current(k)
    <3>1. CASE Resume(i)
      BY <1>3, <1>6, <3>1
    <3>2. CASE ~Resume(i)
      <4>1. UNCHANGED published
        BY <2>3, <3>2 DEF StartInstance, ResumeFails, Crash
      <4> QED
        BY <1>5, <1>6, <2>1, <4>1
    <3> QED
      BY <3>1, <3>2
  <2>4. CASE HostCrash
    BY <1>4, <1>6, <2>4
  <2>5. CASE Tick \/ UNCHANGED vars
    <3>1. UNCHANGED published
      BY <2>5 DEF Tick, vars
    <3> QED
      BY <1>5, <1>6, <2>1, <3>1
  <2> QED
    BY <1>6, <2>2, <2>3, <2>4, <2>5 DEF Next
<1>7. IInv /\ [Next]_vars =>
        [\A k \in Keys :
            casLock \in Clients /\ casLock' = casLock /\ published'[k].pos > published[k].pos
            => journal[published'[k].pos].fence \in {0, owner[k].fence}]_vars
  BY <1>6
<1> QED
  BY <1>7, InductiveInvariant, PTL DEF Spec, LandsUnderCurrentFence

-----------------------------------------------------------------------------
(***************************************************************************)
(* The inductive invariant behind AdvisoryHolderOwnsFence.                 *)
(***************************************************************************)
\* A live entry names the owner, or no lease of any client: only a power loss
\* leaves one behind the owner file.
Unclaimed ==
    \A k \in Keys : advisory[k].expiry > now =>
        \/ owner[k].token = advisory[k].token
        \/ \A c \in Clients : ~(lease[c].key = k /\ lease[c].token = advisory[k].token)

GuardInv ==
    /\ \A c \in Clients : pc[c] \in GuardPcs <=> guard = c
    /\ \A c \in Clients :
          /\ pc[c] \in {"l_cas", "l_advisory"} => advisory[call[c].key].expiry <= now
          /\ pc[c] = "l_advisory" => owner[call[c].key].token = call[c].own.token
          /\ pc[c] = "r_advisory" => /\ lease[c].key = call[c].key
                                     /\ owner[call[c].key].token = lease[c].token
    /\ Unclaimed

LEMMA InitGuard == Init => GuardInv
  BY SentinelAssumption DEF Init, GuardInv, GuardPcs, Unclaimed, Released

\* advisory.lock has one holder, or none.
LEMMA GuardAlone ==
    ASSUME GuardInv, NEW c \in Clients, pc[c] \in GuardPcs \/ guard = None
    PROVE  /\ pc[c] \in GuardPcs => guard = c
           /\ \A d \in Clients \ {c} : pc[d] \notin GuardPcs
           /\ guard = None => pc[c] \notin GuardPcs
  BY SentinelAssumption DEF GuardInv

\* A step of a client that does not hold advisory.lock.
LEMMA GuardOutside ==
    ASSUME GuardInv, NEW c \in Clients, pc[c] \notin GuardPcs, pc'[c] \notin GuardPcs,
           \A d \in Clients \ {c} : pc'[d] = pc[d] /\ call'[d] = call[d],
           UNCHANGED <<now, guard, owner, advisory, lease>>
    PROVE  GuardInv'
  <1>1. Unclaimed'
    BY DEF GuardInv, Unclaimed
  <1>2. \A d \in Clients : (pc[d] \in GuardPcs <=> guard = d)'
    BY DEF GuardInv
  <1>3. ASSUME NEW d \in Clients
        PROVE  /\ pc'[d] \in {"l_cas", "l_advisory"} => advisory'[call'[d].key].expiry <= now'
               /\ pc'[d] = "l_advisory" => owner'[call'[d].key].token = call'[d].own.token
               /\ pc'[d] = "r_advisory" => /\ lease'[d].key = call'[d].key
                                           /\ owner'[call'[d].key].token = lease'[d].token
    BY DEF GuardInv, GuardPcs
  <1> QED
    BY <1>1, <1>2, <1>3 DEF GuardInv

\* A client gives advisory.lock back, having written the advisory file or not.
LEMMA GuardLeave ==
    ASSUME GuardInv, NEW c \in Clients, pc[c] \in GuardPcs, pc'[c] = "idle", guard' = None,
           \A d \in Clients \ {c} : pc'[d] = pc[d], Unclaimed'
    PROVE  GuardInv'
  <1>1. \A d \in Clients : pc'[d] \notin GuardPcs
    BY GuardAlone DEF GuardPcs
  <1> QED
    BY <1>1, SentinelAssumption DEF GuardInv, GuardPcs

\* A client enters, or goes on inside, lock() or renew().
LEMMA GuardInside ==
    ASSUME GuardInv, NEW c \in Clients, pc[c] \in GuardPcs \/ guard = None, guard' = c,
           pc'[c] \in GuardPcs, \A d \in Clients \ {c} : pc'[d] = pc[d],
           Unclaimed',
           pc'[c] \in {"l_cas", "l_advisory"} => advisory'[call'[c].key].expiry <= now',
           pc'[c] = "l_advisory" => owner'[call'[c].key].token = call'[c].own.token,
           pc'[c] = "r_advisory" => /\ lease'[c].key = call'[c].key
                                    /\ owner'[call'[c].key].token = lease'[c].token
    PROVE  GuardInv'
  <1>1. \A d \in Clients \ {c} : pc'[d] \notin GuardPcs
    BY GuardAlone
  <1>2. \A d \in Clients : (pc[d] \in GuardPcs <=> guard = d)'
    BY <1>1
  <1>3. ASSUME NEW d \in Clients
        PROVE  /\ pc'[d] \in {"l_cas", "l_advisory"} => advisory'[call'[d].key].expiry <= now'
               /\ pc'[d] = "l_advisory" => owner'[call'[d].key].token = call'[d].own.token
               /\ pc'[d] = "r_advisory" => /\ lease'[d].key = call'[d].key
                                           /\ owner'[call'[d].key].token = lease'[d].token
    BY <1>1 DEF GuardPcs
  <1> QED
    BY <1>2, <1>3 DEF GuardInv

\* The steps of a write() leave advisory.lock and the lock files alone.
LEMMA WriteGuard ==
    ASSUME TypeOK, GuardInv, NEW c \in Clients,
           \/ BeginCreate(c) \/ BeginUpdate(c)
           \/ AdmitWrite(c) \/ RepeatCreate(c) \/ RefuseWrite(c) \/ LoseFence(c)
           \/ AppendRecord(c) \/ ReserveName(c) \/ ReplaceBlob(c) \/ GiveUpReplace(c)
           \/ FinishWrite(c) \/ SettleFence(c) \/ SettleHash(c)
    PROVE  GuardInv'
  <1> USE DEF files, locks, insts, locals, hist
  <1>1. pc \in [Clients -> Pcs] /\ call \in [Clients -> Call]
    BY DEF TypeOK, CallsOK
  <1>2. ASSUME NEW k, NEW b, NEW e, BeginWrite(c, k, b, e)
        PROVE  /\ pc[c] \notin GuardPcs /\ pc'[c] \notin GuardPcs
               /\ \A d \in Clients \ {c} : pc'[d] = pc[d] /\ call'[d] = call[d]
               /\ UNCHANGED <<now, guard, owner, advisory, lease>>
    BY <1>1, <1>2 DEF BeginWrite, Idle, Goto, GuardPcs
  <1>3. CASE BeginCreate(c) \/ BeginUpdate(c)
    BY <1>2, <1>3, GuardOutside DEF BeginCreate, BeginUpdate
  <1>4. CASE AdmitWrite(c) \/ LoseFence(c) \/ AppendRecord(c) \/ ReserveName(c) \/ ReplaceBlob(c)
    <2>1. /\ pc[c] \notin GuardPcs /\ pc'[c] \notin GuardPcs
          /\ \A d \in Clients \ {c} : pc'[d] = pc[d] /\ call'[d] = call[d]
          /\ UNCHANGED <<now, guard, owner, advisory, lease>>
      BY <1>1, <1>4 DEF AdmitWrite, LoseFence, AppendRecord, ReserveName, ReplaceBlob, Goto, GuardPcs
    <2> QED
      BY <2>1, GuardOutside
  <1>5. CASE RepeatCreate(c) \/ RefuseWrite(c) \/ GiveUpReplace(c) \/ FinishWrite(c)
    <2>1. /\ pc[c] \notin GuardPcs /\ pc'[c] \notin GuardPcs
          /\ \A d \in Clients \ {c} : pc'[d] = pc[d] /\ call'[d] = call[d]
          /\ UNCHANGED <<now, guard, owner, advisory, lease>>
      BY <1>1, <1>5 DEF RepeatCreate, RefuseWrite, GiveUpReplace, FinishWrite, Return, Goto, GuardPcs
    <2> QED
      BY <2>1, GuardOutside
  <1>6. CASE SettleFence(c) \/ SettleHash(c)
    <2>1. /\ pc[c] \notin GuardPcs /\ pc'[c] \notin GuardPcs
          /\ \A d \in Clients \ {c} : pc'[d] = pc[d] /\ call'[d] = call[d]
          /\ UNCHANGED <<now, guard, owner, advisory, lease>>
      BY <1>1, <1>6 DEF SettleFence, SettleHash, Return, Goto, GuardPcs
    <2> QED
      BY <2>1, GuardOutside
  <1> QED
    BY <1>3, <1>4, <1>5, <1>6

\* lock(), renew() and unlock() write the owner file before the advisory file.
LEMMA LockGuard ==
    ASSUME TypeOK, GuardInv, NEW c \in Clients,
           \/ BeginLock(c) \/ AllocateFence(c) \/ GiveUpLock(c) \/ GrantLock(c)
           \/ RenewOwner(c) \/ RenewAdvisory(c) \/ Unlock(c)
    PROVE  GuardInv'
  <1> USE DEF files, locks, insts, locals, hist
  <1>1. /\ pc \in [Clients -> Pcs] /\ call \in [Clients -> Call] /\ lease \in [Clients -> Lease]
        /\ owner \in [Keys -> Owner] /\ advisory \in [Keys -> Advisory] /\ now \in Nat
        /\ \A d \in Clients : pc[d] # "idle" => call[d].key \in Keys
    BY DEF TypeOK, CallsOK, FilesOK, CountersOK
  <1>2. CASE BeginLock(c)
    <2>1. PICK k \in Keys, ttl \in TTLs :
              /\ advisory[k].expiry <= now
              /\ call' = [call EXCEPT ![c] = [NoCall EXCEPT
                             !.key = k, !.expiry = now + ttl,
                             !.own = [NoOwner EXCEPT !.token = tokens + 1]]]
      BY <1>2 DEF BeginLock
    <2>2. /\ guard = None /\ guard' = c /\ pc' = [pc EXCEPT ![c] = "l_cas"]
          /\ UNCHANGED <<now, owner, advisory, lease>>
      BY <1>2 DEF BeginLock, GuardFree, Goto
    <2>3. call'[c].key = k
      BY <1>1, <2>1 DEF NoCall
    <2>4. Unclaimed'
      BY <2>2 DEF Unclaimed, GuardInv
    <2> QED
      BY <1>1, <2>1, <2>2, <2>3, <2>4, GuardInside DEF GuardPcs
  <1>3. CASE AllocateFence(c)
    <2> DEFINE k == call[c].key
               o == [token |-> call[c].own.token, expiry |-> call[c].expiry,
                     fence |-> NextFence(c, k)]
    <2>1. /\ pc[c] = "l_cas" /\ owner' = [owner EXCEPT ![k] = o]
          /\ call' = [call EXCEPT ![c] = [call[c] EXCEPT !.own = o]]
          /\ pc' = [pc EXCEPT ![c] = "l_advisory"]
          /\ UNCHANGED <<now, guard, advisory, lease>>
      BY <1>1, <1>3 DEF AllocateFence, Goto
    <2>2. k \in Keys /\ guard = c /\ advisory[k].expiry <= now
      BY <1>1, <2>1 DEF GuardInv, GuardPcs
    <2> HIDE DEF o
    <2>3. call'[c].key = k /\ call'[c].own = o
      BY <1>1, <2>1 DEF Call
    <2>4. owner'[k] = o /\ \A x \in Keys \ {k} : owner'[x] = owner[x]
      BY <1>1, <2>1, <2>2
    <2>5. Unclaimed'
      <3>1. ASSUME NEW x \in Keys, advisory[x].expiry > now
            PROVE  \/ owner'[x].token = advisory[x].token
                   \/ \A d \in Clients : ~(lease'[d].key = x /\ lease'[d].token = advisory[x].token)
        <4>1. x # k
          BY <1>1, <2>2, <3>1 DEF Advisory
        <4> QED
          BY <2>1, <2>4, <3>1, <4>1 DEF GuardInv, Unclaimed
      <3> QED
        BY <2>1, <3>1 DEF Unclaimed
    <2>6. pc'[c] = "l_advisory" /\ \A d \in Clients \ {c} : pc'[d] = pc[d]
      BY <1>1, <2>1
    <2> HIDE DEF k
    <2> QED
      BY <2>1, <2>2, <2>3, <2>4, <2>5, <2>6, GuardInside DEF GuardPcs
  <1>4. CASE GiveUpLock(c)
    <2>1. /\ pc[c] = "l_cas" /\ guard' = None /\ pc' = [pc EXCEPT ![c] = "idle"]
          /\ UNCHANGED <<now, owner, advisory, lease>>
      BY <1>4 DEF GiveUpLock, Return, Goto
    <2>2. Unclaimed'
      BY <2>1 DEF Unclaimed, GuardInv
    <2> QED
      BY <1>1, <2>1, <2>2, GuardLeave DEF GuardPcs
  <1>5. CASE GrantLock(c)
    <2> DEFINE k == call[c].key
               a == [token |-> call[c].own.token, expiry |-> call[c].own.expiry]
    <2>1. /\ pc[c] = "l_advisory" /\ guard' = None /\ pc' = [pc EXCEPT ![c] = "idle"]
          /\ advisory' = [advisory EXCEPT ![k] = a]
          /\ lease' = [lease EXCEPT ![c] = [key |-> k, token |-> a.token,
                                            fence |-> call[c].own.fence]]
          /\ UNCHANGED <<now, owner>>
      BY <1>5 DEF GrantLock, SetAdvisory, Return, Goto
    <2>2. owner[k].token = a.token
      BY <2>1 DEF GuardInv
    <2> HIDE DEF a, k
    <2>3. lease'[c].key = k /\ \A d \in Clients \ {c} : lease'[d] = lease[d]
      BY <1>1, <2>1
    <2>4. Unclaimed'
      <3>1. ASSUME NEW x \in Keys, advisory'[x].expiry > now
            PROVE  \/ owner[x].token = advisory'[x].token
                   \/ \A d \in Clients : ~(lease'[d].key = x /\ lease'[d].token = advisory'[x].token)
        <4>1. CASE x = k
          BY <1>1, <2>1, <2>2, <4>1
        <4>2. CASE x # k
          BY <1>1, <2>1, <2>3, <3>1, <4>2 DEF Unclaimed, GuardInv
        <4> QED
          BY <4>1, <4>2
      <3> QED
        BY <2>1, <3>1 DEF Unclaimed
    <2> QED
      BY <1>1, <2>1, <2>4, GuardLeave DEF GuardPcs
  <1>6. CASE RenewOwner(c)
    <2> DEFINE k == lease[c].key
    <2>1. PICK ttl \in TTLs :
              /\ owner' = [owner EXCEPT ![k] = [owner[k] EXCEPT !.expiry = now + ttl]]
              /\ call' = [call EXCEPT ![c] = [NoCall EXCEPT !.key = k, !.expiry = now + ttl]]
      BY <1>1, <1>6 DEF RenewOwner, Holds
    <2>2. /\ k \in Keys /\ guard = None /\ guard' = c /\ owner[k].token = lease[c].token
          /\ pc' = [pc EXCEPT ![c] = "r_advisory"] /\ UNCHANGED <<now, advisory, lease>>
      BY <1>6 DEF RenewOwner, GuardFree, Holds, Goto
    <2>3. \A x \in Keys : owner'[x].token = owner[x].token
      BY <1>1, <2>1, <2>2 DEF Owner
    <2>4. call'[c].key = k
      BY <1>1, <2>1 DEF NoCall
    <2>5. Unclaimed'
      BY <2>2, <2>3 DEF Unclaimed, GuardInv
    <2>6. pc'[c] = "r_advisory" /\ \A d \in Clients \ {c} : pc'[d] = pc[d]
      BY <1>1, <2>2
    <2> QED
      BY <2>2, <2>3, <2>4, <2>5, <2>6, GuardInside DEF GuardPcs
  <1>7. CASE RenewAdvisory(c)
    <2> DEFINE a == [token |-> lease[c].token, expiry |-> call[c].expiry]
    <2>1. /\ pc[c] = "r_advisory" /\ guard' = None /\ pc' = [pc EXCEPT ![c] = "idle"]
          /\ advisory' = [advisory EXCEPT ![call[c].key] = a]
          /\ UNCHANGED <<now, owner, lease>>
      BY <1>7 DEF RenewAdvisory, SetAdvisory, Return, Goto
    <2>2. owner[call[c].key].token = a.token
      BY <2>1 DEF GuardInv
    <2> HIDE DEF a
    <2>3. Unclaimed'
      BY <1>1, <2>1, <2>2 DEF Unclaimed, GuardInv
    <2> QED
      BY <1>1, <2>1, <2>3, GuardLeave DEF GuardPcs
  <1>8. CASE Unlock(c)
    <2>1. /\ pc[c] = "idle" /\ guard = None
          /\ advisory' = [advisory EXCEPT ![lease[c].key] = Released]
          /\ UNCHANGED <<now, owner, guard, pc, call, lease>>
      BY <1>8 DEF Unlock, SetAdvisory, Idle, GuardFree
    <2>2. \A d \in Clients : pc[d] \notin GuardPcs
      BY <2>1, SentinelAssumption DEF GuardInv
    <2>3. Unclaimed'
      BY <1>1, <2>1 DEF Unclaimed, GuardInv, Released
    <2> QED
      BY <2>1, <2>2, <2>3 DEF GuardInv, GuardPcs
  <1> QED
    BY <1>2, <1>3, <1>4, <1>5, <1>6, <1>7, <1>8

\* A constructor, a crash or the clock: no lock file changes, and who is still
\* in a call is where it was.
LEMMA GuardUnmoved ==
    ASSUME GuardInv, UNCHANGED <<owner, advisory>>, now' = now \/ now' = now + 1,
           now \in Nat, \A k \in Keys : advisory[k].expiry \in Nat,
           \A c \in Clients : pc[c] \in GuardPcs => call[c].key \in Keys,
           \A c \in Clients : pc'[c] \in GuardPcs <=> guard' = c,
           \A c \in Clients : lease'[c] \in {lease[c], NoLease},
           \A c \in Clients : pc'[c] \in GuardPcs
               => pc'[c] = pc[c] /\ call'[c] = call[c] /\ lease'[c] = lease[c]
    PROVE  GuardInv'
  <1>1. Unclaimed'
    <2>1. ASSUME NEW k \in Keys, advisory[k].expiry > now' PROVE advisory[k].expiry > now
      BY <2>1
    <2>2. ASSUME NEW c \in Clients, lease'[c].key \in Keys PROVE lease'[c] = lease[c]
      BY <2>2, SentinelAssumption DEF NoLease
    <2> QED
      BY <2>1, <2>2 DEF GuardInv, Unclaimed
  <1>2. ASSUME NEW c \in Clients
        PROVE  /\ pc'[c] \in {"l_cas", "l_advisory"} => advisory'[call'[c].key].expiry <= now'
               /\ pc'[c] = "l_advisory" => owner'[call'[c].key].token = call'[c].own.token
               /\ pc'[c] = "r_advisory" => /\ lease'[c].key = call'[c].key
                                           /\ owner'[call'[c].key].token = lease'[c].token
    <2>1. CASE pc'[c] \notin GuardPcs
      BY <2>1 DEF GuardPcs
    <2>2. CASE pc'[c] \in GuardPcs
      <3>1. pc'[c] = pc[c] /\ call'[c] = call[c] /\ lease'[c] = lease[c] /\ call[c].key \in Keys
        BY <2>2
      <3>2. advisory[call[c].key].expiry <= now => advisory[call[c].key].expiry <= now'
        BY <3>1
      <3> QED
        BY <3>1, <3>2 DEF GuardInv
    <2> QED
      BY <2>1, <2>2
  <1> QED
    BY <1>1, <1>2 DEF GuardInv

LEMMA ForgetGuard ==
    ASSUME GuardInv, NEW dead \in SUBSET Instances, Forget(dead)
    PROVE  /\ \A c \in Clients : pc'[c] \in GuardPcs <=> guard' = c
           /\ \A c \in Clients : pc'[c] \in GuardPcs
                => pc'[c] = pc[c] /\ call'[c] = call[c] /\ lease'[c] = lease[c]
           /\ \A c \in Clients : lease'[c] \in {lease[c], NoLease}
  <1> DEFINE gone == dead \cup {c \in Clients : Caller(c) \in dead}
  <1>1. /\ pc' = [c \in Clients |-> IF c \in gone THEN "idle" ELSE pc[c]]
        /\ call' = [c \in Clients |-> IF c \in gone THEN NoCall ELSE call[c]]
        /\ lease' = [c \in Clients |-> IF c \in gone THEN NoLease ELSE lease[c]]
        /\ guard' = IF guard \in gone THEN None ELSE guard
    BY DEF Forget
  <1> HIDE DEF gone
  <1> QED
    BY <1>1, SentinelAssumption DEF GuardInv, GuardPcs

LEMMA NextGuard == TypeOK /\ GuardInv /\ [Next]_vars => GuardInv'
  <1> SUFFICES ASSUME TypeOK, GuardInv, [Next]_vars PROVE GuardInv'
    OBVIOUS
  <1> USE DEF files, locks, insts, locals, hist
  <1>1. /\ now \in Nat /\ \A k \in Keys : advisory[k].expiry \in Nat
        /\ \A c \in Clients : pc[c] \in GuardPcs => call[c].key \in Keys
    BY DEF TypeOK, FilesOK, Advisory, CountersOK, CallsOK, GuardPcs
  <1>2. ASSUME NEW c \in Clients, Begin(c) \/ Continue(c) PROVE GuardInv'
    BY <1>2, WriteGuard, LockGuard DEF Begin, Continue
  <1>3. ASSUME NEW dead \in SUBSET Instances, Forget(dead), UNCHANGED <<now, owner, advisory>>
        PROVE  GuardInv'
    BY <1>1, <1>3, ForgetGuard, GuardUnmoved
  <1>4. ASSUME NEW c \in Clients, CrashInAppend(c) PROVE GuardInv'
    <2>1. {Caller(c)} \in SUBSET Instances
      BY ShapeAssumption DEF Caller
    <2> QED
      BY <1>3, <1>4, <2>1 DEF CrashInAppend
  <1>5. ASSUME NEW i \in Instances, ResumeFails(i) \/ Crash(i) PROVE GuardInv'
    BY <1>3, <1>5 DEF ResumeFails, Crash
  <1>6. CASE HostCrash
    <2>1. \A c \in Clients : Caller(c) \in Instances
      BY ShapeAssumption DEF Caller
    <2>2. /\ pc' = [c \in Clients |-> "idle"] /\ lease' = [c \in Clients |-> NoLease]
          /\ guard' = None
      BY <1>6, <2>1, SentinelAssumption DEF HostCrash, Forget, TypeOK, LocksOK
    <2>3. Unclaimed'
      BY <2>2, SentinelAssumption DEF Unclaimed, NoLease
    <2> QED
      BY <2>2, <2>3, SentinelAssumption DEF GuardInv, GuardPcs
  <1>7. ASSUME UNCHANGED <<guard, owner, advisory, pc, call, lease>>, now' = now \/ now' = now + 1
        PROVE  GuardInv'
    <2>1. \A c \in Clients : pc'[c] \in GuardPcs <=> guard' = c
      BY <1>7 DEF GuardInv
    <2> QED
      BY <1>1, <1>7, <2>1, GuardUnmoved
  <1>8. ASSUME NEW i \in Instances, StartInstance(i) \/ Resume(i) PROVE GuardInv'
    <2>1. UNCHANGED <<guard, owner, advisory, pc, call, lease, now>>
      BY <1>8 DEF StartInstance, Resume, ResumeSkip, ResumeReserve, ResumeReplace, ResumeSync,
                  ResumeDone
    <2> QED
      BY <1>7, <2>1
  <1>9. CASE Tick
    BY <1>7, <1>9 DEF Tick
  <1>10. CASE UNCHANGED vars
    BY <1>7, <1>10 DEF vars
  <1> QED
    BY <1>2, <1>4, <1>5, <1>6, <1>8, <1>9, <1>10 DEF Next

\* lock() and renew() write the owner file first: as long as unlock() and
\* renew() take a lease for the holder's, it is the durable fence owner,
\* whichever processes were killed in between and whatever a power loss brought
\* back in locks/advisory/.
THEOREM AdvisoryHolderIsOwner == Spec => []AdvisoryHolderOwnsFence
  <1>1. Init /\ [][Next]_vars /\ []TypeOK => []GuardInv
    BY InitGuard, NextGuard, PTL
  <1>2. GuardInv => AdvisoryHolderOwnsFence
    BY DEF GuardInv, Unclaimed, AdvisoryHolderOwnsFence, Holds
  <1> QED
    BY <1>1, <1>2, TypeCorrect, PTL DEF Spec

-----------------------------------------------------------------------------
(***************************************************************************)
(* The inductive invariant behind durability: what a blob, a record and a  *)
(* constructor's plan say of one another.                                  *)
(***************************************************************************)

\* A blob with a body is the version of a record of its key; another has none.
BlobOK(k, b) ==
    IF b.body \in Bodies
    THEN b.pos \in Positions /\ journal[b.pos].key = k /\ journal[b.pos].body = b.body
    ELSE b.pos = 0

\* Version x of key k is not behind a write that was acknowledged ...
Covers(k, x) == \A p \in acked : Replayable(p) /\ journal[p].key = k => p <= x

\* ... and every record past it was compared with it, or with a newer one.
Behind(k, x) ==
    \A q \in Positions : Replayable(q) /\ journal[q].key = k /\ q > x => x <= journal[q].base

RecordsOK ==
    /\ \A p \in Positions : journal[p].key \in Keys => journal[p].body \in Bodies
    /\ \A p \in acked : p \in Positions /\ journal[p].key \in Keys
    /\ \A k \in Keys, q \in Positions : Replayable(q) /\ journal[q].key = k
                                        => \E p \in Positions : IsLatest(k, p)

\* A record that replay reaches was compared with every acknowledged one before it.
Compared ==
    \A p \in acked, q \in Positions :
        p < q /\ Replayable(q) /\ journal[q].key = journal[p].key => p <= journal[q].base

VersionOK(k) ==
    /\ BlobOK(k, published[k]) /\ BlobOK(k, disk[k])
    /\ Behind(k, published[k].pos) /\ Behind(k, disk[k].pos)
    /\ NoTear => disk[k].pos <= published[k].pos

\* The call of a write() under cas.lock and the files it has read or changed.
WriteOK(c) ==
    /\ pc[c] # "idle" => istate[Caller(c)] = "up"
    /\ pc[c] \in {"w_decide", "w_append"} => call[c].cur = published[call[c].key]
    /\ pc[c] \in {"w_reserve", "w_replace", "w_sync"}
       => journal[Len(journal)].body = call[c].body
    /\ pc[c] = "w_sync" => published[call[c].key].pos = Len(journal)

\* A constructor restores every key from the record replay keeps.
PlanOK(i, k) ==
    /\ istate[i] # "resume" => rkey[i] = None
    /\ istate[i] = "resume" =>
        /\ plan[i][k] # 0 => IsLatest(k, plan[i][k])
        /\ plan[i][k] = 0 => Covers(k, published[k].pos)
        /\ rkey[i] = k => published[k].body = Empty \/ published[k].pos = plan[i][k]

UpCovers == Up => \A k \in Keys : Covers(k, published[k].pos)

DataInv ==
    /\ RecordsOK
    /\ \A k \in Keys : VersionOK(k)
    /\ \A c \in Clients : WriteOK(c)
    /\ \A i \in Instances, k \in Keys : PlanOK(i, k)
    /\ UpCovers
    /\ Compared

LEMMA DataTypes ==
    ASSUME IInv
    PROVE  /\ journal \in Seq(Record) /\ Len(journal) \in Nat
           /\ published \in [Keys -> Blob] /\ disk \in [Keys -> Blob]
           /\ \A k \in Keys : published[k].pos \in Nat /\ disk[k].pos \in Nat
           /\ istate \in [Instances -> {"down", "resume", "up"}]
           /\ plan \in [Instances -> [Keys -> 0..Len(journal)]]
           /\ rkey \in [Instances -> Keys \cup {None}]
           /\ pc \in [Clients -> Pcs] /\ call \in [Clients -> Call]
           /\ \A c \in Clients : pc[c] # "idle" => call[c].key \in Keys
           /\ \A c \in Clients : pc[c] \in CasPcs => call[c].body \in Bodies
           /\ \A c \in Clients : Caller(c) \in Instances
  BY ShapeAssumption DEF IInv, TypeOK, FilesOK, InstancesOK, CallsOK, Blob, Caller

LEMMA InitData == Init => DataInv
  <1> SUFFICES ASSUME Init PROVE DataInv
    OBVIOUS
  <1>1. Positions = {} /\ Len(journal) = 0
    BY DEF Init, Positions
  <1>2. RecordsOK /\ Compared
    BY <1>1 DEF Init, RecordsOK, Compared
  <1>3. ASSUME NEW k \in Keys PROVE VersionOK(k)
    BY <1>1, SentinelAssumption DEF Init, VersionOK, BlobOK, Behind, NoBlob
  <1>4. \A c \in Clients : WriteOK(c)
    BY DEF Init, WriteOK
  <1>5. \A i \in Instances, k \in Keys : PlanOK(i, k)
    BY DEF Init, PlanOK
  <1>6. UpCovers
    BY DEF Init, UpCovers, Up
  <1> QED
    BY <1>2, <1>3, <1>4, <1>5, <1>6 DEF DataInv

-----------------------------------------------------------------------------
(***************************************************************************)
(* Replay and the journal.                                                 *)
(***************************************************************************)
\* An append leaves replay of the records before it alone.
LEMMA Appending ==
    ASSUME journal \in Seq(Record), NEW r \in Record, journal' = Append(journal, r),
           NEW n, n = Len(journal) + 1
    PROVE  /\ Len(journal') = n /\ Len(journal) \in Nat /\ n \in Nat
           /\ Positions' = Positions \cup {n}
           /\ n \notin Positions
           /\ journal'[n] = r
           /\ \A p \in Positions : /\ journal'[p] = journal[p]
                                   /\ Replayable(p)' <=> Replayable(p)
                                   /\ p < n /\ p \in Nat
           /\ Replayable(n)' <=> NoTear /\ r.key # None
           /\ NoTear' => NoTear
  <1>1. /\ Len(journal') = n /\ Len(journal) \in Nat /\ n \in Nat
        /\ journal'[n] = r
        /\ \A p \in 1..Len(journal) : journal'[p] = journal[p]
    OBVIOUS
  <1>2. 1..n = 1..Len(journal) \cup {n}
    BY <1>1
  <1>3. Positions' = Positions \cup {n}
    BY <1>1, <1>2 DEF Positions
  <1>4. ASSUME NEW p \in Positions PROVE Replayable(p)' <=> Replayable(p)
    <2>1. p \in Nat /\ \A q \in 1..p : q \in 1..Len(journal)
      BY <1>1 DEF Positions
    <2> QED
      BY <1>1, <2>1 DEF Replayable
  <1>5. Replayable(n)' <=> NoTear /\ r.key # None
    <2>1. NoTear <=> \A q \in 1..Len(journal) : journal[q].key # None
      <3>1. \A p \in 1..Len(journal) : p \in Nat /\ (\A q \in 1..p : q \in 1..Len(journal)) /\ p \in 1..p
        BY <1>1
      <3> QED
        BY <3>1 DEF NoTear, Positions, Replayable
    <2> QED
      BY <1>1, <2>1, <1>2 DEF Replayable
  <1>6. NoTear' => NoTear
    BY <1>3, <1>4 DEF NoTear
  <1> QED
    BY <1>1, <1>3, <1>4, <1>5, <1>6 DEF Positions

\* The record replay keeps is not behind any other of its key.
LEMMA LatestIsLast ==
    ASSUME IInv, RecordsOK, NEW k \in Keys, NEW p, IsLatest(k, p)
    PROVE  /\ p \in Positions /\ p \in Nat /\ journal[p].key = k /\ journal[p].body \in Bodies
           /\ Covers(k, p) /\ Behind(k, p)
           /\ \A b : NoTear /\ BlobOK(k, b) => b.pos <= p
  <1>1. /\ p \in Positions /\ p \in Nat /\ journal[p].key = k /\ Len(journal) \in Nat
        /\ \A q \in (p + 1)..Len(journal) : Replayable(q) => journal[q].key # k
    BY DataTypes DEF IsLatest, Positions
  <1>2. ASSUME NEW q \in Positions, Replayable(q), journal[q].key = k PROVE q <= p /\ ~(q > p)
    BY <1>1, <1>2 DEF Positions
  <1>3. Covers(k, p)
    BY <1>2 DEF Covers, RecordsOK
  <1>4. Behind(k, p)
    BY <1>2 DEF Behind
  <1>5. ASSUME NEW b, NoTear, BlobOK(k, b) PROVE b.pos <= p
    <2>1. CASE b.body \in Bodies
      <3>1. b.pos \in Positions /\ journal[b.pos].key = k /\ Replayable(b.pos)
        BY <1>5, <2>1 DEF BlobOK, NoTear
      <3> QED
        BY <1>2, <3>1
    <2>2. CASE b.body \notin Bodies
      BY <1>1, <1>5, <2>2 DEF BlobOK
    <2> QED
      BY <2>1, <2>2
  <1> QED
    BY <1>1, <1>3, <1>4, <1>5 DEF RecordsOK

-----------------------------------------------------------------------------
(***************************************************************************)
(* Steps that leave the data alone.                                        *)
(***************************************************************************)
LEMMA DataUnmoved ==
    ASSUME DataInv, UNCHANGED <<journal, published, disk, acked>>,
           \A c \in Clients : WriteOK(c)',
           \A i \in Instances : /\ istate'[i] \in {"resume", "up"} => istate'[i] = istate[i]
                                /\ istate'[i] = "resume" => plan'[i] = plan[i]
                                                            /\ rkey'[i] = rkey[i]
                                /\ istate'[i] # "resume" => rkey'[i] = None
    PROVE  DataInv'
  <1>1. RecordsOK' /\ Compared'
    <2>1. Positions' = Positions /\ \A p : Replayable(p)' <=> Replayable(p)
      BY DEF Positions, Replayable
    <2>2. \A k, p : IsLatest(k, p)' <=> IsLatest(k, p)
      BY DEF Positions, Replayable, IsLatest
    <2>3. RecordsOK'
      BY <2>1, <2>2 DEF DataInv, RecordsOK
    <2> QED
      BY <2>1, <2>3 DEF DataInv, Compared
  <1>2. \A k \in Keys : VersionOK(k)'
    BY DEF DataInv, VersionOK, BlobOK, Behind, NoTear, Positions, Replayable
  <1>3. ASSUME NEW i \in Instances, NEW k \in Keys PROVE PlanOK(i, k)'
    BY DEF DataInv, PlanOK, Covers, IsLatest, Positions, Replayable
  <1>4. UpCovers'
    BY DEF DataInv, UpCovers, Up, Covers, Replayable
  <1> QED
    BY <1>1, <1>2, <1>3, <1>4 DEF DataInv

\* A step of one client that leaves the data alone.
LEMMA DataOutside ==
    ASSUME IInv, DataInv, NEW c \in Clients,
           UNCHANGED <<journal, published, disk, acked, istate, plan, rkey>>,
           \A d \in Clients \ {c} : pc'[d] = pc[d] /\ call'[d] = call[d],
           WriteOK(c)'
    PROVE  DataInv'
  <1>1. ASSUME NEW d \in Clients, d # c PROVE WriteOK(d)'
    <2>1. pc'[d] = pc[d] /\ call'[d] = call[d] /\ WriteOK(d)
      BY <1>1 DEF DataInv
    <2> QED
      BY <2>1 DEF WriteOK
  <1>2. \A i \in Instances : istate'[i] # "resume" => rkey'[i] = None
    <2>1. CASE Keys = {}
      BY <2>1, DataTypes
    <2>2. CASE Keys # {}
      BY <2>2 DEF DataInv, PlanOK
    <2> QED
      BY <2>1, <2>2
  <1> QED
    BY <1>1, <1>2, DataUnmoved

\* A call that ends, or that is not a write() under cas.lock.
LEMMA NotWriting ==
    ASSUME DataInv, NEW c \in Clients, pc'[c] \notin CasPcs, UNCHANGED istate,
           pc'[c] # "idle" => pc[c] # "idle" \/ istate[Caller(c)] = "up"
    PROVE  WriteOK(c)'
  BY DEF DataInv, WriteOK, CasPcs, CommitPcs, Caller

LEMMA ClientData ==
    ASSUME IInv, DataInv, NEW c \in Clients,
           \/ BeginCreate(c) \/ BeginUpdate(c)
           \/ AdmitWrite(c) \/ RefuseWrite(c) \/ LoseFence(c) \/ GiveUpReplace(c)
           \/ SettleFence(c) \/ SettleHash(c)
           \/ BeginLock(c) \/ AllocateFence(c) \/ GiveUpLock(c) \/ GrantLock(c)
           \/ RenewOwner(c) \/ RenewAdvisory(c) \/ Unlock(c)
    PROVE  DataInv'
  <1> USE DEF files, locks, insts, locals, hist
  <1>1. pc \in [Clients -> Pcs] /\ call \in [Clients -> Call]
    BY DataTypes
  <1>2. ASSUME NEW k, NEW b, NEW e, BeginWrite(c, k, b, e) PROVE DataInv'
    <2>1. /\ UNCHANGED <<journal, published, disk, acked, istate, plan, rkey>>
          /\ pc' = [pc EXCEPT ![c] = "w_decide"]
          /\ istate[Caller(c)] = "up"
      BY <1>2 DEF BeginWrite, Idle, Goto
    <2>2. /\ call'[c].cur = published[k] /\ call'[c].key = k
          /\ \A d \in Clients \ {c} : call'[d] = call[d]
      BY <1>1, <1>2 DEF BeginWrite, NoCall
    <2>3. WriteOK(c)'
      BY <1>1, <2>1, <2>2 DEF WriteOK, Caller
    <2> QED
      BY <1>1, <2>1, <2>2, <2>3, DataOutside
  <1>3. CASE BeginCreate(c) \/ BeginUpdate(c)
    BY <1>2, <1>3 DEF BeginCreate, BeginUpdate
  <1>4. CASE AdmitWrite(c)
    <2>1. /\ UNCHANGED <<journal, published, disk, acked, istate, plan, rkey, call>>
          /\ pc[c] = "w_decide" /\ pc' = [pc EXCEPT ![c] = "w_append"]
      BY <1>4 DEF AdmitWrite, Goto
    <2>2. WriteOK(c)'
      BY <1>1, <2>1 DEF DataInv, WriteOK, Caller
    <2> QED
      BY <1>1, <2>1, <2>2, DataOutside
  <1>5. CASE \/ RefuseWrite(c) \/ LoseFence(c) \/ GiveUpReplace(c)
             \/ SettleFence(c) \/ SettleHash(c)
    <2>1. /\ UNCHANGED <<journal, published, disk, acked, istate, plan, rkey>>
          /\ \A d \in Clients \ {c} : pc'[d] = pc[d] /\ call'[d] = call[d]
          /\ pc'[c] \notin CasPcs /\ pc[c] # "idle"
      BY <1>1, <1>5 DEF RefuseWrite, LoseFence, GiveUpReplace, SettleFence, SettleHash,
                        Return, Goto, CasPcs, CommitPcs
    <2> QED
      BY <2>1, NotWriting, DataOutside
  <1>6. CASE BeginLock(c) \/ RenewOwner(c) \/ Unlock(c)
    <2>1. /\ UNCHANGED <<journal, published, disk, acked, istate, plan, rkey>>
          /\ \A d \in Clients \ {c} : pc'[d] = pc[d] /\ call'[d] = call[d]
          /\ pc'[c] \notin CasPcs /\ istate[Caller(c)] = "up"
      BY <1>1, <1>6 DEF BeginLock, RenewOwner, Unlock, Idle, Goto, CasPcs, CommitPcs
    <2> QED
      BY <2>1, NotWriting, DataOutside
  <1>7. CASE AllocateFence(c) \/ GiveUpLock(c) \/ GrantLock(c) \/ RenewAdvisory(c)
    <2>1. /\ UNCHANGED <<journal, published, disk, acked, istate, plan, rkey>>
          /\ \A d \in Clients \ {c} : pc'[d] = pc[d] /\ call'[d] = call[d]
          /\ pc'[c] \notin CasPcs /\ pc[c] # "idle"
      BY <1>1, <1>7 DEF AllocateFence, GiveUpLock, GrantLock, RenewAdvisory, Return, Goto,
                        CasPcs, CommitPcs
    <2> QED
      BY <2>1, NotWriting, DataOutside
  <1> QED
    BY <1>3, <1>4, <1>5, <1>6, <1>7

-----------------------------------------------------------------------------
(***************************************************************************)
(* write() under cas.lock.                                                 *)
(***************************************************************************)
\* The writer is alone, and its process serves.
LEMMA Writer ==
    ASSUME IInv, DataInv, NEW c \in Clients, pc[c] \in CasPcs
    PROVE  /\ \A d \in Clients \ {c} : pc[d] \notin CasPcs
           /\ \A i \in Instances : istate[i] # "resume"
           /\ Up /\ \A k \in Keys : Covers(k, published[k].pos)
           /\ call[c].key \in Keys /\ call[c].body \in Bodies
           /\ istate[Caller(c)] = "up"
  <1>1. pc[c] # "idle"
    BY DEF CasPcs, CommitPcs
  <1>2. istate[Caller(c)] = "up" /\ Up
    BY <1>1, DataTypes DEF DataInv, WriteOK, Up
  <1> QED
    BY <1>1, <1>2, CasAlone, DataTypes DEF IInv, DataInv, UpCovers

LEMMA WriterStep ==
    ASSUME IInv, DataInv, NEW c \in Clients, pc[c] \in CasPcs, UNCHANGED <<istate, plan, rkey>>,
           \A d \in Clients \ {c} : pc'[d] = pc[d], WriteOK(c)',
           RecordsOK', \A k \in Keys : VersionOK(k)',
           \A k \in Keys : Covers(k, published[k].pos)', Compared'
    PROVE  DataInv'
  <1>1. ASSUME NEW d \in Clients PROVE WriteOK(d)'
    <2>1. CASE d = c
      BY <2>1
    <2>2. CASE d # c
      <3>1. pc'[d] = pc[d] /\ pc[d] \notin CasPcs /\ WriteOK(d)
        BY <2>2, Writer DEF DataInv
      <3> QED
        BY <3>1 DEF WriteOK, CasPcs, CommitPcs, Caller
    <2> QED
      BY <2>1, <2>2
  <1>2. \A i \in Instances, k \in Keys : PlanOK(i, k)'
    BY Writer DEF DataInv, PlanOK
  <1>3. UpCovers'
    BY DEF UpCovers
  <1> QED
    BY <1>1, <1>2, <1>3 DEF DataInv

\* A create that finds its own body acknowledges the version that is published.
LEMMA RepeatCreateData == ASSUME IInv, DataInv, NEW c \in Clients, RepeatCreate(c) PROVE DataInv'
  <1> USE DEF files, locks, insts, locals, hist
  <1>k. PICK k \in Keys : k = call[c].key
    BY Writer DEF RepeatCreate, CasPcs
  <1>x. PICK x \in Nat : x = published[k].pos
    BY DataTypes
  <1>1. /\ pc[c] = "w_decide" /\ pc[c] \in CasPcs
        /\ call[c].cur = published[k] /\ call[c].cur.body = call[c].body
    BY <1>k DEF RepeatCreate, CreateRepeated, CasPcs, DataInv, WriteOK
  <1>2. k \in Keys /\ call[c].body \in Bodies /\ x \in Nat
    BY <1>1, Writer, DataTypes
  <1>3. x \in Positions /\ journal[x].key = k /\ Behind(k, x)
    BY <1>1, <1>2, <1>x DEF DataInv, VersionOK, BlobOK
  <1>4. /\ acked' = acked \cup {x} /\ UNCHANGED <<journal, published, disk, istate, plan, rkey>>
        /\ pc' = [pc EXCEPT ![c] = "idle"]
    BY <1>1, <1>x DEF RepeatCreate, Return, Goto
  <1>5. pc'[c] = "idle" /\ \A d \in Clients \ {c} : pc'[d] = pc[d]
    BY <1>4, DataTypes
  <1>p. Positions' = Positions /\ \A q : Replayable(q)' <=> Replayable(q)
    BY <1>4 DEF Positions, Replayable
  <1>l. \A z, q : IsLatest(z, q)' <=> IsLatest(z, q)
    BY <1>4 DEF Positions, Replayable, IsLatest
  <1>6. RecordsOK'
    BY <1>2, <1>3, <1>4, <1>p, <1>l DEF DataInv, RecordsOK
  <1>7. \A z \in Keys : VersionOK(z)'
    BY <1>4 DEF DataInv, VersionOK, BlobOK, Behind, NoTear, Positions, Replayable
  <1>8. ASSUME NEW z \in Keys PROVE Covers(z, published[z].pos)'
    <2>1. Covers(z, published[z].pos)
      BY <1>1, Writer
    <2>2. journal[x].key = z => x <= published[z].pos
      BY <1>2, <1>3, <1>x
    <2> QED
      BY <1>4, <2>1, <2>2 DEF Covers, Replayable
  <1>9. Compared'
    <2>1. ASSUME NEW q \in Positions, x < q, Replayable(q), journal[q].key = journal[x].key
          PROVE  x <= journal[q].base
      <3>1. q > x
        BY <1>2, <2>1 DEF Positions
      <3> QED
        BY <1>3, <2>1, <3>1 DEF Behind
    <2>2. Compared
      BY DEF DataInv
    <2>3. ASSUME NEW p \in acked, NEW q \in Positions, p < q, Replayable(q),
                 journal[q].key = journal[p].key
          PROVE  p <= journal[q].base
      BY <2>2, <2>3 DEF Compared
    <2> QED
      BY <1>4, <1>p, <2>1, <2>3 DEF Compared
  <1>10. WriteOK(c)'
    BY <1>4, <1>5, NotWriting DEF CasPcs, CommitPcs
  <1> QED
    BY <1>1, <1>4, <1>5, <1>6, <1>7, <1>8, <1>9, <1>10, WriterStep

\* The record that is appended was compared with the published blob.
LEMMA AppendData == ASSUME IInv, DataInv, NEW c \in Clients, AppendRecord(c) PROVE DataInv'
  <1> USE DEF files, locks, insts, locals, hist
  <1>k. PICK k \in Keys : k = call[c].key
    BY Writer DEF AppendRecord, CasPcs, CommitPcs
  <1>r. PICK r : r = RecordOf(c)
    OBVIOUS
  <1>n. PICK n \in Nat : n = Len(journal) + 1
    BY DataTypes
  <1>1. pc[c] = "w_append" /\ pc[c] \in CasPcs /\ call[c].cur = published[k]
    BY <1>k DEF AppendRecord, CasPcs, CommitPcs, DataInv, WriteOK
  <1>2. k \in Keys /\ call[c].body \in Bodies /\ published[k].pos \in Nat
    BY <1>1, Writer, DataTypes
  <1>3. r.key = k /\ r.body = call[c].body /\ r.base = published[k].pos
    BY <1>1, <1>k, <1>r DEF RecordOf
  <1>4. r \in Record
    BY <1>1, <1>2, <1>r, <1>k DEF RecordOf, FenceToAccept, Record, IInv, TypeOK, Lease
  <1>5. /\ journal' = Append(journal, r)
        /\ UNCHANGED <<published, disk, acked, istate, plan, rkey, call>>
        /\ pc' = [pc EXCEPT ![c] = IF call[c].expected = None THEN "w_reserve" ELSE "w_replace"]
    BY <1>r DEF AppendRecord, Goto
  <1>6. /\ pc'[c] \in {"w_reserve", "w_replace"}
        /\ \A d \in Clients \ {c} : pc'[d] = pc[d]
    BY <1>5, DataTypes
  <1>7. /\ Len(journal') = n /\ Len(journal) \in Nat
        /\ Positions' = Positions \cup {n} /\ n \notin Positions /\ journal'[n] = r
        /\ \A p \in Positions : journal'[p] = journal[p] /\ (Replayable(p)' <=> Replayable(p))
                                /\ p < n /\ p \in Nat
        /\ Replayable(n)' <=> NoTear
        /\ NoTear' => NoTear
    BY <1>2, <1>3, <1>4, <1>5, <1>n, Appending, DataTypes, SentinelAssumption
  <1>8. WriteOK(c)'
    BY <1>3, <1>5, <1>6, <1>7, <1>1, <1>k, Writer DEF WriteOK, Caller
  <1>9. ASSUME NEW z \in Keys, NEW p, IsLatest(z, p), z # k \/ ~NoTear PROVE IsLatest(z, p)'
    <2>1. /\ p \in Positions /\ Replayable(p) /\ journal[p].key = z /\ p \in Nat
          /\ \A q \in Positions : q > p /\ Replayable(q) => journal[q].key # z
      BY <1>7, <1>9 DEF IsLatest, Positions
    <2>2. ASSUME NEW q \in (p + 1)..Len(journal'), Replayable(q)' PROVE journal'[q].key # z
      <3>1. q \in Positions' /\ q > p
        BY <1>7, <2>1, <2>2 DEF Positions
      <3>2. CASE q \in Positions
        BY <1>7, <2>1, <2>2, <3>1, <3>2
      <3>3. CASE q = n
        BY <1>3, <1>7, <1>9, <2>2, <3>3
      <3> QED
        BY <1>7, <3>1, <3>2, <3>3
    <2> QED
      BY <1>7, <2>1, <2>2 DEF IsLatest
  <1>10. NoTear => IsLatest(k, n)'
    <2>1. \A q \in (n + 1)..Len(journal') : FALSE
      BY <1>7
    <2> QED
      BY <1>3, <1>7, <2>1 DEF IsLatest
  <1>11. RecordsOK'
    <2>1. ASSUME NEW p \in Positions', journal'[p].key \in Keys PROVE journal'[p].body \in Bodies
      BY <1>2, <1>3, <1>7, <2>1 DEF DataInv, RecordsOK
    <2>2. \A p \in acked' : p \in Positions' /\ journal'[p].key \in Keys
      BY <1>5, <1>7 DEF DataInv, RecordsOK
    <2>3. ASSUME NEW z \in Keys, NEW q \in Positions', Replayable(q)', journal'[q].key = z
          PROVE  \E p \in Positions' : IsLatest(z, p)'
      <3>1. CASE z = k /\ NoTear
        BY <1>7, <1>10, <3>1
      <3>2. CASE ~(z = k /\ NoTear)
        <4>1. q # n
          BY <1>3, <1>7, <2>3, <3>2
        <4>2. PICK p \in Positions : IsLatest(z, p)
          BY <1>7, <2>3, <4>1 DEF DataInv, RecordsOK
        <4> QED
          BY <1>7, <1>9, <3>2, <4>2
      <3> QED
        BY <3>1, <3>2
    <2> QED
      BY <2>1, <2>2, <2>3 DEF RecordsOK
  <1>12. ASSUME NEW z \in Keys PROVE VersionOK(z)'
    <2>1. /\ VersionOK(z) /\ published[z].pos \in Nat /\ disk[z].pos \in Nat
      BY DataTypes DEF DataInv
    <2>2. BlobOK(z, published[z])' /\ BlobOK(z, disk[z])'
      BY <1>5, <1>7, <2>1 DEF VersionOK, BlobOK
    <2>3. ASSUME NEW x \in Nat, Behind(z, x), NoTear => x <= published[z].pos
          PROVE  \A q \in Positions' : Replayable(q)' /\ journal'[q].key = z /\ q > x
                                       => x <= journal'[q].base
      BY <1>3, <1>7, <2>3 DEF Behind
    <2>4. /\ Behind(z, published[z].pos) /\ Behind(z, disk[z].pos)
          /\ NoTear => disk[z].pos <= published[z].pos /\ published[z].pos <= published[z].pos
      BY <2>1 DEF VersionOK
    <2>5. Behind(z, published[z].pos)'
      BY <1>5, <2>1, <2>3, <2>4 DEF Behind
    <2>6. Behind(z, disk[z].pos)'
      BY <1>5, <2>1, <2>3, <2>4 DEF Behind
    <2> QED
      BY <1>5, <1>7, <2>1, <2>2, <2>5, <2>6 DEF VersionOK
  <1>13. \A z \in Keys : Covers(z, published[z].pos)'
    BY <1>1, <1>5, <1>7, Writer DEF Covers, DataInv, RecordsOK
  <1>14. Compared'
    <2>1. ASSUME NEW p \in acked, NEW q \in Positions', p < q, Replayable(q)',
                 journal'[q].key = journal'[p].key
          PROVE  p <= journal'[q].base
      <3>1. p \in Positions /\ journal[p].key \in Keys
        BY DEF DataInv, RecordsOK
      <3>2. CASE q \in Positions
        BY <1>7, <2>1, <3>1, <3>2 DEF DataInv, Compared
      <3>3. CASE q = n
        <4>1. Replayable(p) /\ journal[p].key = k
          BY <1>3, <1>7, <2>1, <3>1, <3>3 DEF NoTear
        <4>2. p <= published[k].pos
          BY <1>1, <1>2, <4>1, Writer DEF Covers
        <4> QED
          BY <1>3, <1>7, <3>3, <4>2
      <3> QED
        BY <1>7, <3>2, <3>3
    <2> QED
      BY <1>5, <2>1 DEF Compared
  <1> QED
    BY <1>1, <1>5, <1>6, <1>8, <1>11, <1>12, <1>13, <1>14, WriterStep

\* create=True: an empty file where nothing was, at version 0.
LEMMA ReserveData == ASSUME IInv, DataInv, NEW c \in Clients, ReserveName(c) PROVE DataInv'
  <1> USE DEF files, locks, insts, locals, hist
  <1>k. PICK k \in Keys : k = call[c].key
    BY Writer DEF ReserveName, CasPcs, CommitPcs
  <1>1. /\ pc[c] = "w_reserve" /\ pc[c] \in CasPcs /\ published[k].body = Absent
        /\ published' = [published EXCEPT ![k] = [body |-> Empty, pos |-> 0]]
        /\ pc' = [pc EXCEPT ![c] = "w_replace"]
        /\ UNCHANGED <<journal, disk, acked, istate, plan, rkey, call>>
    BY <1>k DEF ReserveName, Goto, CasPcs, CommitPcs
  <1>2. pc'[c] = "w_replace" /\ \A d \in Clients \ {c} : pc'[d] = pc[d]
    BY <1>1, DataTypes
  <1>3. published[k].pos = 0
    BY <1>1, SentinelAssumption DEF DataInv, VersionOK, BlobOK
  <1>4. /\ published'[k] = [body |-> Empty, pos |-> 0]
        /\ \A z \in Keys : z # k => published'[z] = published[z]
        /\ \A z \in Keys : published'[z].pos = published[z].pos
    BY <1>1, <1>3, DataTypes
  <1>p. Positions' = Positions /\ NoTear' = NoTear /\ \A q : Replayable(q)' <=> Replayable(q)
    BY <1>1 DEF Positions, Replayable, NoTear
  <1>l. \A z, q : IsLatest(z, q)' <=> IsLatest(z, q)
    BY <1>1 DEF Positions, Replayable, IsLatest
  <1>5. RecordsOK' /\ Compared'
    BY <1>1, <1>p, <1>l DEF DataInv, RecordsOK, Compared
  <1>6. ASSUME NEW z \in Keys PROVE VersionOK(z)'
    <2>1. VersionOK(z)
      BY DEF DataInv
    <2>2. BlobOK(z, published[z])'
      BY <1>1, <1>4, <1>p, <2>1, SentinelAssumption DEF VersionOK, BlobOK
    <2>3. BlobOK(z, disk[z])'
      BY <1>1, <1>p, <2>1 DEF VersionOK, BlobOK
    <2>4. Behind(z, published[z].pos)' /\ Behind(z, disk[z].pos)'
      BY <1>1, <1>4, <1>p, <2>1 DEF VersionOK, Behind
    <2> QED
      BY <1>1, <1>4, <1>p, <2>1, <2>2, <2>3, <2>4 DEF VersionOK
  <1>7. \A z \in Keys : Covers(z, published[z].pos)'
    BY <1>1, <1>4, <1>p, Writer DEF Covers
  <1>8. WriteOK(c)'
    BY <1>1, <1>2 DEF DataInv, WriteOK, Caller
  <1> QED
    BY <1>1, <1>2, <1>5, <1>6, <1>7, <1>8, WriterStep

\* os.replace publishes the last record of the journal.
LEMMA ReplaceData == ASSUME IInv, DataInv, NEW c \in Clients, ReplaceBlob(c) PROVE DataInv'
  <1> USE DEF files, locks, insts, locals, hist
  <1>k. PICK k \in Keys : k = call[c].key
    BY Writer DEF ReplaceBlob, CasPcs, CommitPcs
  <1>n. PICK n \in Nat : n = Len(journal)
    BY DataTypes
  <1>1. /\ pc[c] = "w_replace" /\ pc[c] \in CasPcs
        /\ published' = [published EXCEPT ![k] = [body |-> call[c].body, pos |-> n]]
        /\ pc' = [pc EXCEPT ![c] = "w_sync"]
        /\ UNCHANGED <<journal, disk, acked, istate, plan, rkey, call>>
    BY <1>k, <1>n DEF ReplaceBlob, Goto, CasPcs, CommitPcs
  <1>2. pc'[c] = "w_sync" /\ \A d \in Clients \ {c} : pc'[d] = pc[d]
    BY <1>1, DataTypes
  <1>3. n > 0 /\ journal[n].key = k /\ journal[n].body = call[c].body
    BY <1>1, <1>k, <1>n DEF IInv, FenceInv, RecordIsOwn, DataInv, WriteOK
  <1>4. /\ published'[k] = [body |-> call[c].body, pos |-> n]
        /\ \A z \in Keys : z # k => published'[z] = published[z]
    BY <1>1, DataTypes
  <1>5. n \in Positions /\ \A q \in Positions : q <= n /\ ~(q > n)
    BY <1>3, <1>n, DataTypes DEF Positions
  <1>p. Positions' = Positions /\ NoTear' = NoTear /\ \A q : Replayable(q)' <=> Replayable(q)
    BY <1>1 DEF Positions, Replayable, NoTear
  <1>l. \A z, q : IsLatest(z, q)' <=> IsLatest(z, q)
    BY <1>1 DEF Positions, Replayable, IsLatest
  <1>6. RecordsOK' /\ Compared'
    BY <1>1, <1>p, <1>l DEF DataInv, RecordsOK, Compared
  <1>7. ASSUME NEW z \in Keys, z # k PROVE VersionOK(z)'
    <2>1. VersionOK(z)
      BY DEF DataInv
    <2>2. BlobOK(z, published[z])' /\ BlobOK(z, disk[z])'
      BY <1>1, <1>4, <1>p, <1>7, <2>1 DEF VersionOK, BlobOK
    <2>3. Behind(z, published[z].pos)' /\ Behind(z, disk[z].pos)'
      BY <1>1, <1>4, <1>p, <1>7, <2>1 DEF VersionOK, Behind
    <2> QED
      BY <1>1, <1>4, <1>p, <1>7, <2>1, <2>2, <2>3 DEF VersionOK
  <1>8. VersionOK(k)'
    <2>1. VersionOK(k)
      BY DEF DataInv
    <2>2. BlobOK(k, published[k])' /\ BlobOK(k, disk[k])'
      BY <1>1, <1>3, <1>4, <1>5, <1>p, <2>1, Writer DEF VersionOK, BlobOK
    <2>3. Behind(k, published[k].pos)' /\ Behind(k, disk[k].pos)'
      BY <1>1, <1>4, <1>5, <1>p, <2>1 DEF VersionOK, Behind
    <2>4. disk[k].pos <= n
      <3>1. disk[k].pos \in Positions \cup {0}
        BY <2>1 DEF VersionOK, BlobOK
      <3>2. 0 <= n
        BY <1>n
      <3> QED
        BY <1>5, <3>1, <3>2
    <2> QED
      BY <1>1, <1>4, <2>2, <2>3, <2>4 DEF VersionOK
  <1>9. ASSUME NEW z \in Keys PROVE Covers(z, published[z].pos)'
    <2>1. Covers(z, published[z].pos) /\ \A p \in acked : p <= n
      BY <1>1, <1>5, Writer DEF DataInv, RecordsOK
    <2> QED
      BY <1>1, <1>4, <1>p, <2>1 DEF Covers
  <1>10. WriteOK(c)'
    BY <1>1, <1>2, <1>3, <1>4, <1>k, <1>n DEF DataInv, WriteOK, Caller
  <1> QED
    BY <1>1, <1>2, <1>6, <1>7, <1>8, <1>9, <1>10, WriterStep

\* The OK stands on the last record of the journal, which is published and durable.
LEMMA FinishData == ASSUME IInv, DataInv, NEW c \in Clients, FinishWrite(c) PROVE DataInv'
  <1> USE DEF files, locks, insts, locals, hist
  <1>k. PICK k \in Keys : k = call[c].key
    BY Writer DEF FinishWrite, CasPcs, CommitPcs
  <1>n. PICK n \in Nat : n = Len(journal)
    BY DataTypes
  <1>1. /\ pc[c] = "w_sync" /\ pc[c] \in CasPcs
        /\ disk' = [disk EXCEPT ![k] = published[k]]
        /\ acked' = acked \cup {n}
        /\ pc' = [pc EXCEPT ![c] = "idle"]
        /\ UNCHANGED <<journal, published, istate, plan, rkey>>
    BY <1>k, <1>n DEF FinishWrite, Return, Goto, CasPcs, CommitPcs
  <1>2. pc'[c] = "idle" /\ \A d \in Clients \ {c} : pc'[d] = pc[d]
    BY <1>1, DataTypes
  <1>3. n > 0 /\ journal[n].key = k /\ published[k].pos = n
    BY <1>1, <1>k, <1>n DEF IInv, FenceInv, RecordIsOwn, DataInv, WriteOK
  <1>4. /\ disk'[k] = published[k]
        /\ \A z \in Keys : z # k => disk'[z] = disk[z]
    BY <1>1, DataTypes
  <1>5. n \in Positions /\ \A q \in Positions : q <= n /\ ~(n < q)
    BY <1>3, <1>n, DataTypes DEF Positions
  <1>p. Positions' = Positions /\ NoTear' = NoTear /\ \A q : Replayable(q)' <=> Replayable(q)
    BY <1>1 DEF Positions, Replayable, NoTear
  <1>l. \A z, q : IsLatest(z, q)' <=> IsLatest(z, q)
    BY <1>1 DEF Positions, Replayable, IsLatest
  <1>6. RecordsOK'
    BY <1>1, <1>3, <1>5, <1>p, <1>l DEF DataInv, RecordsOK
  <1>7. Compared'
    <2>1. Compared
      BY DEF DataInv
    <2> QED
      BY <1>1, <1>5, <1>p, <2>1 DEF Compared
  <1>8. ASSUME NEW z \in Keys PROVE VersionOK(z)'
    <2>1. VersionOK(z)
      BY DEF DataInv
    <2>2. BlobOK(z, published[z])' /\ BlobOK(z, disk[z])'
      BY <1>1, <1>4, <1>p, <2>1 DEF VersionOK, BlobOK
    <2>3. Behind(z, published[z].pos)' /\ Behind(z, disk[z].pos)'
      BY <1>1, <1>4, <1>p, <2>1 DEF VersionOK, Behind
    <2>4. NoTear => disk'[z].pos <= published[z].pos
      BY <1>3, <1>4, <2>1 DEF VersionOK
    <2> QED
      BY <1>1, <1>p, <2>2, <2>3, <2>4 DEF VersionOK
  <1>9. ASSUME NEW z \in Keys PROVE Covers(z, published[z].pos)'
    <2>1. Covers(z, published[z].pos)
      BY <1>1, Writer
    <2> QED
      BY <1>1, <1>3, <1>p, <2>1 DEF Covers
  <1>10. WriteOK(c)'
    BY <1>1, <1>2, NotWriting DEF CasPcs, CommitPcs
  <1> QED
    BY <1>1, <1>2, <1>6, <1>7, <1>8, <1>9, <1>10, WriterStep

-----------------------------------------------------------------------------
(***************************************************************************)
(* _resume() under cas.lock.                                               *)
(***************************************************************************)
\* A constructor is alone under cas.lock.
LEMMA Restorer ==
    ASSUME IInv, NEW i \in Instances, istate[i] = "resume" \/ casLock = None
    PROVE  /\ \A c \in Clients : pc[c] \notin CasPcs
           /\ \A j \in Instances \ {i} : istate[j] # "resume"
  BY SentinelAssumption DEF IInv, FenceInv, CasExclusive

\* It restores one key.
LEMMA ResumeStep ==
    ASSUME IInv, DataInv, NEW i \in Instances, NEW k \in Keys, istate[i] = "resume",
           UNCHANGED <<journal, acked, istate, pc, call>>,
           \A j \in Instances \ {i} : rkey'[j] = rkey[j],
           \A z \in Keys \ {k} : /\ plan'[i][z] = plan[i][z]
                                 /\ published'[z] = published[z] /\ disk'[z] = disk[z],
           rkey'[i] \in {None, k}, VersionOK(k)', PlanOK(i, k)',
           Up => Covers(k, published[k].pos)'
    PROVE  DataInv'
  <1>p. /\ Positions' = Positions /\ NoTear' = NoTear /\ Up' = Up
        /\ \A q : Replayable(q)' <=> Replayable(q)
    BY DEF Positions, Replayable, NoTear, Up
  <1>l. \A z, q : IsLatest(z, q)' <=> IsLatest(z, q)
    BY DEF Positions, Replayable, IsLatest
  <1>1. RecordsOK' /\ Compared'
    BY <1>p, <1>l DEF DataInv, RecordsOK, Compared
  <1>2. ASSUME NEW z \in Keys, z # k PROVE VersionOK(z)'
    <2>1. VersionOK(z) /\ published'[z] = published[z] /\ disk'[z] = disk[z]
      BY <1>2 DEF DataInv
    <2>2. BlobOK(z, published[z])' /\ BlobOK(z, disk[z])'
      BY <1>p, <2>1 DEF VersionOK, BlobOK
    <2>3. Behind(z, published[z].pos)' /\ Behind(z, disk[z].pos)'
      BY <1>p, <2>1 DEF VersionOK, Behind
    <2> QED
      BY <1>p, <2>1, <2>2, <2>3 DEF VersionOK
  <1>3. ASSUME NEW d \in Clients PROVE WriteOK(d)'
    <2>1. WriteOK(d) /\ pc[d] \notin CasPcs
      BY Restorer DEF DataInv
    <2> QED
      BY <2>1 DEF WriteOK, CasPcs, CommitPcs, Caller
  <1>4. ASSUME NEW j \in Instances, NEW z \in Keys, j # i PROVE PlanOK(j, z)'
    <2>1. PlanOK(j, z) /\ istate[j] # "resume" /\ rkey'[j] = rkey[j]
      BY <1>4, Restorer DEF DataInv
    <2> QED
      BY <2>1 DEF PlanOK
  <1>5. ASSUME NEW z \in Keys, z # k PROVE PlanOK(i, z)'
    <2>1. /\ PlanOK(i, z) /\ plan'[i][z] = plan[i][z] /\ published'[z] = published[z]
          /\ rkey'[i] # z
      BY <1>5, SentinelAssumption DEF DataInv
    <2>2. Covers(z, published[z].pos)' <=> Covers(z, published[z].pos)
      BY <1>p, <2>1 DEF Covers
    <2>3. plan[i][z] # 0 => IsLatest(z, plan[i][z])'
      BY <1>l, <2>1 DEF PlanOK
    <2> QED
      BY <2>1, <2>2, <2>3 DEF PlanOK
  <1>6. UpCovers'
    <2>1. ASSUME Up, NEW z \in Keys, z # k PROVE Covers(z, published[z].pos)'
      <3>1. Covers(z, published[z].pos) /\ published'[z] = published[z]
        BY <2>1 DEF DataInv, UpCovers
      <3> QED
        BY <1>p, <3>1 DEF Covers
    <2> QED
      BY <1>p, <2>1 DEF UpCovers
  <1> QED
    BY <1>1, <1>2, <1>3, <1>4, <1>5, <1>6 DEF DataInv

\* The blob has the journaled body already: it counts as that version.
LEMMA SkipData ==
    ASSUME IInv, DataInv, NEW i \in Instances, NEW k \in Keys, ResumeSkip(i, k) PROVE DataInv'
  <1> USE DEF files, locks, insts, locals, hist
  <1>p. PICK p : p = plan[i][k]
    OBVIOUS
  <1>1. /\ istate[i] = "resume" /\ rkey[i] = None /\ p # 0
        /\ published[k].body = journal[p].body
        /\ published' = [published EXCEPT ![k].pos = p]
        /\ plan' = [plan EXCEPT ![i][k] = 0]
        /\ UNCHANGED <<journal, disk, acked, istate, rkey, pc, call>>
    BY <1>p DEF ResumeSkip, Restoring, Restored, JournaledBody
  <1>2. IsLatest(k, p)
    BY <1>1, <1>p DEF DataInv, PlanOK
  <1>3. /\ published'[k].body = journal[p].body /\ published'[k].pos = p
        /\ \A z \in Keys \ {k} : published'[z] = published[z]
    BY <1>1, DataTypes DEF Blob
  <1>4. /\ plan'[i][k] = 0
        /\ \A z \in Keys \ {k} : plan'[i][z] = plan[i][z]
    BY <1>1, DataTypes
  <1>5. /\ p \in Positions /\ p \in Nat /\ journal[p].key = k /\ journal[p].body \in Bodies
        /\ Covers(k, p) /\ Behind(k, p)
        /\ \A b : NoTear /\ BlobOK(k, b) => b.pos <= p
    BY <1>2, LatestIsLast DEF DataInv
  <1>q. Positions' = Positions /\ NoTear' = NoTear /\ \A q : Replayable(q)' <=> Replayable(q)
    BY <1>1 DEF Positions, Replayable, NoTear
  <1>6. Covers(k, published[k].pos)'
    BY <1>1, <1>3, <1>5, <1>q DEF Covers
  <1>7. VersionOK(k)'
    <2>1. VersionOK(k)
      BY DEF DataInv
    <2>2. BlobOK(k, published[k])' /\ BlobOK(k, disk[k])'
      BY <1>1, <1>3, <1>5, <1>q, <2>1 DEF VersionOK, BlobOK
    <2>3. Behind(k, published[k].pos)' /\ Behind(k, disk[k].pos)'
      BY <1>1, <1>3, <1>5, <1>q, <2>1 DEF VersionOK, Behind
    <2>4. NoTear => disk[k].pos <= p
      BY <1>5, <2>1 DEF VersionOK
    <2> QED
      BY <1>1, <1>3, <1>q, <2>2, <2>3, <2>4 DEF VersionOK
  <1>8. PlanOK(i, k)'
    BY <1>1, <1>4, <1>6, SentinelAssumption DEF PlanOK
  <1>9. rkey' = rkey /\ rkey'[i] = None
    BY <1>1
  <1> QED
    BY <1>1, <1>3, <1>4, <1>6, <1>7, <1>8, <1>9, ResumeStep

\* The blob is missing: the name is reserved first.
LEMMA MissingData ==
    ASSUME IInv, DataInv, NEW i \in Instances, NEW k \in Keys, ResumeReserve(i, k) PROVE DataInv'
  <1> USE DEF files, locks, insts, locals, hist
  <1>1. /\ istate[i] = "resume" /\ rkey[i] = None /\ plan[i][k] # 0
        /\ published[k].body = Absent
        /\ published' = [published EXCEPT ![k] = [body |-> Empty, pos |-> 0]]
        /\ rkey' = [rkey EXCEPT ![i] = k]
        /\ UNCHANGED <<journal, disk, acked, istate, plan, pc, call>>
    BY DEF ResumeReserve, Restoring
  <1>2. IsLatest(k, plan[i][k]) /\ VersionOK(k)
    BY <1>1 DEF DataInv, PlanOK
  <1>3. published[k].pos = 0
    BY <1>1, <1>2, SentinelAssumption DEF VersionOK, BlobOK
  <1>4. /\ published'[k].body = Empty /\ published'[k].pos = 0
        /\ \A z \in Keys \ {k} : published'[z] = published[z]
    BY <1>1, DataTypes
  <1>5. /\ rkey'[i] = k
        /\ \A j \in Instances \ {i} : rkey'[j] = rkey[j]
    BY <1>1, DataTypes
  <1>q. Positions' = Positions /\ NoTear' = NoTear /\ \A q : Replayable(q)' <=> Replayable(q)
    BY <1>1 DEF Positions, Replayable, NoTear
  <1>6. Up => Covers(k, published[k].pos)'
    BY <1>1, <1>3, <1>4, <1>q DEF Covers, DataInv, UpCovers
  <1>7. VersionOK(k)'
    <2>1. BlobOK(k, published[k])' /\ BlobOK(k, disk[k])'
      BY <1>1, <1>2, <1>4, <1>q, SentinelAssumption DEF VersionOK, BlobOK
    <2>2. Behind(k, published[k].pos)' /\ Behind(k, disk[k].pos)'
      BY <1>1, <1>2, <1>3, <1>4, <1>q DEF VersionOK, Behind
    <2> QED
      BY <1>1, <1>2, <1>3, <1>4, <1>q, <2>1, <2>2 DEF VersionOK
  <1>8. PlanOK(i, k)'
    <2>1. IsLatest(k, plan[i][k])'
      BY <1>1, <1>2, <1>q DEF IsLatest
    <2> QED
      BY <1>1, <1>4, <2>1 DEF PlanOK
  <1>9. rkey'[i] \in {None, k} /\ \A z \in Keys \ {k} : plan'[i][z] = plan[i][z] /\ disk'[z] = disk[z]
    BY <1>1, <1>5
  <1> QED
    BY <1>1, <1>4, <1>5, <1>6, <1>7, <1>8, <1>9, ResumeStep

\* The journaled record replaces another blob.
LEMMA RestoreData ==
    ASSUME IInv, DataInv, NEW i \in Instances, NEW k \in Keys, ResumeReplace(i, k) PROVE DataInv'
  <1> USE DEF files, locks, insts, locals, hist
  <1>p. PICK p : p = plan[i][k]
    OBVIOUS
  <1>1. /\ istate[i] = "resume" /\ p # 0
        /\ published' = [published EXCEPT ![k] = [body |-> journal[p].body, pos |-> p]]
        /\ rkey' = [rkey EXCEPT ![i] = k]
        /\ UNCHANGED <<journal, disk, acked, istate, plan, pc, call>>
    BY <1>p DEF ResumeReplace, Restoring, JournaledBody
  <1>2. IsLatest(k, p) /\ VersionOK(k)
    BY <1>1, <1>p DEF DataInv, PlanOK
  <1>3. /\ published'[k].body = journal[p].body /\ published'[k].pos = p
        /\ \A z \in Keys \ {k} : published'[z] = published[z]
    BY <1>1, DataTypes
  <1>4. /\ rkey'[i] = k
        /\ \A j \in Instances \ {i} : rkey'[j] = rkey[j]
    BY <1>1, DataTypes
  <1>5. /\ p \in Positions /\ p \in Nat /\ journal[p].key = k /\ journal[p].body \in Bodies
        /\ Covers(k, p) /\ Behind(k, p)
        /\ \A b : NoTear /\ BlobOK(k, b) => b.pos <= p
    BY <1>2, LatestIsLast DEF DataInv
  <1>q. Positions' = Positions /\ NoTear' = NoTear /\ \A q : Replayable(q)' <=> Replayable(q)
    BY <1>1 DEF Positions, Replayable, NoTear
  <1>6. Covers(k, published[k].pos)'
    BY <1>1, <1>3, <1>5, <1>q DEF Covers
  <1>7. VersionOK(k)'
    <2>2. BlobOK(k, published[k])' /\ BlobOK(k, disk[k])'
      BY <1>1, <1>2, <1>3, <1>5, <1>q DEF VersionOK, BlobOK
    <2>3. Behind(k, published[k].pos)' /\ Behind(k, disk[k].pos)'
      BY <1>1, <1>2, <1>3, <1>5, <1>q DEF VersionOK, Behind
    <2>4. NoTear => disk[k].pos <= p
      BY <1>2, <1>5 DEF VersionOK
    <2> QED
      BY <1>1, <1>3, <1>q, <2>2, <2>3, <2>4 DEF VersionOK
  <1>8. PlanOK(i, k)'
    <2>1. IsLatest(k, p)'
      BY <1>1, <1>2, <1>q DEF IsLatest
    <2>2. plan'[i][k] = p
      BY <1>1, <1>p
    <2> QED
      BY <1>1, <1>3, <2>1, <2>2 DEF PlanOK
  <1>9. rkey'[i] \in {None, k} /\ \A z \in Keys \ {k} : plan'[i][z] = plan[i][z] /\ disk'[z] = disk[z]
    BY <1>1, <1>4
  <1> QED
    BY <1>1, <1>3, <1>4, <1>6, <1>7, <1>8, <1>9, ResumeStep

\* The replacement is durable, and the key is done.
LEMMA SyncData ==
    ASSUME IInv, DataInv, NEW i \in Instances, NEW k \in Keys, ResumeSync(i, k) PROVE DataInv'
  <1> USE DEF files, locks, insts, locals, hist
  <1>p. PICK p : p = plan[i][k]
    OBVIOUS
  <1>1. /\ istate[i] = "resume" /\ rkey[i] = k /\ p # 0
        /\ published[k].body = journal[p].body
        /\ disk' = [disk EXCEPT ![k] = published[k]]
        /\ plan' = [plan EXCEPT ![i][k] = 0]
        /\ rkey' = [rkey EXCEPT ![i] = None]
        /\ UNCHANGED <<journal, published, acked, istate, pc, call>>
    BY <1>p DEF ResumeSync, Restoring, Restored, JournaledBody
  <1>2. IsLatest(k, p) /\ VersionOK(k) /\ (published[k].body = Empty \/ published[k].pos = p)
    BY <1>1, <1>p DEF DataInv, PlanOK
  <1>3. /\ p \in Positions /\ p \in Nat /\ journal[p].body \in Bodies
        /\ Covers(k, p) /\ Behind(k, p)
    BY <1>2, LatestIsLast DEF DataInv
  <1>4. published[k].pos = p
    BY <1>1, <1>2, <1>3, SentinelAssumption
  <1>5. /\ disk'[k] = published[k]
        /\ \A z \in Keys \ {k} : disk'[z] = disk[z]
        /\ plan'[i][k] = 0
        /\ \A z \in Keys \ {k} : plan'[i][z] = plan[i][z]
        /\ rkey'[i] = None
        /\ \A j \in Instances \ {i} : rkey'[j] = rkey[j]
    BY <1>1, DataTypes
  <1>q. Positions' = Positions /\ NoTear' = NoTear /\ \A q : Replayable(q)' <=> Replayable(q)
    BY <1>1 DEF Positions, Replayable, NoTear
  <1>6. Covers(k, published[k].pos)'
    BY <1>1, <1>3, <1>4, <1>q DEF Covers
  <1>7. VersionOK(k)'
    <2>2. BlobOK(k, published[k])' /\ BlobOK(k, disk[k])'
      BY <1>1, <1>2, <1>5, <1>q DEF VersionOK, BlobOK
    <2>3. Behind(k, published[k].pos)' /\ Behind(k, disk[k].pos)'
      BY <1>1, <1>2, <1>5, <1>q DEF VersionOK, Behind
    <2> QED
      BY <1>1, <1>3, <1>4, <1>5, <2>2, <2>3 DEF VersionOK
  <1>8. PlanOK(i, k)'
    BY <1>1, <1>5, <1>6, SentinelAssumption DEF PlanOK
  <1>9. rkey'[i] \in {None, k} /\ \A z \in Keys \ {k} : published'[z] = published[z]
    BY <1>1, <1>5
  <1> QED
    BY <1>1, <1>5, <1>6, <1>7, <1>8, <1>9, ResumeStep

\* A constructor begins with the records replay keeps, and ends with every key
\* at its record, or ahead of it.
LEMMA StartData ==
    ASSUME IInv, DataInv, NEW i \in Instances, StartInstance(i) \/ ResumeDone(i) PROVE DataInv'
  <1> USE DEF files, locks, insts, locals, hist
  <1>1. /\ UNCHANGED <<journal, published, disk, acked, rkey, pc, call>>
        /\ istate[i] = "resume" \/ casLock = None
    BY DEF StartInstance, TakeCasLock, ResumeDone
  <1>2. /\ \A c \in Clients : pc[c] \notin CasPcs
        /\ \A j \in Instances \ {i} : istate[j] # "resume"
    BY <1>1, Restorer
  <1>q. Positions' = Positions /\ NoTear' = NoTear /\ \A q : Replayable(q)' <=> Replayable(q)
    BY <1>1 DEF Positions, Replayable, NoTear
  <1>l. \A z, q : /\ IsLatest(z, q)' <=> IsLatest(z, q)
                  /\ Covers(z, q)' <=> Covers(z, q)
    BY <1>1 DEF Positions, Replayable, IsLatest, Covers
  <1>3. RecordsOK' /\ Compared'
    BY <1>1, <1>q, <1>l DEF DataInv, RecordsOK, Compared
  <1>4. ASSUME NEW z \in Keys PROVE VersionOK(z)'
    <2>1. VersionOK(z)
      BY DEF DataInv
    <2> QED
      BY <1>1, <1>q, <2>1 DEF VersionOK, BlobOK, Behind
  <1>5. CASE StartInstance(i)
    <2>1. /\ istate[i] = "down" /\ istate' = [istate EXCEPT ![i] = "resume"]
          /\ plan' = [plan EXCEPT ![i] = [k \in Keys |-> Latest(k)]]
      BY <1>5 DEF StartInstance
    <2>2. /\ istate'[i] = "resume" /\ \A k \in Keys : plan'[i][k] = Latest(k)
          /\ \A j \in Instances \ {i} : istate'[j] = istate[j]
      BY <2>1, DataTypes
    <2>3. ASSUME NEW c \in Clients PROVE WriteOK(c)'
      <3>1. WriteOK(c) /\ Caller(c) \in Instances
        BY DataTypes DEF DataInv
      <3> QED
        BY <1>1, <1>2, <2>1, <2>2, <3>1 DEF WriteOK, CasPcs, CommitPcs, Caller
    <2>4. ASSUME NEW j \in Instances, NEW k \in Keys PROVE PlanOK(j, k)'
      <3>1. PlanOK(j, k)
        BY DEF DataInv
      <3>2. CASE j # i
        BY <1>1, <1>2, <2>2, <3>1, <3>2 DEF PlanOK
      <3>3. CASE j = i
        <4>1. plan'[i][k] = Latest(k) /\ rkey'[i] # k
          BY <1>1, <2>1, <2>2, <3>1, <3>3, SentinelAssumption DEF PlanOK
        <4>2. 0 \notin Positions
          BY DataTypes DEF Positions
        <4>3. CASE Latest(k) # 0
          <5>1. IsLatest(k, Latest(k))
            BY <4>3, LatestType
          <5> QED
            BY <1>l, <2>2, <3>3, <4>1, <4>3, <5>1 DEF PlanOK
        <4>4. CASE Latest(k) = 0
          <5>1. ~\E p \in Positions : IsLatest(k, p)
            BY <4>2, <4>4 DEF Latest
          <5>2. Covers(k, published[k].pos)
            BY <5>1 DEF Covers, DataInv, RecordsOK
          <5>3. Covers(k, published[k].pos)'
            BY <1>1, <1>l, <5>2
          <5> QED
            BY <2>2, <3>3, <4>1, <4>4, <5>3 DEF PlanOK
        <4> QED
          BY <4>3, <4>4
      <3> QED
        BY <3>2, <3>3
    <2>5. UpCovers'
      <3>1. Up' => Up
        BY <2>1, <2>2 DEF Up
      <3> QED
        BY <1>1, <1>l, <3>1 DEF DataInv, UpCovers
    <2> QED
      BY <1>3, <1>4, <2>3, <2>4, <2>5 DEF DataInv
  <1>6. CASE ResumeDone(i)
    <2>1. /\ istate[i] = "resume" /\ rkey[i] = None /\ plan[i] = NoPlan
          /\ istate' = [istate EXCEPT ![i] = "up"] /\ UNCHANGED plan
      BY <1>6 DEF ResumeDone
    <2>2. /\ istate'[i] = "up"
          /\ \A j \in Instances \ {i} : istate'[j] = istate[j]
      BY <2>1, DataTypes
    <2>3. ASSUME NEW c \in Clients PROVE WriteOK(c)'
      <3>1. WriteOK(c) /\ Caller(c) \in Instances
        BY DataTypes DEF DataInv
      <3> QED
        BY <1>1, <1>2, <2>1, <2>2, <3>1 DEF WriteOK, CasPcs, CommitPcs, Caller
    <2>4. ASSUME NEW j \in Instances, NEW k \in Keys PROVE PlanOK(j, k)'
      <3>1. PlanOK(j, k) /\ istate'[j] # "resume"
        BY <1>2, <2>2 DEF DataInv
      <3> QED
        BY <1>1, <1>2, <2>1, <3>1 DEF PlanOK
    <2>5. ASSUME NEW k \in Keys PROVE Covers(k, published[k].pos)
      <3>1. PlanOK(i, k) /\ plan[i][k] = 0
        BY <2>1 DEF DataInv, NoPlan
      <3> QED
        BY <2>1, <3>1 DEF PlanOK
    <2>6. UpCovers'
      BY <1>1, <1>l, <2>5 DEF UpCovers
    <2> QED
      BY <1>3, <1>4, <2>3, <2>4, <2>6 DEF DataInv
  <1> QED
    BY <1>5, <1>6

-----------------------------------------------------------------------------
(***************************************************************************)
(* Crashes.                                                                *)
(***************************************************************************)
\* What the death of processes leaves in memory.
LEMMA ForgetData ==
    ASSUME IInv, DataInv, NEW dead \in SUBSET Instances, Forget(dead)
    PROVE  /\ \A c \in Clients : pc'[c] # "idle" => /\ Caller(c) \notin dead
                                                    /\ pc'[c] = pc[c] /\ call'[c] = call[c]
                                                    /\ istate'[Caller(c)] = "up"
           /\ \A i \in Instances : istate'[i] # "down"
                => i \notin dead /\ istate'[i] = istate[i] /\ plan'[i] = plan[i] /\ rkey'[i] = rkey[i]
           /\ \A i \in Instances : istate'[i] # "resume" => rkey'[i] = None
           /\ Up' => Up
  <1>1. ASSUME NEW c \in Clients, pc'[c] # "idle"
        PROVE  /\ Caller(c) \notin dead /\ pc'[c] = pc[c] /\ call'[c] = call[c]
               /\ istate'[Caller(c)] = "up"
    <2>1. Caller(c) \notin dead /\ pc'[c] = pc[c] /\ call'[c] = call[c]
      BY <1>1, SentinelAssumption DEF Forget
    <2>2. istate[Caller(c)] = "up" /\ Caller(c) \in Instances
      BY <1>1, <2>1, DataTypes DEF DataInv, WriteOK
    <2> QED
      BY <2>1, <2>2 DEF Forget
  <1>2. ASSUME NEW i \in Instances, istate'[i] # "down"
        PROVE  i \notin dead /\ istate'[i] = istate[i] /\ plan'[i] = plan[i] /\ rkey'[i] = rkey[i]
    BY <1>2 DEF Forget
  <1>3. ASSUME NEW i \in Instances, istate'[i] # "resume" PROVE rkey'[i] = None
    <2>1. CASE i \in dead
      BY <2>1 DEF Forget
    <2>2. CASE i \notin dead
      <3>1. istate'[i] = istate[i] /\ rkey'[i] = rkey[i]
        BY <2>2 DEF Forget
      <3>2. CASE Keys = {}
        BY <3>1, <3>2, DataTypes
      <3>3. CASE Keys # {}
        BY <1>3, <3>1, <3>3 DEF DataInv, PlanOK
      <3> QED
        BY <3>2, <3>3
    <2> QED
      BY <2>1, <2>2
  <1>4. Up' => Up
    BY <1>2 DEF Up
  <1> QED
    BY <1>1, <1>2, <1>3, <1>4

\* A process dies and the files stay.
LEMMA DeathData ==
    ASSUME IInv, DataInv, NEW dead \in SUBSET Instances, Forget(dead),
           UNCHANGED <<journal, published, disk, acked>>
    PROVE  DataInv'
  <1>1. ASSUME NEW c \in Clients PROVE WriteOK(c)'
    <2>1. CASE pc'[c] = "idle"
      BY <2>1 DEF WriteOK
    <2>2. CASE pc'[c] # "idle"
      <3>1. WriteOK(c) /\ pc'[c] = pc[c] /\ call'[c] = call[c] /\ istate'[Caller(c)] = "up"
        BY <2>2, ForgetData DEF DataInv
      <3> QED
        BY <3>1 DEF WriteOK, Caller
    <2> QED
      BY <2>1, <2>2
  <1>2. \A i \in Instances : /\ istate'[i] \in {"resume", "up"} => istate'[i] = istate[i]
                             /\ istate'[i] = "resume" => plan'[i] = plan[i] /\ rkey'[i] = rkey[i]
                             /\ istate'[i] # "resume" => rkey'[i] = None
    BY ForgetData
  <1> QED
    BY <1>1, <1>2, DataUnmoved

\* A process dies in its append: the torn record hides what follows it.
LEMMA TearData == ASSUME IInv, DataInv, NEW c \in Clients, CrashInAppend(c) PROVE DataInv'
  <1>n. PICK n \in Nat : n = Len(journal) + 1
    BY DataTypes
  <1>1. /\ pc[c] = "w_append" /\ journal' = Append(journal, Torn)
        /\ Forget({Caller(c)}) /\ UNCHANGED <<published, disk, acked>>
    BY DEF CrashInAppend, hist
  <1>2. {Caller(c)} \in SUBSET Instances /\ pc[c] \in CasPcs
    BY <1>1, DataTypes DEF CasPcs, CommitPcs
  <1>3. /\ \A d \in Clients : pc'[d] # "idle" => d # c /\ pc'[d] = pc[d] /\ istate'[Caller(d)] = "up"
        /\ \A i \in Instances : istate'[i] # "down" => istate'[i] = istate[i]
        /\ \A i \in Instances : istate'[i] # "resume" => rkey'[i] = None
        /\ Up' => Up
    BY <1>1, <1>2, ForgetData
  <1>4. /\ \A d \in Clients \ {c} : pc[d] \notin CasPcs
        /\ \A i \in Instances : istate[i] # "resume"
        /\ \A k \in Keys : Covers(k, published[k].pos)
    BY <1>2, Writer
  <1>7. /\ Len(journal') = n /\ Len(journal) \in Nat
        /\ Positions' = Positions \cup {n} /\ n \notin Positions /\ journal'[n] = Torn
        /\ \A p \in Positions : journal'[p] = journal[p] /\ (Replayable(p)' <=> Replayable(p))
                                /\ p < n /\ p \in Nat
        /\ ~(Replayable(n)')
        /\ NoTear' => NoTear
    BY <1>1, <1>n, Appending, DataTypes, NullTypes DEF Torn
  <1>8. journal'[n].key \notin Keys
    BY <1>7, SentinelAssumption DEF Torn
  <1>9. ASSUME NEW d \in Clients PROVE WriteOK(d)'
    <2>1. pc'[d] # "idle" => pc'[d] \notin CasPcs /\ istate'[Caller(d)] = "up"
      BY <1>3, <1>4
    <2> QED
      BY <2>1 DEF WriteOK, CasPcs, CommitPcs, Caller
  <1>10. ASSUME NEW i \in Instances, NEW k \in Keys PROVE PlanOK(i, k)'
    <2>1. istate'[i] # "resume" /\ rkey'[i] = None
      BY <1>3, <1>4
    <2> QED
      BY <2>1 DEF PlanOK
  <1>11. RecordsOK'
    <2>1. ASSUME NEW p \in Positions', journal'[p].key \in Keys PROVE journal'[p].body \in Bodies
      BY <1>7, <1>8, <2>1 DEF DataInv, RecordsOK
    <2>2. \A p \in acked' : p \in Positions' /\ journal'[p].key \in Keys
      BY <1>1, <1>7 DEF DataInv, RecordsOK
    <2>3. ASSUME NEW z \in Keys, NEW q \in Positions', Replayable(q)', journal'[q].key = z
          PROVE  \E p \in Positions' : IsLatest(z, p)'
      <3>1. q \in Positions /\ Replayable(q) /\ journal[q].key = z
        BY <1>7, <2>3
      <3>2. PICK p \in Positions : IsLatest(z, p)
        BY <3>1 DEF DataInv, RecordsOK
      <3>3. /\ Replayable(p) /\ journal[p].key = z /\ p \in Nat
            /\ \A x \in Positions : x > p /\ Replayable(x) => journal[x].key # z
        BY <1>7, <3>2 DEF IsLatest, Positions
      <3>4. ASSUME NEW x \in (p + 1)..Len(journal'), Replayable(x)' PROVE journal'[x].key # z
        <4>1. x \in Positions' /\ x > p
          BY <1>7, <3>3, <3>4 DEF Positions
        <4>2. x \in Positions
          BY <1>7, <3>4, <4>1
        <4> QED
          BY <1>7, <3>3, <3>4, <4>1, <4>2
      <3>5. IsLatest(z, p)'
        BY <1>7, <3>3, <3>4 DEF IsLatest
      <3> QED
        BY <1>7, <3>5
    <2> QED
      BY <2>1, <2>2, <2>3 DEF RecordsOK
  <1>12. ASSUME NEW z \in Keys PROVE VersionOK(z)'
    <2>1. VersionOK(z)
      BY DEF DataInv
    <2>2. BlobOK(z, published[z])' /\ BlobOK(z, disk[z])'
      BY <1>1, <1>7, <2>1 DEF VersionOK, BlobOK
    <2>3. Behind(z, published[z].pos)' /\ Behind(z, disk[z].pos)'
      BY <1>1, <1>7, <2>1 DEF VersionOK, Behind
    <2> QED
      BY <1>1, <1>7, <2>1, <2>2, <2>3 DEF VersionOK
  <1>13. UpCovers'
    BY <1>1, <1>3, <1>4, <1>7 DEF UpCovers, Covers, DataInv, RecordsOK
  <1>14. Compared'
    <2>1. \A p \in acked : p \in Positions
      BY DEF DataInv, RecordsOK
    <2>2. \A q \in Positions' : Replayable(q)' => q \in Positions /\ Replayable(q)
      BY <1>7
    <2>3. Compared
      BY DEF DataInv
    <2>4. ASSUME NEW p \in acked, NEW q \in Positions', p < q, Replayable(q)',
                 journal'[q].key = journal'[p].key
          PROVE  p <= journal'[q].base
      <3>1. p \in Positions /\ q \in Positions /\ Replayable(q)
        BY <2>1, <2>2, <2>4
      <3>2. journal'[p] = journal[p] /\ journal'[q] = journal[q]
        BY <1>7, <3>1
      <3> QED
        BY <2>3, <2>4, <3>1, <3>2 DEF Compared
    <2> QED
      BY <1>1, <2>4 DEF Compared
  <1> QED
    BY <1>9, <1>10, <1>11, <1>12, <1>13, <1>14 DEF DataInv

\* The host goes down: what reached the directory fsync is what is left.
LEMMA HostData == ASSUME IInv, DataInv, HostCrash PROVE DataInv'
  <1>1. /\ UNCHANGED <<journal, acked>> /\ disk' = published' /\ Forget(Instances)
        /\ \A k \in Keys : published'[k] \in {disk[k], published[k]}
    BY DEF HostCrash, hist
  <1>2. /\ \A c \in Clients : pc'[c] = "idle"
        /\ \A i \in Instances : istate'[i] = "down" /\ rkey'[i] = None
    BY <1>1, ForgetData, DataTypes
  <1>q. Positions' = Positions /\ NoTear' = NoTear /\ \A q : Replayable(q)' <=> Replayable(q)
    BY <1>1 DEF Positions, Replayable, NoTear
  <1>l. \A z, q : IsLatest(z, q)' <=> IsLatest(z, q)
    BY <1>1 DEF Positions, Replayable, IsLatest
  <1>3. RecordsOK' /\ Compared'
    BY <1>1, <1>q, <1>l DEF DataInv, RecordsOK, Compared
  <1>4. ASSUME NEW k \in Keys PROVE VersionOK(k)'
    <2>1. PICK b : b \in {disk[k], published[k]} /\ published'[k] = b /\ disk'[k] = b
      BY <1>1
    <2>2. BlobOK(k, b) /\ Behind(k, b.pos) /\ b.pos \in Nat
      BY <2>1, DataTypes DEF DataInv, VersionOK
    <2>3. BlobOK(k, published[k])' /\ BlobOK(k, disk[k])'
      BY <1>1, <1>q, <2>1, <2>2 DEF BlobOK
    <2>4. Behind(k, published[k].pos)' /\ Behind(k, disk[k].pos)'
      BY <1>1, <1>q, <2>1, <2>2 DEF Behind
    <2> QED
      BY <2>1, <2>2, <2>3, <2>4 DEF VersionOK
  <1>5. /\ \A c \in Clients : WriteOK(c)'
        /\ \A i \in Instances, k \in Keys : PlanOK(i, k)'
        /\ UpCovers'
    BY <1>2 DEF WriteOK, PlanOK, UpCovers, Up
  <1> QED
    BY <1>3, <1>4, <1>5 DEF DataInv

-----------------------------------------------------------------------------
LEMMA NextData == IInv /\ DataInv /\ [Next]_vars => DataInv'
  <1> SUFFICES ASSUME IInv, DataInv, [Next]_vars PROVE DataInv'
    OBVIOUS
  <1>1. ASSUME NEW c \in Clients, Begin(c) \/ Continue(c) PROVE DataInv'
    BY <1>1, ClientData, RepeatCreateData, AppendData, ReserveData, ReplaceData, FinishData
       DEF Begin, Continue
  <1>2. ASSUME NEW c \in Clients, CrashInAppend(c) PROVE DataInv'
    BY <1>2, TearData
  <1>3. ASSUME NEW i \in Instances, StartInstance(i) \/ Resume(i) PROVE DataInv'
    BY <1>3, StartData, SkipData, MissingData, RestoreData, SyncData DEF Resume
  <1>4. ASSUME NEW i \in Instances, ResumeFails(i) \/ Crash(i) PROVE DataInv'
    BY <1>4, DeathData DEF ResumeFails, Crash, files, hist
  <1>5. CASE HostCrash
    BY <1>5, HostData
  <1>6. CASE Tick \/ UNCHANGED vars
    <2>1. UNCHANGED <<journal, published, disk, acked, istate, plan, rkey, pc, call>>
      BY <1>6 DEF Tick, vars, files, locks, insts, locals, hist
    <2>2. \A c \in Clients : WriteOK(c)'
      BY <2>1 DEF DataInv, WriteOK, Caller
    <2>3. \A i \in Instances : istate'[i] # "resume" => rkey'[i] = None
      <3>1. CASE Keys = {}
        BY <2>1, <3>1, DataTypes
      <3>2. CASE Keys # {}
        BY <2>1, <3>2 DEF DataInv, PlanOK
      <3> QED
        BY <3>1, <3>2
    <2> QED
      BY <2>1, <2>2, <2>3, DataUnmoved
  <1> QED
    BY <1>1, <1>2, <1>3, <1>4, <1>5, <1>6 DEF Next

LEMMA DataCorrect == Spec => []DataInv
  <1>1. IInv /\ DataInv /\ [Next]_vars => DataInv'
    BY NextData
  <1> QED
    BY <1>1, InitData, InductiveInvariant, PTL DEF Spec

\* An OK is durable: whatever crashes, power losses and constructors come
\* after it, a serving process never shows a version behind an acknowledged
\* write that replay reaches (write(), _resume()).
THEOREM Durability == Spec => []AckedSurvives
  <1>1. DataInv => AckedSurvives
    <2>1. SUFFICES ASSUME DataInv, NEW p \in acked, Up, Replayable(p)
                   PROVE  p <= published[journal[p].key].pos
      BY DEF AckedSurvives
    <2>2. journal[p].key \in Keys
      BY <2>1 DEF DataInv, RecordsOK
    <2> QED
      BY <2>1, <2>2 DEF DataInv, UpCovers, Covers
  <1> QED
    BY <1>1, DataCorrect, PTL

\* What write() compares is current: in a step that journals a record, the
\* blob the writer read is the published one, which covers what is acknowledged.
LEMMA AppendCompared ==
    ASSUME IInv, DataInv, NEW c \in Clients, AppendRecord(c) \/ CrashInAppend(c),
           NEW p \in acked, NEW q \in Positions', q \notin Positions,
           p < q, Replayable(p)', journal'[q].key = journal'[p].key
    PROVE  p <= journal'[q].base
  <1> USE DEF files, locks, insts, locals, hist
  <1>n. PICK n \in Nat : n = Len(journal) + 1
    BY DataTypes
  <1>k. PICK k \in Keys : k = call[c].key
    BY Writer DEF AppendRecord, CrashInAppend, CasPcs, CommitPcs
  <1>r. PICK r \in Record : /\ journal' = Append(journal, r)
                            /\ r = Torn \/ (r.key = k /\ r.base = published[k].pos)
    <2>1. pc[c] \in CasPcs /\ pc[c] = "w_append"
      BY DEF AppendRecord, CrashInAppend, CasPcs, CommitPcs
    <2>2. CASE CrashInAppend(c)
      BY <2>2, NullTypes DEF CrashInAppend
    <2>3. CASE AppendRecord(c)
      <3>1. call[c].body \in Bodies /\ call[c].cur = published[k] /\ published[k].pos \in Nat
        BY <2>1, <1>k, Writer, DataTypes DEF DataInv, WriteOK
      <3>2. RecordOf(c) \in Record
        BY <3>1, <1>k DEF RecordOf, FenceToAccept, Record, IInv, TypeOK, Lease
      <3>3. RecordOf(c).key = k /\ RecordOf(c).base = published[k].pos
        BY <3>1, <1>k DEF RecordOf
      <3> QED
        BY <2>3, <3>2, <3>3 DEF AppendRecord
    <2> QED
      BY <2>2, <2>3
  <1>1. /\ Positions' = Positions \cup {n} /\ n \notin Positions /\ journal'[n] = r
        /\ \A x \in Positions : journal'[x] = journal[x] /\ (Replayable(x)' <=> Replayable(x))
    BY <1>n, <1>r, Appending, DataTypes
  <1>2. p \in Positions /\ journal[p].key \in Keys
    BY DEF DataInv, RecordsOK
  <1>3. q = n /\ journal'[p] = journal[p] /\ Replayable(p)
    BY <1>1, <1>2
  <1>4. r.key = journal[p].key /\ r # Torn
    BY <1>1, <1>2, <1>3, SentinelAssumption DEF Torn
  <1>5. r.key = k /\ r.base = published[k].pos
    BY <1>r, <1>4
  <1>6. Covers(k, published[k].pos)
    <2>1. pc[c] \in CasPcs
      BY DEF AppendRecord, CrashInAppend, CasPcs, CommitPcs
    <2> QED
      BY <2>1, Writer
  <1>7. p <= published[k].pos
    BY <1>3, <1>4, <1>5, <1>6 DEF Covers
  <1> QED
    BY <1>1, <1>3, <1>5, <1>7

\* No other step makes the journal longer.
LEMMA OnlyAppends ==
    ASSUME TypeOK, [Next]_vars, NEW q \in Positions', q \notin Positions
    PROVE  \E c \in Clients : AppendRecord(c) \/ CrashInAppend(c)
  <1> USE DEF files, locks, insts, locals, hist
  <1>0. journal' # journal
    BY DEF Positions
  <1>1. ASSUME NEW c \in Clients, Begin(c) PROVE FALSE
    BY <1>0, <1>1 DEF Begin, BeginCreate, BeginUpdate, BeginWrite, BeginLock, RenewOwner, Unlock
  <1>2. ASSUME NEW c \in Clients, Continue(c) PROVE AppendRecord(c)
    BY <1>0, <1>2 DEF Continue, AdmitWrite, RepeatCreate, RefuseWrite, LoseFence, ReserveName,
       ReplaceBlob, GiveUpReplace, FinishWrite, SettleFence, SettleHash, AllocateFence, GiveUpLock,
       GrantLock, RenewAdvisory
  <1>3. ASSUME NEW i \in Instances, StartInstance(i) \/ Resume(i) \/ ResumeFails(i) \/ Crash(i)
        PROVE FALSE
    BY <1>0, <1>3 DEF StartInstance, Resume, ResumeSkip, ResumeReserve, ResumeReplace, ResumeSync,
                      ResumeDone, ResumeFails, Crash
  <1>4. CASE HostCrash \/ Tick \/ UNCHANGED vars
    BY <1>0, <1>4 DEF HostCrash, Tick, vars
  <1> QED
    BY <1>1, <1>2, <1>3, <1>4 DEF Next

\* No update is lost, however the writers' processes crash and resume (write()
\* reads, compares and journals under cas.lock, and _resume() restores first).
THEOREM UpdatesAreSeen == Spec => NoLostUpdate
  <1>1. ASSUME IInv, DataInv, DataInv', [Next]_vars,
               NEW p \in acked', NEW q \in Positions', p < q, Replayable(p)',
               journal'[q].key = journal'[p].key, q \in Positions => Replayable(q)'
        PROVE  p <= journal'[q].base
    <2>1. CASE q \in Positions
      BY <1>1, <2>1 DEF DataInv, Compared
    <2>2. CASE q \notin Positions
      <3>1. PICK c \in Clients : AppendRecord(c) \/ CrashInAppend(c)
        BY <1>1, <2>2, OnlyAppends DEF IInv
      <3>2. acked' = acked
        BY <3>1 DEF AppendRecord, CrashInAppend, hist
      <3> QED
        BY <1>1, <2>2, <3>1, <3>2, AppendCompared
    <2> QED
      BY <2>1, <2>2
  <1>2. IInv /\ DataInv /\ DataInv' /\ [Next]_vars =>
          [\A p \in acked', q \in Positions' :
              /\ p < q /\ Replayable(p)' /\ journal'[q].key = journal'[p].key
              /\ q \in Positions => Replayable(q)'
              => p <= journal'[q].base]_vars
    BY <1>1
  <1> QED
    BY <1>2, InductiveInvariant, DataCorrect, PTL DEF Spec, NoLostUpdate

-----------------------------------------------------------------------------
\* Only these steps change what a reader finds at a key.
LEMMA OnlyPublishes ==
    ASSUME [Next]_vars, published' # published
    PROVE  \/ \E c \in Clients : ReserveName(c) \/ ReplaceBlob(c)
           \/ \E i \in Instances, k \in Keys :
                 ResumeSkip(i, k) \/ ResumeReserve(i, k) \/ ResumeReplace(i, k)
           \/ HostCrash
  <1> USE DEF files, locks, insts, locals, hist
  <1>1. ASSUME NEW c \in Clients, Begin(c) PROVE FALSE
    BY <1>1 DEF Begin, BeginCreate, BeginUpdate, BeginWrite, BeginLock, RenewOwner, Unlock
  <1>2. ASSUME NEW c \in Clients, Continue(c) PROVE ReserveName(c) \/ ReplaceBlob(c)
    BY <1>2 DEF Continue, AdmitWrite, RepeatCreate, RefuseWrite, LoseFence, AppendRecord,
       GiveUpReplace, FinishWrite, SettleFence, SettleHash, AllocateFence, GiveUpLock,
       GrantLock, RenewAdvisory
  <1>3. ASSUME NEW i \in Instances, StartInstance(i) \/ ResumeDone(i) \/ ResumeFails(i) \/ Crash(i)
        PROVE  FALSE
    BY <1>3 DEF StartInstance, ResumeDone, ResumeFails, Crash
  <1>4. ASSUME NEW i \in Instances, NEW k \in Keys, ResumeSync(i, k) PROVE FALSE
    BY <1>4 DEF ResumeSync
  <1>5. ASSUME NEW c \in Clients, CrashInAppend(c) PROVE FALSE
    BY <1>5 DEF CrashInAppend
  <1>6. CASE Tick \/ UNCHANGED vars
    BY <1>6 DEF Tick, vars
  <1> QED
    BY <1>1, <1>2, <1>3, <1>4, <1>5, <1>6 DEF Next, Resume

\* While a process serves and no append was torn, no reader sees a key go
\* back to an earlier version: not beside a write(), not beside a constructor
\* that restores the key (_publish(), _resume()).
THEOREM ReadsMoveForward == Spec => ReadsNeverGoBack
  <1> USE DEF files, locks, insts, locals, hist
  <1>1. ASSUME IInv, DataInv, [Next]_vars, Up, Up', NoTear, NEW z \in Keys
        PROVE  published'[z].pos >= published[z].pos
    <2>0. published[z].pos \in Nat
      BY <1>1, DataTypes
    <2>1. ASSUME NEW c \in Clients, ReserveName(c) PROVE published'[z].pos >= published[z].pos
      <3>k. PICK k \in Keys : k = call[c].key
        BY <1>1, <2>1, Writer DEF ReserveName, CasPcs, CommitPcs
      <3>1. /\ published[k].body = Absent
            /\ published' = [published EXCEPT ![k] = [body |-> Empty, pos |-> 0]]
        BY <2>1, <3>k DEF ReserveName
      <3>2. published[k].pos = 0
        BY <1>1, <3>1, SentinelAssumption DEF DataInv, VersionOK, BlobOK
      <3>3. CASE z = k
        BY <1>1, <3>1, <3>2, <3>3, DataTypes
      <3>4. CASE z # k
        BY <1>1, <2>0, <3>1, <3>4, DataTypes
      <3> QED
        BY <3>3, <3>4
    <2>2. ASSUME NEW c \in Clients, ReplaceBlob(c) PROVE published'[z].pos >= published[z].pos
      <3>k. PICK k \in Keys : k = call[c].key
        BY <1>1, <2>2, Writer DEF ReplaceBlob, CasPcs, CommitPcs
      <3>1. published' = [published EXCEPT ![k] = [body |-> call[c].body, pos |-> Len(journal)]]
        BY <2>2, <3>k DEF ReplaceBlob
      <3>2. published[k].pos \in Positions \cup {0}
        BY <1>1 DEF DataInv, VersionOK, BlobOK
      <3>3. published[k].pos <= Len(journal) /\ Len(journal) \in Nat
        BY <1>1, <3>2, DataTypes DEF Positions
      <3>4. CASE z = k
        BY <1>1, <3>1, <3>3, <3>4, DataTypes
      <3>5. CASE z # k
        BY <1>1, <2>0, <3>1, <3>5, DataTypes
      <3> QED
        BY <3>4, <3>5
    <2>3. ASSUME NEW i \in Instances, NEW k \in Keys, ResumeSkip(i, k) \/ ResumeReplace(i, k)
          PROVE  published'[z].pos >= published[z].pos
      <3>p. PICK p : p = plan[i][k]
        OBVIOUS
      <3>1. /\ istate[i] = "resume" /\ p # 0
            /\ \/ published' = [published EXCEPT ![k].pos = p]
               \/ published' = [published EXCEPT ![k] = [body |-> journal[p].body, pos |-> p]]
        BY <2>3, <3>p DEF ResumeSkip, ResumeReplace, Restoring, JournaledBody
      <3>2. IsLatest(k, p) /\ BlobOK(k, published[k])
        BY <1>1, <3>1, <3>p DEF DataInv, PlanOK, VersionOK
      <3>3. published[k].pos <= p /\ p \in Nat
        BY <1>1, <3>2, LatestIsLast DEF DataInv
      <3>4. published'[k].pos = p /\ \A x \in Keys \ {k} : published'[x] = published[x]
        BY <1>1, <3>1, DataTypes DEF Blob
      <3>5. CASE z = k
        BY <2>0, <3>3, <3>4, <3>5
      <3>6. CASE z # k
        BY <2>0, <3>4, <3>6
      <3> QED
        BY <3>5, <3>6
    <2>4. ASSUME NEW i \in Instances, NEW k \in Keys, ResumeReserve(i, k)
          PROVE  published'[z].pos >= published[z].pos
      <3>1. /\ published[k].body = Absent
            /\ published' = [published EXCEPT ![k] = [body |-> Empty, pos |-> 0]]
        BY <2>4 DEF ResumeReserve
      <3>2. published[k].pos = 0
        BY <1>1, <3>1, SentinelAssumption DEF DataInv, VersionOK, BlobOK
      <3>3. CASE z = k
        BY <1>1, <3>1, <3>2, <3>3, DataTypes
      <3>4. CASE z # k
        BY <1>1, <2>0, <3>1, <3>4, DataTypes
      <3> QED
        BY <3>3, <3>4
    <2>5. ASSUME HostCrash PROVE FALSE
      BY <1>1, <2>5 DEF HostCrash, Forget, Up
    <2>6. CASE published' = published
      BY <2>0, <2>6
    <2> QED
      BY <1>1, <2>1, <2>2, <2>3, <2>4, <2>5, <2>6, OnlyPublishes
  <1>2. IInv /\ DataInv /\ [Next]_vars =>
          [Up /\ Up' /\ NoTear =>
              \A k \in Keys : published'[k].pos >= published[k].pos]_vars
    BY <1>1
  <1> QED
    BY <1>2, InductiveInvariant, DataCorrect, PTL DEF Spec, ReadsNeverGoBack

-----------------------------------------------------------------------------
(***************************************************************************)
(* The inductive invariant behind the refinement of the store contract.    *)
(***************************************************************************)
\* No append is torn, and os.replace does not fail.
NoFaults == MaxTorn = 0 /\ ~ReplaceMayFail

\* A record replay would restore over what readers see was compared with it.
RestorableOK(k) ==
    Up /\ Latest(k) > published[k].pos => journal[Latest(k)].base = published[k].pos

\* A lease has a fence and a living process.  A write() carries the lease of its
\* key, finds the value it states until it replaces it, and has journaled the
\* version it replaces.
SendsOK(c) ==
    /\ lease[c].key \in Keys => lease[c].fence > 0
    /\ istate[Caller(c)] # "up" => lease[c] = NoLease
    /\ pc[c] = "l_advisory" => call[c].own.fence > 0
    /\ pc[c] \in CasPcs /\ call[c].expected # None => lease[c].key = call[c].key
    /\ pc[c] \in {"w_append", "w_reserve", "w_replace"}
       => Visible(published[call[c].key].body) = OpenWrite(c).prior
    /\ pc[c] \in {"w_reserve", "w_replace"}
       => /\ journal[Len(journal)].base = published[call[c].key].pos
          /\ published[call[c].key].pos < Len(journal)

\* A constructor is done with a key when readers see what replay keeps.
RestoredOK(i, k) ==
    /\ accepted[i][k] <= owner[k].fence
    /\ istate[i] = "resume" /\ plan[i][k] = 0 => published[k].pos = Latest(k)

SimInv ==
    /\ NoTear
    /\ journal # <<>> => Clients # {}
    /\ \A k \in Keys : RestorableOK(k)
    /\ \A c \in Clients : SendsOK(c)
    /\ \A i \in Instances, k \in Keys : RestoredOK(i, k)

\* The record replay of journal j keeps for key k, as a function of j.
KeptRecord(j, k, p) ==
    /\ p \in 1..Len(j)
    /\ \A q \in 1..p : j[q].key # None
    /\ j[p].key = k
    /\ \A q \in (p + 1)..Len(j) : (\A x \in 1..q : j[x].key # None) => j[q].key # k

LatestIn(j, k) == IF \E p \in 1..Len(j) : KeptRecord(j, k, p)
                  THEN CHOOSE p \in 1..Len(j) : KeptRecord(j, k, p)
                  ELSE 0

LEMMA LatestAs ==
    ASSUME NEW k
    PROVE  /\ Latest(k) = LatestIn(journal, k) /\ Latest(k)' = LatestIn(journal', k)
           /\ \A p : IsLatest(k, p) <=> KeptRecord(journal, k, p)
  BY DEF Latest, IsLatest, Positions, Replayable, LatestIn, KeptRecord

LEMMA LatestInIs ==
    ASSUME NEW j \in Seq(Record), NEW k
    PROVE  /\ \A p : KeptRecord(j, k, p) => LatestIn(j, k) = p
           /\ (\A p : ~KeptRecord(j, k, p)) => LatestIn(j, k) = 0
           /\ LatestIn(j, k) \in Nat
           /\ LatestIn(j, k) # 0 => KeptRecord(j, k, LatestIn(j, k))
  <1>0. Len(j) \in Nat
    OBVIOUS
  <1>1. CASE \E p \in 1..Len(j) : KeptRecord(j, k, p)
    <2>1. PICK l : l = LatestIn(j, k)
      OBVIOUS
    <2>2. l \in 1..Len(j) /\ KeptRecord(j, k, l)
      BY <1>1, <2>1 DEF LatestIn
    <2>3. ASSUME NEW p, KeptRecord(j, k, p) PROVE l = p
      <3>1. p \in 1..Len(j) /\ p \in Nat /\ l \in Nat
        BY <1>0, <2>2, <2>3 DEF KeptRecord
      <3>2. ~(p < l)
        BY <1>0, <2>2, <2>3, <3>1 DEF KeptRecord
      <3>3. ~(l < p)
        BY <1>0, <2>2, <2>3, <3>1 DEF KeptRecord
      <3> QED
        BY <3>1, <3>2, <3>3
    <2> QED
      BY <1>0, <1>1, <2>1, <2>2, <2>3
  <1>2. CASE ~\E p \in 1..Len(j) : KeptRecord(j, k, p)
    <2>1. \A p : ~KeptRecord(j, k, p)
      BY <1>2 DEF KeptRecord
    <2>2. LatestIn(j, k) = 0
      BY <1>2 DEF LatestIn
    <2> QED
      BY <2>1, <2>2
  <1> QED
    BY <1>1, <1>2

LEMMA LatestKept == ASSUME UNCHANGED journal, NEW k PROVE Latest(k)' = Latest(k)
  <1>1. LatestIn(journal', k) = LatestIn(journal, k)
    OBVIOUS
  <1> QED
    BY <1>1, LatestAs

\* An append makes its record the last of its key, and changes no other key's.
LEMMA LatestAppended ==
    ASSUME IInv, NoTear, NEW r \in Record, r.key \in Keys, journal' = Append(journal, r),
           NEW k \in Keys
    PROVE  Latest(k)' = IF k = r.key THEN Len(journal) + 1 ELSE Latest(k)
  <1>1. PICK n : n = Len(journal) + 1
    OBVIOUS
  <1>2. /\ journal \in Seq(Record) /\ journal' \in Seq(Record)
        /\ Len(journal) \in Nat /\ n \in Nat /\ Len(journal') = n
        /\ journal'[n] = r /\ \A p \in 1..Len(journal) : journal'[p] = journal[p]
    BY <1>1, DataTypes
  <1>3. \A p \in 1..Len(journal) : journal[p].key # None
    <2>1. ASSUME NEW p \in 1..Len(journal) PROVE journal[p].key # None
      <3>1. Replayable(p) /\ p \in 1..p
        BY <1>2 DEF NoTear, Positions
      <3> QED
        BY <3>1 DEF Replayable
    <2> QED
      BY <2>1
  <1>4. r.key # None
    BY SentinelAssumption
  <1>5. \A p \in 1..n : p \in 1..Len(journal) \/ p = n
    BY <1>1, <1>2
  <1>6. CASE k = r.key
    <2>1. KeptRecord(journal', k, n)
      BY <1>2, <1>3, <1>4, <1>5, <1>6 DEF KeptRecord
    <2>2. LatestIn(journal', k) = n
      BY <1>2, <2>1, LatestInIs
    <2> QED
      BY <1>1, <1>6, <2>2, LatestAs
  <1>7. CASE k # r.key
    <2>1. ASSUME NEW p PROVE KeptRecord(journal', k, p) <=> KeptRecord(journal, k, p)
      <3>1. ASSUME KeptRecord(journal', k, p) PROVE KeptRecord(journal, k, p)
        <4>1. p \in 1..n /\ p # n
          BY <1>2, <1>7, <3>1 DEF KeptRecord
        <4>2. p \in 1..Len(journal) /\ journal[p].key = k
          BY <1>2, <1>5, <3>1, <4>1 DEF KeptRecord
        <4>3. ASSUME NEW q \in (p + 1)..Len(journal) PROVE journal[q].key # k
          <5>1. q \in 1..Len(journal) /\ q \in (p + 1)..n
            BY <1>1, <1>2, <4>2
          <5>2. \A x \in 1..q : journal'[x].key # None
            BY <1>1, <1>2, <1>3, <5>1
          <5> QED
            BY <1>2, <3>1, <5>1, <5>2 DEF KeptRecord
        <4>4. \A q \in 1..p : journal[q].key # None
          BY <1>2, <1>3, <4>2
        <4> QED
          BY <4>2, <4>3, <4>4 DEF KeptRecord
      <3>2. ASSUME KeptRecord(journal, k, p) PROVE KeptRecord(journal', k, p)
        <4>1. p \in 1..Len(journal) /\ journal[p].key = k /\ p \in 1..n
          BY <1>1, <1>2, <3>2 DEF KeptRecord
        <4>2. ASSUME NEW q \in (p + 1)..n PROVE journal'[q].key # k
          <5>1. q \in (p + 1)..Len(journal) \/ q = n
            BY <1>1, <1>2, <4>1
          <5>2. CASE q = n
            BY <1>2, <1>7, <5>2
          <5>3. CASE q \in (p + 1)..Len(journal)
            <6>1. q \in 1..Len(journal) /\ \A x \in 1..q : journal[x].key # None
              BY <1>2, <1>3, <4>1, <5>3
            <6> QED
              BY <1>2, <3>2, <5>3, <6>1 DEF KeptRecord
          <5> QED
            BY <5>1, <5>2, <5>3
        <4>3. \A q \in 1..p : journal'[q].key # None
          BY <1>2, <1>3, <4>1
        <4> QED
          BY <1>2, <4>1, <4>2, <4>3 DEF KeptRecord
      <3> QED
        BY <3>1, <3>2
    <2>2. LatestIn(journal', k) = LatestIn(journal, k)
      <3>1. CASE \E p : KeptRecord(journal, k, p)
        BY <1>2, <2>1, <3>1, LatestInIs
      <3>2. CASE \A p : ~KeptRecord(journal, k, p)
        BY <1>2, <2>1, <3>2, LatestInIs
      <3> QED
        BY <3>1, <3>2
    <2> QED
      BY <1>7, <2>2, LatestAs
  <1> QED
    BY <1>6, <1>7

\* Replay keeps a record of every key whose blob has one, and not an earlier one.
LEMMA LatestFacts ==
    ASSUME IInv, DataInv, NoTear, NEW k \in Keys
    PROVE  /\ Latest(k) \in Nat /\ published[k].pos \in Nat
           /\ published[k].pos <= Latest(k)
           /\ Latest(k) > 0 => /\ IsLatest(k, Latest(k)) /\ Latest(k) \in Positions
                               /\ journal[Latest(k)].key = k /\ journal[Latest(k)].body \in Bodies
           /\ \A p : IsLatest(k, p) => p = Latest(k)
           /\ published[k].pos = Latest(k) => Visible(published[k].body) = Replayed(k)
           /\ published[k].pos = 0 => Visible(published[k].body) = Absent
           /\ published[k].pos # 0 => /\ Visible(published[k].body) = published[k].body
                                      /\ published[k].pos \in Positions
                                      /\ journal[published[k].pos].body = published[k].body
  <1>1. PICK l : l = Latest(k)
    OBVIOUS
  <1>2. l \in Nat /\ (l # 0 => IsLatest(k, l)) /\ \A p : IsLatest(k, p) => p = l
    BY <1>1, DataTypes, LatestInIs, LatestAs
  <1>3. l # 0 => /\ l \in Positions /\ journal[l].key = k /\ journal[l].body \in Bodies
                 /\ \A b : BlobOK(k, b) => b.pos <= l
    BY <1>2, LatestIsLast DEF DataInv
  <1>4. PICK b \in Blob : b = published[k]
    BY DataTypes
  <1>5. BlobOK(k, b) /\ b.pos \in Nat /\ b.body \in Bodies \cup {Absent, Empty}
    BY <1>4, DataTypes DEF DataInv, VersionOK, Blob
  <1>6. b.pos # 0 <=> b.body \in Bodies
    <2>1. 0 \notin Positions
      BY DataTypes DEF Positions
    <2> QED
      BY <1>5, <2>1 DEF BlobOK
  <1>7. b.pos # 0 => b.pos \in Positions /\ journal[b.pos].body = b.body /\ journal[b.pos].key = k
    BY <1>5, <1>6 DEF BlobOK
  <1>8. b.pos <= l
    <2>1. CASE l # 0
      BY <1>3, <1>5, <2>1
    <2>2. CASE l = 0
      <3>1. ASSUME b.pos # 0 PROVE FALSE
        <4>1. Replayable(b.pos) /\ b.pos \in Positions /\ journal[b.pos].key = k
          BY <1>7, <3>1 DEF NoTear
        <4>2. PICK p \in Positions : IsLatest(k, p)
          BY <4>1 DEF DataInv, RecordsOK
        <4> QED
          BY <1>2, <2>2, <4>2, DataTypes DEF Positions
      <3> QED
        BY <1>5, <2>2, <3>1
    <2> QED
      BY <2>1, <2>2
  <1>9. b.pos = 0 => Visible(b.body) = Absent
    BY <1>5, <1>6, SentinelAssumption DEF Visible
  <1>10. b.pos # 0 => Visible(b.body) = b.body
    BY <1>6, SentinelAssumption DEF Visible
  <1>11. b.pos = l => Visible(b.body) = Replayed(k)
    BY <1>1, <1>7, <1>9, <1>10 DEF Replayed
  <1> QED
    BY <1>1, <1>2, <1>3, <1>4, <1>5, <1>7, <1>8, <1>9, <1>10, <1>11

LEMMA InitSim == Init => SimInv
  <1> SUFFICES ASSUME Init PROVE SimInv
    OBVIOUS
  <1>1. journal = <<>> /\ Positions = {} /\ Len(journal) = 0
    BY DEF Init, Positions
  <1>2. NoTear /\ (journal # <<>> => Clients # {})
    BY <1>1 DEF NoTear
  <1>3. ~Up
    BY DEF Init, Up
  <1>4. \A k \in Keys : RestorableOK(k)
    BY <1>3 DEF RestorableOK
  <1>5. ASSUME NEW c \in Clients PROVE SendsOK(c)
    <2>1. lease[c] = NoLease /\ pc[c] = "idle" /\ NoLease.key \notin Keys
      BY SentinelAssumption DEF Init, NoLease
    <2> QED
      BY <2>1 DEF SendsOK, CasPcs, CommitPcs
  <1>6. ASSUME NEW i \in Instances, NEW k \in Keys PROVE RestoredOK(i, k)
    <2>1. accepted[i][k] = 0 /\ owner[k] = NoOwner /\ istate[i] = "down" /\ NoOwner.fence = 0
      BY DEF Init, NoOwner
    <2> QED
      BY <2>1 DEF RestoredOK
  <1> QED
    BY <1>2, <1>4, <1>5, <1>6 DEF SimInv

\* A step that leaves the journal and the blobs alone.
LEMMA SimUnmoved ==
    ASSUME IInv, SimInv, UNCHANGED <<journal, published>>, Up' => Up,
           \A c \in Clients : SendsOK(c)',
           \A i \in Instances, k \in Keys : RestoredOK(i, k)'
    PROVE  SimInv'
  <1>1. NoTear' /\ (journal' # <<>> => Clients # {})
    BY DEF SimInv, NoTear, Positions, Replayable
  <1>2. ASSUME NEW k \in Keys PROVE RestorableOK(k)'
    <2>1. Latest(k)' = Latest(k) /\ RestorableOK(k)
      BY LatestKept DEF SimInv
    <2> QED
      BY <2>1 DEF RestorableOK
  <1> QED
    BY <1>1, <1>2 DEF SimInv

\* ... a client's: fences of owners do not fall, accepted ones stay behind.
LEMMA SimClient ==
    ASSUME IInv, SimInv, NEW c \in Clients,
           UNCHANGED <<journal, published, istate, plan>>,
           \A d \in Clients \ {c} : pc'[d] = pc[d] /\ call'[d] = call[d] /\ lease'[d] = lease[d],
           \A i \in Instances, k \in Keys : accepted'[i][k] <= owner'[k].fence,
           SendsOK(c)'
    PROVE  SimInv'
  <1>1. Up' = Up
    BY DEF Up
  <1>2. ASSUME NEW d \in Clients PROVE SendsOK(d)'
    <2>1. CASE d = c
      BY <2>1
    <2>2. CASE d # c
      <3>1. /\ pc'[d] = pc[d] /\ call'[d] = call[d] /\ lease'[d] = lease[d] /\ SendsOK(d)
            /\ OpenWrite(d)' = OpenWrite(d)
        BY <2>2 DEF SimInv, OpenWrite
      <3> QED
        BY <3>1 DEF SendsOK, Caller
    <2> QED
      BY <2>1, <2>2
  <1>3. ASSUME NEW i \in Instances, NEW k \in Keys PROVE RestoredOK(i, k)'
    <2>1. Latest(k)' = Latest(k) /\ RestoredOK(i, k)
      BY LatestKept DEF SimInv
    <2> QED
      BY <2>1 DEF RestoredOK
  <1> QED
    BY <1>1, <1>2, <1>3, SimUnmoved

LEMMA AcceptedTypes ==
    ASSUME IInv
    PROVE  /\ \A i \in Instances, k \in Keys : accepted[i][k] \in Nat
           /\ \A k \in Keys : owner[k] \in Owner /\ owner[k].fence \in Nat
           /\ lease \in [Clients -> Lease]
           /\ \A c \in Clients : lease[c].fence \in Nat /\ lease[c].key \in Keys \cup {None}
           /\ accepted \in [Instances -> [Keys -> Nat]] /\ owner \in [Keys -> Owner]
  BY DEF IInv, TypeOK, FilesOK, InstancesOK, Lease, Owner

\* Outside a write() that has decided, and outside the end of a lock(), a client
\* relies on its lease only.
LEMMA SendsNothing ==
    ASSUME SimInv, NEW c \in Clients, UNCHANGED <<istate, lease>>,
           pc'[c] \notin CasPcs \cup {"l_advisory"}
    PROVE  SendsOK(c)'
  <1>1. SendsOK(c)
    BY DEF SimInv
  <1>2. /\ pc'[c] \notin {"w_append", "w_reserve", "w_replace"} /\ pc'[c] # "l_advisory"
        /\ pc'[c] \notin CasPcs /\ lease'[c] = lease[c] /\ istate'[Caller(c)] = istate[Caller(c)]
    BY DEF CasPcs, CommitPcs
  <1> QED
    BY <1>1, <1>2 DEF SendsOK, Caller

\* renew() extends the owner file and keeps its fence.
LEMMA RenewFences ==
    ASSUME IInv, NEW c \in Clients, RenewOwner(c)
    PROVE  \A k \in Keys : owner'[k].fence = owner[k].fence
  <1>1. PICK j, t : j \in Keys /\ owner' = [owner EXCEPT ![j].expiry = t]
    BY DEF RenewOwner, Holds
  <1>2. PICK o : o = [owner[j] EXCEPT !.expiry = t]
    OBVIOUS
  <1>3. o.fence = owner[j].fence /\ owner' = [owner EXCEPT ![j] = o]
    BY <1>1, <1>2, AcceptedTypes DEF Owner
  <1> QED
    BY <1>3, AcceptedTypes

\* Steps of a client that move no data.
LEMMA ClientSim ==
    ASSUME IInv, DataInv, SimInv, NEW c \in Clients,
           \/ RepeatCreate(c) \/ RefuseWrite(c) \/ LoseFence(c)
           \/ SettleFence(c) \/ SettleHash(c) \/ BeginLock(c) \/ GiveUpLock(c)
           \/ RenewOwner(c) \/ RenewAdvisory(c) \/ Unlock(c)
    PROVE  SimInv'
  <1> USE DEF files, locks, insts, locals, hist
  <1>1. /\ UNCHANGED <<journal, published, istate, plan, accepted, lease>>
        /\ \A d \in Clients \ {c} : pc'[d] = pc[d] /\ call'[d] = call[d]
        /\ pc'[c] \notin CasPcs \cup {"l_advisory"}
    <2>1. pc \in [Clients -> Pcs] /\ call \in [Clients -> Call]
      BY DataTypes
    <2> QED
      BY <2>1 DEF RepeatCreate, RefuseWrite, LoseFence, SettleFence, SettleHash, BeginLock, GiveUpLock,
         RenewOwner, RenewAdvisory, Unlock, Return, Goto, Idle, CasPcs, CommitPcs
  <1>2. \A k \in Keys : owner'[k].fence = owner[k].fence
    <2>1. CASE RenewOwner(c)
      BY <2>1, RenewFences
    <2>2. CASE ~RenewOwner(c)
      BY <2>2 DEF RepeatCreate, RefuseWrite, LoseFence, SettleFence, SettleHash, BeginLock, GiveUpLock,
         RenewAdvisory, Unlock
    <2> QED
      BY <2>1, <2>2
  <1>3. SendsOK(c)'
    BY <1>1, SendsNothing
  <1>4. \A i \in Instances, k \in Keys : accepted'[i][k] <= owner'[k].fence
    BY <1>1, <1>2 DEF SimInv, RestoredOK
  <1> QED
    BY <1>1, <1>3, <1>4, SimClient

\* A write() begins, with the lease of its key if it is an Overwrite.
LEMMA BeginSim ==
    ASSUME IInv, DataInv, SimInv, NEW c \in Clients, BeginCreate(c) \/ BeginUpdate(c) PROVE SimInv'
  <1> USE DEF files, locks, insts, locals, hist
  <1>1. PICK k, b, e : /\ BeginWrite(c, k, b, e)
                       /\ e # None => k = lease[c].key
    BY DEF BeginCreate, BeginUpdate
  <1>2. /\ UNCHANGED <<journal, published, istate, plan, accepted, lease, owner>>
        /\ pc'[c] = "w_decide" /\ call'[c].key = k /\ call'[c].expected = e
        /\ \A d \in Clients \ {c} : pc'[d] = pc[d] /\ call'[d] = call[d]
    <2>1. pc \in [Clients -> Pcs] /\ call \in [Clients -> Call]
      BY DataTypes
    <2> QED
      BY <1>1, <2>1 DEF BeginWrite, Goto, NoCall
  <1>3. SendsOK(c)'
    <2>1. SendsOK(c)
      BY DEF SimInv
    <2>2. /\ pc'[c] \notin {"w_append", "w_reserve", "w_replace"} /\ pc'[c] # "l_advisory"
          /\ call'[c].expected # None => lease'[c].key = call'[c].key
      BY <1>1, <1>2
    <2> QED
      BY <1>2, <2>1, <2>2 DEF SendsOK, Caller
  <1>4. \A i \in Instances, j \in Keys : accepted'[i][j] <= owner'[j].fence
    BY <1>2 DEF SimInv, RestoredOK
  <1> QED
    BY <1>2, <1>3, <1>4, SimClient

\* It is admitted: the blob it has read is the one it expects.
LEMMA AdmitSim == ASSUME IInv, DataInv, SimInv, NEW c \in Clients, AdmitWrite(c) PROVE SimInv'
  <1> USE DEF files, locks, insts, locals, hist
  <1>1. /\ UNCHANGED <<journal, published, istate, plan, accepted, lease, owner, call>>
        /\ pc[c] = "w_decide" /\ pc'[c] = "w_append"
        /\ \A d \in Clients \ {c} : pc'[d] = pc[d]
        /\ CreateAdmitted(c) \/ UpdateAdmitted(c)
    BY DataTypes DEF AdmitWrite, Goto
  <1>2. PICK b : b = call[c].cur.body
    OBVIOUS
  <1>3. /\ published[call[c].key].body = b
        /\ IF call[c].expected = None THEN b = Absent ELSE b = call[c].expected
        /\ call[c].expected \in Bodies \cup {Empty, None}
    <2>1. WriteOK(c) /\ call[c] \in Call
      BY DataTypes DEF DataInv
    <2> QED
      BY <1>1, <1>2, <2>1 DEF WriteOK, CreateAdmitted, UpdateAdmitted, Call
  <1>4. Visible(b) = OpenWrite(c).prior
    BY <1>3, SentinelAssumption DEF Visible, OpenWrite
  <1>5. SendsOK(c)'
    <2>1. SendsOK(c) /\ "w_decide" \in CasPcs
      BY DEF SimInv, CasPcs
    <2>2. OpenWrite(c)' = OpenWrite(c)
      BY <1>1 DEF OpenWrite
    <2> QED
      BY <1>1, <1>3, <1>4, <2>1, <2>2 DEF SendsOK, Caller
  <1>6. \A i \in Instances, j \in Keys : accepted'[i][j] <= owner'[j].fence
    BY <1>1 DEF SimInv, RestoredOK
  <1> QED
    BY <1>1, <1>5, <1>6, SimClient

\* lock() allocates the next fence.
LEMMA AllocateSim ==
    ASSUME IInv, DataInv, SimInv, NEW c \in Clients, AllocateFence(c)
    PROVE  /\ SimInv'
           /\ \E k \in Keys : /\ k = call[c].key /\ call'[c].key = k
                              /\ call'[c].own.fence = owner[k].fence + 1
                              /\ owner'[k].fence = owner[k].fence + 1
                              /\ \A j \in Keys \ {k} : owner'[j] = owner[j]
  <1> USE DEF files, locks, insts, locals, hist
  <1>1. PICK k \in Keys : k = call[c].key
    BY DataTypes DEF AllocateFence
  <1>2. PICK o : o = [token |-> call[c].own.token, expiry |-> call[c].expiry,
                      fence |-> NextFence(c, k)]
    OBVIOUS
  <1>3. /\ UNCHANGED <<journal, published, istate, plan, accepted, lease>>
        /\ owner' = [owner EXCEPT ![k] = o]
        /\ call' = [call EXCEPT ![c].own = o]
        /\ pc[c] = "l_cas" /\ pc' = [pc EXCEPT ![c] = "l_advisory"]
    BY <1>1, <1>2 DEF AllocateFence, Goto
  <1>4. accepted[Caller(c)][k] <= owner[k].fence /\ accepted[Caller(c)][k] \in Nat /\ owner[k].fence \in Nat
    BY DataTypes, AcceptedTypes DEF SimInv, RestoredOK
  <1>5. o.fence = owner[k].fence + 1
    BY <1>2, <1>4 DEF NextFence, Larger
  <1>6. /\ owner'[k] = o /\ \A j \in Keys \ {k} : owner'[j] = owner[j]
        /\ call'[c].own = o /\ call'[c].key = k
        /\ pc'[c] = "l_advisory"
        /\ \A d \in Clients \ {c} : pc'[d] = pc[d] /\ call'[d] = call[d]
    BY <1>1, <1>3, DataTypes, AcceptedTypes DEF Call
  <1>7. SendsOK(c)'
    <2>1. SendsOK(c)
      BY DEF SimInv
    <2>2. pc'[c] \notin {"w_append", "w_reserve", "w_replace"} /\ pc'[c] \notin CasPcs
      BY <1>6 DEF CasPcs, CommitPcs
    <2> QED
      BY <1>3, <1>4, <1>5, <1>6, <2>1, <2>2 DEF SendsOK, Caller
  <1>8. ASSUME NEW i \in Instances, NEW j \in Keys PROVE accepted'[i][j] <= owner'[j].fence
    <2>1. accepted[i][j] <= owner[j].fence /\ accepted[i][j] \in Nat /\ owner[j].fence \in Nat
      BY AcceptedTypes DEF SimInv, RestoredOK
    <2> QED
      BY <1>3, <1>5, <1>6, <2>1
  <1>9. SimInv'
    BY <1>3, <1>6, <1>7, <1>8, SimClient
  <1> QED
    BY <1>1, <1>5, <1>6, <1>9

\* ... and grants the lease.
LEMMA GrantSim == ASSUME IInv, DataInv, SimInv, NEW c \in Clients, GrantLock(c) PROVE SimInv'
  <1> USE DEF files, locks, insts, locals, hist
  <1>1. PICK l : l = [key |-> call[c].key, token |-> call[c].own.token, fence |-> call[c].own.fence]
    OBVIOUS
  <1>2. /\ UNCHANGED <<journal, published, istate, plan, accepted, owner>>
        /\ pc[c] = "l_advisory" /\ lease' = [lease EXCEPT ![c] = l]
        /\ pc' = [pc EXCEPT ![c] = "idle"] /\ call' = [call EXCEPT ![c] = NoCall]
    BY <1>1 DEF GrantLock, Return, Goto
  <1>3. /\ lease'[c] = l /\ pc'[c] = "idle"
        /\ \A d \in Clients \ {c} : pc'[d] = pc[d] /\ call'[d] = call[d] /\ lease'[d] = lease[d]
    BY <1>2, DataTypes, AcceptedTypes
  <1>4. SendsOK(c)'
    <2>1. SendsOK(c) /\ istate[Caller(c)] = "up"
      BY <1>2 DEF SimInv, DataInv, WriteOK
    <2> QED
      BY <1>1, <1>2, <1>3, <2>1 DEF SendsOK, Caller, CasPcs, CommitPcs
  <1>5. \A i \in Instances, j \in Keys : accepted'[i][j] <= owner'[j].fence
    BY <1>2 DEF SimInv, RestoredOK
  <1> QED
    BY <1>2, <1>3, <1>4, <1>5, SimClient

\* A write() returns OK and accepts its fence, which is the owner's.
LEMMA FinishSim == ASSUME IInv, DataInv, SimInv, NEW c \in Clients, FinishWrite(c) PROVE SimInv'
  <1> USE DEF files, locks, insts, locals, hist
  <1>0. pc[c] = "w_sync" /\ pc[c] \in CasPcs /\ pc[c] \in CommitPcs
    BY DEF FinishWrite, CasPcs, CommitPcs
  <1>1. PICK k \in Keys : k = call[c].key
    BY <1>0, Writer
  <1>2. PICK f : f = FenceToAccept(c)
    OBVIOUS
  <1>3. /\ UNCHANGED <<journal, published, istate, plan, owner, lease>>
        /\ accepted' = [accepted EXCEPT ![Caller(c)][k] = f]
        /\ pc' = [pc EXCEPT ![c] = "idle"] /\ call' = [call EXCEPT ![c] = NoCall]
    BY <1>1, <1>2 DEF FinishWrite, Return, Goto
  <1>4. f <= owner[k].fence
    <2>1. LeaseCurrent /\ owner[k].fence \in Nat
      BY AcceptedTypes DEF IInv, FenceInv
    <2> QED
      BY <1>0, <1>1, <1>2, <2>1 DEF LeaseCurrent, FenceToAccept
  <1>5. ASSUME NEW i \in Instances, NEW j \in Keys PROVE accepted'[i][j] <= owner'[j].fence
    <2>1. accepted[i][j] <= owner[j].fence
      BY DEF SimInv, RestoredOK
    <2> QED
      BY <1>3, <1>4, <2>1, AcceptedTypes, DataTypes
  <1>6. pc'[c] = "idle" /\ \A d \in Clients \ {c} : pc'[d] = pc[d] /\ call'[d] = call[d]
    BY <1>3, DataTypes
  <1>7. SendsOK(c)'
    BY <1>3, <1>6, SendsNothing DEF CasPcs, CommitPcs
  <1> QED
    BY <1>3, <1>5, <1>6, <1>7, SimClient

\* A step of the write() under cas.lock that changes the journal or a blob.
LEMMA SimWriter ==
    ASSUME IInv, DataInv, SimInv, NEW c \in Clients, pc[c] \in CasPcs,
           UNCHANGED <<istate, plan, accepted, owner, lease, call>>,
           \A d \in Clients \ {c} : pc'[d] = pc[d],
           NoTear', SendsOK(c)', \A k \in Keys : RestorableOK(k)'
    PROVE  SimInv'
  <1>1. ASSUME NEW d \in Clients PROVE SendsOK(d)'
    <2>1. CASE d = c
      BY <2>1
    <2>2. CASE d # c
      <3>1. pc'[d] = pc[d] /\ SendsOK(d) /\ pc[d] \notin CasPcs
        BY <2>2, Writer DEF SimInv
      <3> QED
        BY <3>1 DEF SendsOK, CasPcs, CommitPcs, Caller
    <2> QED
      BY <2>1, <2>2
  <1>2. ASSUME NEW i \in Instances, NEW k \in Keys PROVE RestoredOK(i, k)'
    <2>1. RestoredOK(i, k) /\ istate[i] # "resume"
      BY Writer DEF SimInv
    <2> QED
      BY <2>1 DEF RestoredOK
  <1> QED
    BY <1>1, <1>2 DEF SimInv

\* It appends its record: what readers see of the key is what it was compared with.
LEMMA AppendSim == ASSUME IInv, DataInv, SimInv, NEW c \in Clients, AppendRecord(c) PROVE SimInv'
  <1> USE DEF files, locks, insts, locals, hist
  <1>0. pc[c] = "w_append" /\ pc[c] \in CasPcs
    BY DEF AppendRecord, CasPcs, CommitPcs
  <1>1. PICK k, r : k \in Keys /\ k = call[c].key /\ r = RecordOf(c)
    BY <1>0, Writer
  <1>2. PICK n : n = Len(journal) + 1
    OBVIOUS
  <1>3. /\ journal' = Append(journal, r)
        /\ pc'[c] = IF call[c].expected = None THEN "w_reserve" ELSE "w_replace"
        /\ \A d \in Clients \ {c} : pc'[d] = pc[d]
        /\ UNCHANGED <<published, istate, plan, accepted, owner, lease, call>>
    BY <1>1, DataTypes DEF AppendRecord, Goto
  <1>4. r.key = k /\ r.base = published[k].pos /\ r \in Record
    <2>1. call[c].cur = published[k]
      BY <1>0, <1>1 DEF DataInv, WriteOK
    <2>2. FenceToAccept(c) \in Nat
      BY AcceptedTypes DEF FenceToAccept
    <2>3. call[c].body \in Bodies /\ published[k].pos \in Nat
      BY <1>0, <1>1, Writer, DataTypes
    <2> QED
      BY <1>1, <2>1, <2>2, <2>3 DEF RecordOf, Record
  <1>5. /\ n \in Nat /\ Len(journal) \in Nat /\ Len(journal') = n /\ journal'[n] = r
        /\ \A p \in Positions : journal'[p] = journal[p]
        /\ Positions' = Positions \cup {n}
    BY <1>2, <1>3, <1>4, DataTypes DEF Positions
  <1>6. NoTear'
    <2>1. \A p \in Positions : journal[p].key # None
      BY DataTypes DEF SimInv, NoTear, Replayable, Positions
    <2>2. \A p \in Positions' : journal'[p].key # None
      BY <1>1, <1>4, <1>5, <2>1, SentinelAssumption
    <2>3. ASSUME NEW p \in Positions', NEW q \in 1..p PROVE q \in Positions'
      BY <1>5, <2>3 DEF Positions
    <2> QED
      BY <2>2, <2>3 DEF NoTear, Replayable
  <1>7. ASSUME NEW j \in Keys PROVE Latest(j)' = IF j = k THEN n ELSE Latest(j)
    BY <1>1, <1>2, <1>3, <1>4, LatestAppended DEF SimInv
  <1>8. published[k].pos < n
    <2>1. published[k].pos \in Positions \cup {0}
      BY <1>1 DEF DataInv, VersionOK, BlobOK
    <2> QED
      BY <1>2, <1>5, <2>1 DEF Positions
  <1>9. ASSUME NEW j \in Keys PROVE RestorableOK(j)'
    <2>1. CASE j = k
      BY <1>3, <1>4, <1>5, <1>7, <2>1 DEF RestorableOK
    <2>2. CASE j # k
      <3>1. Latest(j)' = Latest(j) /\ RestorableOK(j) /\ Up' = Up
        BY <1>3, <1>7, <2>2 DEF SimInv, Up
      <3>2. Latest(j) > published[j].pos => Latest(j) \in Positions
        BY LatestFacts DEF SimInv
      <3> QED
        BY <1>3, <1>5, <3>1, <3>2 DEF RestorableOK
    <2> QED
      BY <2>1, <2>2
  <1>10. SendsOK(c)'
    <2>1. SendsOK(c) /\ OpenWrite(c)' = OpenWrite(c)
      BY <1>3 DEF SimInv, OpenWrite
    <2>2. pc'[c] \in {"w_reserve", "w_replace"} /\ pc'[c] # "l_advisory"
      BY <1>3
    <2> QED
      BY <1>0, <1>1, <1>3, <1>4, <1>5, <1>8, <2>1, <2>2 DEF SendsOK, Caller
  <1> QED
    BY <1>0, <1>3, <1>6, <1>9, <1>10, SimWriter

\* It reserves the name.
LEMMA ReserveSim == ASSUME IInv, DataInv, SimInv, NEW c \in Clients, ReserveName(c) PROVE SimInv'
  <1> USE DEF files, locks, insts, locals, hist
  <1>0. pc[c] = "w_reserve" /\ pc[c] \in CasPcs
    BY DEF ReserveName, CasPcs, CommitPcs
  <1>1. PICK k \in Keys : k = call[c].key
    BY <1>0, Writer
  <1>2. /\ published[k].body = Absent /\ published' = [published EXCEPT ![k] = [body |-> Empty, pos |-> 0]]
        /\ pc'[c] = "w_replace" /\ \A d \in Clients \ {c} : pc'[d] = pc[d]
        /\ UNCHANGED <<journal, istate, plan, accepted, owner, lease, call>>
    BY <1>1, DataTypes DEF ReserveName, Goto
  <1>3. published[k].pos = 0
    BY <1>2, SentinelAssumption DEF DataInv, VersionOK, BlobOK
  <1>4. /\ published'[k].body = Empty /\ \A j \in Keys : published'[j].pos = published[j].pos
    BY <1>2, <1>3, DataTypes
  <1>5. ASSUME NEW j \in Keys PROVE RestorableOK(j)'
    <2>1. Latest(j)' = Latest(j) /\ Up' = Up /\ RestorableOK(j)
      BY <1>2, LatestKept DEF SimInv, Up
    <2> QED
      BY <1>2, <1>4, <2>1 DEF RestorableOK
  <1>6. SendsOK(c)'
    <2>1. SendsOK(c) /\ OpenWrite(c)' = OpenWrite(c)
      BY <1>2 DEF SimInv, OpenWrite
    <2>2. Visible(published[k].body)' = Visible(published[k].body)
      BY <1>2, <1>4, SentinelAssumption DEF Visible
    <2> QED
      BY <1>0, <1>1, <1>2, <1>4, <2>1, <2>2 DEF SendsOK, Caller, CasPcs, CommitPcs
  <1>7. NoTear'
    BY <1>2 DEF SimInv, NoTear, Positions, Replayable
  <1> QED
    BY <1>0, <1>2, <1>5, <1>6, <1>7, SimWriter

\* What it publishes is the record replay keeps, and the last one.
LEMMA LastIsLatest ==
    ASSUME IInv, DataInv, NoTear, NEW c \in Clients, pc[c] \in {"w_reserve", "w_replace", "w_sync"}
    PROVE  /\ Latest(call[c].key) = Len(journal) /\ Len(journal) > 0
           /\ \A k \in Keys \ {call[c].key} : Latest(k) # Len(journal)
  <1>1. PICK k \in Keys : k = call[c].key
    BY DataTypes
  <1>2. /\ Len(journal) > 0 /\ Len(journal) \in Positions /\ journal[Len(journal)].key = k
        /\ Len(journal) \in Nat
    BY <1>1, DataTypes DEF IInv, FenceInv, RecordIsOwn, Positions
  <1>3. IsLatest(k, Len(journal))
    BY <1>2 DEF IsLatest, NoTear
  <1>4. \A j \in Keys : Latest(j) = Len(journal) => j = k
    BY <1>2, LatestFacts
  <1> QED
    BY <1>1, <1>2, <1>3, <1>4, LatestFacts

\* It publishes its record.
LEMMA ReplaceSim == ASSUME IInv, DataInv, SimInv, NEW c \in Clients, ReplaceBlob(c) PROVE SimInv'
  <1> USE DEF files, locks, insts, locals, hist
  <1>0. pc[c] = "w_replace" /\ pc[c] \in CasPcs
    BY DEF ReplaceBlob, CasPcs, CommitPcs
  <1>1. PICK k, n : k \in Keys /\ k = call[c].key /\ n = Len(journal)
    BY <1>0, Writer
  <1>2. /\ published' = [published EXCEPT ![k] = [body |-> call[c].body, pos |-> n]]
        /\ pc'[c] = "w_sync" /\ \A d \in Clients \ {c} : pc'[d] = pc[d]
        /\ UNCHANGED <<journal, istate, plan, accepted, owner, lease, call>>
    BY <1>1, DataTypes DEF ReplaceBlob, Goto
  <1>3. published'[k].pos = n /\ \A j \in Keys \ {k} : published'[j] = published[j]
    BY <1>1, <1>2, DataTypes
  <1>4. Latest(k) = n /\ n \in Nat
    BY <1>0, <1>1, LastIsLatest, DataTypes DEF SimInv
  <1>5. ASSUME NEW j \in Keys PROVE RestorableOK(j)'
    <2>1. Latest(j)' = Latest(j) /\ Up' = Up /\ RestorableOK(j)
      BY <1>2, LatestKept DEF SimInv, Up
    <2>2. CASE j = k
      BY <1>3, <1>4, <2>1, <2>2 DEF RestorableOK
    <2>3. CASE j # k
      BY <1>2, <1>3, <2>1, <2>3 DEF RestorableOK
    <2> QED
      BY <2>2, <2>3
  <1>6. SendsOK(c)'
    <2>1. SendsOK(c) /\ pc'[c] \notin {"w_append", "w_reserve", "w_replace"} /\ pc'[c] # "l_advisory"
      BY <1>2 DEF SimInv
    <2> QED
      BY <1>0, <1>2, <2>1 DEF SendsOK, Caller
  <1>7. NoTear'
    BY <1>2 DEF SimInv, NoTear, Positions, Replayable
  <1> QED
    BY <1>0, <1>2, <1>5, <1>6, <1>7, SimWriter

\* A constructor restores one key.
LEMMA SimResume ==
    ASSUME IInv, DataInv, SimInv, NEW i \in Instances, NEW k \in Keys, istate[i] = "resume",
           UNCHANGED <<journal, istate, owner, lease, pc, call>>,
           \A j \in Instances \ {i} : accepted'[j] = accepted[j],
           \A z \in Keys \ {k} : /\ plan'[i][z] = plan[i][z] /\ accepted'[i][z] = accepted[i][z]
                                 /\ published'[z] = published[z],
           RestorableOK(k)', RestoredOK(i, k)'
    PROVE  SimInv'
  <1>1. NoTear' /\ Up' = Up /\ \A z : Latest(z)' = Latest(z)
    BY LatestKept DEF SimInv, NoTear, Positions, Replayable, Up
  <1>2. ASSUME NEW z \in Keys PROVE RestorableOK(z)'
    <2>1. CASE z = k
      BY <2>1
    <2>2. CASE z # k
      <3>1. RestorableOK(z) /\ published'[z] = published[z] /\ Latest(z)' = Latest(z)
        BY <1>1, <2>2 DEF SimInv
      <3> QED
        BY <1>1, <3>1 DEF RestorableOK
    <2> QED
      BY <2>1, <2>2
  <1>3. ASSUME NEW d \in Clients PROVE SendsOK(d)'
    <2>1. SendsOK(d) /\ pc[d] \notin CasPcs
      BY Restorer DEF SimInv
    <2> QED
      BY <2>1 DEF SendsOK, CasPcs, CommitPcs, Caller
  <1>4. ASSUME NEW j \in Instances, NEW z \in Keys PROVE RestoredOK(j, z)'
    <2>1. RestoredOK(j, z) /\ Latest(z)' = Latest(z)
      BY <1>1 DEF SimInv
    <2>2. CASE j # i
      <3>1. istate[j] # "resume" /\ accepted'[j] = accepted[j]
        BY <2>2, Restorer
      <3> QED
        BY <2>1, <3>1 DEF RestoredOK
    <2>3. CASE j = i /\ z # k
      BY <2>1, <2>3 DEF RestoredOK
    <2>4. CASE j = i /\ z = k
      BY <2>4
    <2> QED
      BY <2>2, <2>3, <2>4
  <1> QED
    BY <1>1, <1>2, <1>3, <1>4 DEF SimInv

\* What a constructor does with a key: it reserves the name, replaces the blob, or
\* finds it at the record replay keeps, whose fence it adopts.
LEMMA RestoreSim ==
    ASSUME IInv, DataInv, SimInv, NEW i \in Instances, NEW k \in Keys,
           ResumeSkip(i, k) \/ ResumeReserve(i, k) \/ ResumeReplace(i, k) \/ ResumeSync(i, k)
    PROVE  /\ SimInv' /\ Latest(k) # 0 /\ Latest(k) = plan[i][k]
           /\ \A z \in Keys \ {k} : published'[z] = published[z]
           /\ ResumeSkip(i, k) \/ ResumeReplace(i, k)
                => published'[k].pos = Latest(k) /\ published'[k].body = journal[Latest(k)].body
           /\ ResumeReserve(i, k) => /\ published[k].pos = 0 /\ published'[k].pos = 0
                                     /\ Visible(published'[k].body) = Visible(published[k].body)
           /\ ResumeSync(i, k) => published' = published
  <1> USE DEF files, locks, insts, locals, hist
  <1>p. PICK p : p = plan[i][k]
    OBVIOUS
  <1>1. istate[i] = "resume" /\ p # 0 /\ UNCHANGED <<journal, istate, owner, lease, pc, call>>
    BY <1>p DEF ResumeSkip, ResumeReserve, ResumeReplace, ResumeSync, Restoring
  <1>2. IsLatest(k, p) /\ p = Latest(k) /\ p \in Nat /\ published[k].pos \in Nat /\ published[k].pos <= p
    <2>1. IsLatest(k, p)
      BY <1>1, <1>p DEF DataInv, PlanOK
    <2> QED
      BY <2>1, LatestFacts DEF SimInv
  <1>3. Latest(k)' = p
    BY <1>1, <1>2, LatestKept
  <1>4. journal[p].fence <= owner[k].fence
    BY <1>2 DEF IsLatest, IInv, FenceInv, JournalBehindOwner
  <1>5. RestoredOK(i, k) /\ RestorableOK(k)
    BY DEF SimInv
  <1>6. CASE ResumeSkip(i, k)
    <2>1. /\ published[k].body = journal[p].body /\ published' = [published EXCEPT ![k].pos = p]
          /\ accepted' = [accepted EXCEPT ![i][k] = journal[p].fence]
          /\ plan' = [plan EXCEPT ![i][k] = 0]
      BY <1>6, <1>p DEF ResumeSkip, Restored, JournaledBody
    <2>2. /\ published'[k].pos = p /\ published'[k].body = journal[p].body
          /\ \A z \in Keys \ {k} : published'[z] = published[z]
      BY <2>1, DataTypes DEF Blob
    <2>3. /\ accepted'[i][k] = journal[p].fence /\ plan'[i][k] = 0
          /\ \A j \in Instances \ {i} : accepted'[j] = accepted[j]
          /\ \A z \in Keys \ {k} : plan'[i][z] = plan[i][z] /\ accepted'[i][z] = accepted[i][z]
      BY <2>1, DataTypes, AcceptedTypes
    <2>4. RestorableOK(k)' /\ RestoredOK(i, k)'
      BY <1>1, <1>2, <1>3, <1>4, <2>2, <2>3 DEF RestorableOK, RestoredOK
    <2>5. SimInv'
      BY <1>1, <2>2, <2>3, <2>4, SimResume
    <2>6. ~ResumeReserve(i, k) /\ ~ResumeSync(i, k)
      <3>1. rkey[i] = None /\ k # None
        BY <1>6, SentinelAssumption DEF ResumeSkip
      <3>2. published[k].body # Absent
        BY <1>1, <1>2, <2>1, LatestFacts, SentinelAssumption DEF SimInv
      <3> QED
        BY <3>1, <3>2 DEF ResumeReserve, ResumeSync
    <2> QED
      BY <1>1, <1>2, <1>p, <2>2, <2>5, <2>6
  <1>7. CASE ResumeReserve(i, k)
    <2>1. /\ published[k].body = Absent /\ published' = [published EXCEPT ![k] = [body |-> Empty, pos |-> 0]]
          /\ UNCHANGED <<accepted, plan>>
      BY <1>7 DEF ResumeReserve
    <2>2. published[k].pos = 0
      BY <2>1, SentinelAssumption DEF DataInv, VersionOK, BlobOK
    <2>3. /\ published'[k].pos = 0 /\ published'[k].body = Empty
          /\ \A z \in Keys \ {k} : published'[z] = published[z]
      BY <2>1, DataTypes
    <2>4. Visible(published'[k].body) = Visible(published[k].body)
      BY <2>1, <2>3, SentinelAssumption DEF Visible
    <2>5. RestorableOK(k)' /\ RestoredOK(i, k)'
      <3>1. Up' = Up /\ Latest(k)' = Latest(k)
        BY <1>1, <1>2, <1>3 DEF Up
      <3> QED
        BY <1>1, <1>5, <2>1, <2>2, <2>3, <3>1 DEF RestorableOK, RestoredOK
    <2>6. SimInv'
      BY <1>1, <2>1, <2>3, <2>5, SimResume
    <2>7. journal[p].body # Absent
      BY <1>1, <1>2, LatestFacts, SentinelAssumption DEF SimInv
    <2>8. ~ResumeSkip(i, k) /\ ~ResumeReplace(i, k) /\ ~ResumeSync(i, k)
      BY <1>p, <2>1, <2>7 DEF ResumeSkip, ResumeReplace, ResumeSync, JournaledBody
    <2> QED
      BY <1>1, <1>2, <1>p, <2>2, <2>3, <2>4, <2>6, <2>8
  <1>8. CASE ResumeReplace(i, k)
    <2>1. /\ published[k].body \notin {Absent, journal[p].body}
          /\ published' = [published EXCEPT ![k] = [body |-> journal[p].body, pos |-> p]]
          /\ UNCHANGED <<accepted, plan>>
      BY <1>8, <1>p DEF ResumeReplace, JournaledBody
    <2>2. /\ published'[k].pos = p /\ published'[k].body = journal[p].body
          /\ \A z \in Keys \ {k} : published'[z] = published[z]
      BY <2>1, DataTypes
    <2>3. RestorableOK(k)' /\ RestoredOK(i, k)'
      BY <1>1, <1>2, <1>3, <1>5, <2>1, <2>2 DEF RestorableOK, RestoredOK
    <2>4. SimInv'
      BY <1>1, <2>1, <2>2, <2>3, SimResume
    <2>5. ~ResumeReserve(i, k) /\ ~ResumeSync(i, k)
      BY <1>p, <2>1 DEF ResumeReserve, ResumeSync, JournaledBody
    <2> QED
      BY <1>1, <1>2, <1>p, <2>2, <2>4, <2>5
  <1>9. CASE ResumeSync(i, k)
    <2>1. /\ rkey[i] = k /\ published[k].body = journal[p].body /\ published' = published
          /\ accepted' = [accepted EXCEPT ![i][k] = journal[p].fence]
          /\ plan' = [plan EXCEPT ![i][k] = 0]
      BY <1>9, <1>p DEF ResumeSync, Restored, JournaledBody
    <2>2. published[k].pos = p
      <3>1. journal[p].body \in Bodies
        BY <1>1, <1>2, LatestFacts DEF SimInv
      <3>2. published[k].body = Empty \/ published[k].pos = p
        BY <1>1, <1>p, <2>1 DEF DataInv, PlanOK
      <3> QED
        BY <2>1, <3>1, <3>2, SentinelAssumption
    <2>3. /\ accepted'[i][k] = journal[p].fence /\ plan'[i][k] = 0
          /\ \A j \in Instances \ {i} : accepted'[j] = accepted[j]
          /\ \A z \in Keys \ {k} : plan'[i][z] = plan[i][z] /\ accepted'[i][z] = accepted[i][z]
      BY <2>1, DataTypes, AcceptedTypes
    <2>4. RestorableOK(k)' /\ RestoredOK(i, k)'
      BY <1>1, <1>2, <1>3, <1>4, <2>1, <2>2, <2>3 DEF RestorableOK, RestoredOK
    <2>5. SimInv'
      BY <1>1, <2>1, <2>3, <2>4, SimResume
    <2>6. ~ResumeSkip(i, k) /\ ~ResumeReserve(i, k) /\ ~ResumeReplace(i, k)
      BY <1>p, <2>1, SentinelAssumption DEF ResumeSkip, ResumeReserve, ResumeReplace, JournaledBody
    <2> QED
      BY <1>1, <1>2, <1>p, <2>1, <2>5, <2>6
  <1> QED
    BY <1>6, <1>7, <1>8, <1>9

\* A constructor begins.
LEMMA StartSim == ASSUME IInv, DataInv, SimInv, NEW i \in Instances, StartInstance(i) PROVE SimInv'
  <1> USE DEF files, locks, insts, locals, hist
  <1>1. /\ UNCHANGED <<journal, published, owner, accepted, lease, pc, call>>
        /\ istate[i] = "down" /\ istate' = [istate EXCEPT ![i] = "resume"]
        /\ plan' = [plan EXCEPT ![i] = [k \in Keys |-> Latest(k)]]
    BY DEF StartInstance
  <1>2. /\ istate'[i] = "resume" /\ \A k \in Keys : plan'[i][k] = Latest(k)
        /\ \A j \in Instances \ {i} : istate'[j] = istate[j] /\ plan'[j] = plan[j]
    BY <1>1, DataTypes
  <1>3. Up' => Up
    BY <1>2 DEF Up
  <1>4. ASSUME NEW c \in Clients PROVE SendsOK(c)'
    <2>1. SendsOK(c) /\ OpenWrite(c)' = OpenWrite(c) /\ Caller(c) \in Instances
      BY <1>1, DataTypes DEF SimInv, OpenWrite
    <2>2. istate'[Caller(c)] # "up" => istate[Caller(c)] # "up"
      BY <1>1, <1>2, <2>1
    <2> QED
      BY <1>1, <2>1, <2>2 DEF SendsOK, Caller
  <1>5. ASSUME NEW j \in Instances, NEW k \in Keys PROVE RestoredOK(j, k)'
    <2>1. RestoredOK(j, k) /\ Latest(k)' = Latest(k)
      BY <1>1, LatestKept DEF SimInv
    <2>2. CASE j = i
      BY <1>1, <1>2, <2>1, <2>2, LatestFacts DEF SimInv, RestoredOK
    <2>3. CASE j # i
      BY <1>1, <1>2, <2>1, <2>3 DEF RestoredOK
    <2> QED
      BY <2>2, <2>3
  <1> QED
    BY <1>1, <1>3, <1>4, <1>5, SimUnmoved

\* It ends, with every key at the record replay keeps.
LEMMA DoneSim ==
    ASSUME IInv, DataInv, SimInv, NEW i \in Instances, ResumeDone(i)
    PROVE  /\ SimInv' /\ Up' /\ UNCHANGED <<journal, published, owner, lease, pc, call>>
           /\ \A k \in Keys : published[k].pos = Latest(k)
  <1> USE DEF files, locks, insts, locals, hist
  <1>1. /\ UNCHANGED <<journal, published, owner, plan, accepted, lease, pc, call>>
        /\ istate[i] = "resume" /\ istate' = [istate EXCEPT ![i] = "up"] /\ plan[i] = NoPlan
    BY DEF ResumeDone
  <1>2. istate'[i] = "up" /\ \A j \in Instances \ {i} : istate'[j] = istate[j]
    BY <1>1, DataTypes
  <1>3. \A k \in Keys : published[k].pos = Latest(k) /\ Latest(k) \in Nat
    BY <1>1, LatestFacts DEF SimInv, RestoredOK, NoPlan
  <1>4. ASSUME NEW k \in Keys PROVE RestorableOK(k)'
    BY <1>1, <1>3, LatestKept DEF RestorableOK
  <1>5. ASSUME NEW c \in Clients PROVE SendsOK(c)'
    <2>1. SendsOK(c) /\ OpenWrite(c)' = OpenWrite(c) /\ Caller(c) \in Instances
      BY <1>1, DataTypes DEF SimInv, OpenWrite
    <2>2. istate'[Caller(c)] # "up" => istate[Caller(c)] # "up"
      BY <1>2, <2>1
    <2> QED
      BY <1>1, <2>1, <2>2 DEF SendsOK, Caller
  <1>6. ASSUME NEW j \in Instances, NEW k \in Keys PROVE RestoredOK(j, k)'
    <2>1. RestoredOK(j, k) /\ istate'[j] # "resume"
      BY <1>1, <1>2, Restorer DEF SimInv
    <2> QED
      BY <1>1, <2>1 DEF RestoredOK
  <1>7. NoTear' /\ (journal' # <<>> => Clients # {})
    BY <1>1 DEF SimInv, NoTear, Positions, Replayable
  <1> QED
    BY <1>1, <1>2, <1>3, <1>4, <1>5, <1>6, <1>7 DEF SimInv, Up

\* Processes die; when all do, blobs may go back to what the disk has.
LEMMA DeathSim ==
    ASSUME IInv, DataInv, SimInv, NEW dead \in SUBSET Instances, Forget(dead),
           UNCHANGED <<journal, owner>>, UNCHANGED published \/ dead = Instances
    PROVE  SimInv'
  <1>1. Up' => Up /\ UNCHANGED published
    BY ForgetData DEF Forget, Up
  <1>2. NoTear' /\ (journal' # <<>> => Clients # {}) /\ \A k : Latest(k)' = Latest(k)
    BY LatestKept DEF SimInv, NoTear, Positions, Replayable
  <1>3. ASSUME NEW k \in Keys PROVE RestorableOK(k)'
    BY <1>1, <1>2 DEF SimInv, RestorableOK
  <1>4. ASSUME NEW c \in Clients PROVE SendsOK(c)'
    <2>1. Caller(c) \in Instances
      BY DataTypes
    <2>2. CASE Caller(c) \in dead
      <3>1. lease'[c] = NoLease /\ pc'[c] = "idle" /\ NoLease.key \notin Keys
        BY <2>2, SentinelAssumption DEF Forget, NoLease
      <3> QED
        BY <3>1 DEF SendsOK, CasPcs, CommitPcs
    <2>3. CASE Caller(c) \notin dead
      <3>1. /\ lease'[c] = lease[c] /\ pc'[c] = pc[c] /\ call'[c] = call[c]
            /\ istate'[Caller(c)] = istate[Caller(c)]
        BY <2>1, <2>3, SentinelAssumption DEF Forget
      <3>2. SendsOK(c) /\ OpenWrite(c)' = OpenWrite(c) /\ UNCHANGED published
        BY <2>1, <2>3, <3>1 DEF SimInv, OpenWrite
      <3> QED
        BY <3>1, <3>2 DEF SendsOK, Caller
    <2> QED
      BY <2>2, <2>3
  <1>5. ASSUME NEW i \in Instances, NEW k \in Keys PROVE RestoredOK(i, k)'
    <2>1. CASE i \in dead
      BY <2>1, AcceptedTypes DEF Forget, RestoredOK
    <2>2. CASE i \notin dead
      <3>1. /\ accepted'[i] = accepted[i] /\ istate'[i] = istate[i] /\ plan'[i] = plan[i]
            /\ UNCHANGED published
        BY <2>2 DEF Forget
      <3> QED
        BY <1>2, <3>1 DEF SimInv, RestoredOK
    <2> QED
      BY <2>1, <2>2
  <1> QED
    BY <1>2, <1>3, <1>4, <1>5 DEF SimInv

\* The steps that NoFaults rules out.
LEMMA NoFaultSteps ==
    ASSUME NoFaults, IInv
    PROVE  /\ \A c \in Clients : ~CrashInAppend(c) /\ ~GiveUpReplace(c)
           /\ \A i \in Instances : ~ResumeFails(i)
  <1>1. ASSUME NEW c \in Clients, CrashInAppend(c) PROVE FALSE
    <2>1. PICK S : S = {p \in Positions : journal[p] = Torn}
      OBVIOUS
    <2>2. IsFiniteSet(S)
      <3>1. IsFiniteSet(Positions)
        BY FS_Interval, DataTypes DEF Positions
      <3> QED
        BY <2>1, <3>1, FS_Subset
    <2>3. Cardinality(S) \in Nat
      BY <2>2, FS_CardinalityType
    <2> QED
      BY <1>1, <2>1, <2>3 DEF CrashInAppend, NoFaults
  <1> QED
    BY <1>1 DEF NoFaults, GiveUpReplace, ResumeFails

LEMMA NextSim == ASSUME NoFaults, IInv, DataInv, SimInv, [Next]_vars PROVE SimInv'
  <1>1. ASSUME NEW c \in Clients, Begin(c) PROVE SimInv'
    BY <1>1, BeginSim, ClientSim DEF Begin
  <1>2. ASSUME NEW c \in Clients, Continue(c) PROVE SimInv'
    BY <1>2, ClientSim, AdmitSim, AppendSim, ReserveSim, ReplaceSim, FinishSim, AllocateSim,
       GrantSim, NoFaultSteps DEF Continue
  <1>3. ASSUME NEW i \in Instances, StartInstance(i) \/ Resume(i) PROVE SimInv'
    BY <1>3, StartSim, RestoreSim, DoneSim DEF Resume
  <1>4. ASSUME NEW i \in Instances, Crash(i) PROVE SimInv'
    BY <1>4, DeathSim DEF Crash, files
  <1>5. CASE HostCrash
    BY <1>5, DeathSim DEF HostCrash
  <1>6. CASE Tick \/ UNCHANGED vars
    <2>1. UNCHANGED <<journal, published, istate, plan, accepted, owner, pc, call, lease>>
      BY <1>6 DEF Tick, vars, files, locks, insts, locals
    <2>2. \A k : Latest(k)' = Latest(k)
      BY <2>1, LatestKept
    <2>3. \A c \in Clients : SendsOK(c)'
      BY <2>1 DEF SimInv, SendsOK, Caller, OpenWrite
    <2>4. \A i \in Instances, k \in Keys : RestoredOK(i, k)'
      BY <2>1, <2>2 DEF SimInv, RestoredOK
    <2> QED
      BY <2>1, <2>3, <2>4, SimUnmoved DEF Up
  <1> QED
    BY <1>1, <1>2, <1>3, <1>4, <1>5, <1>6, NoFaultSteps DEF Next

-----------------------------------------------------------------------------
(***************************************************************************)
(* Every step is a step of the contract, or none.                          *)
(***************************************************************************)
OpenPcs   == {"w_decide", "w_append", "w_reserve", "w_replace"}
FlightPcs == {"w_reserve", "w_replace"}

SameFences == \A k \in Keys : owner'[k].fence = owner[k].fence
SameLeases == \A c \in Clients : LeaseOf(c)' = LeaseOf(c)
SameOps    == \A c \in Clients : OpOf(c)' = OpOf(c)

LEMMA Dropped ==
    ASSUME UNCHANGED Value, SameFences, SameLeases, SameOps, Orphans' \subseteq Orphans
    PROVE  Contract!OrphansAreDropped
  BY DEF SameFences, SameLeases, SameOps, Contract!OrphansAreDropped

LEMMA OpIs ==
    ASSUME NEW c
    PROVE  /\ pc[c] \in OpenPcs => OpOf(c) = [stage |-> "open", write |-> OpenWrite(c)]
           /\ pc[c] = "w_sync" => OpOf(c) = [stage |-> "landed"]
           /\ pc[c] \notin OpenPcs \cup {"w_sync"} => OpOf(c) = [stage |-> "idle"]
           /\ pc'[c] \in OpenPcs => OpOf(c)' = [stage |-> "open", write |-> OpenWrite(c)']
           /\ pc'[c] = "w_sync" => OpOf(c)' = [stage |-> "landed"]
           /\ pc'[c] \notin OpenPcs \cup {"w_sync"} => OpOf(c)' = [stage |-> "idle"]
  BY DEF OpOf, OpenPcs

LEMMA OthersSame ==
    ASSUME NEW c, pc'[c] = pc[c], call'[c] = call[c], lease'[c] = lease[c]
    PROVE  OpOf(c)' = OpOf(c) /\ LeaseOf(c)' = LeaseOf(c)
  BY DEF OpOf, OpenWrite, LeaseOf

\* A step that leaves the journal, what readers see and the record in flight alone.
LEMMA SameValue ==
    ASSUME UNCHANGED journal, Up' = Up,
           \A k \in Keys : /\ Visible(published'[k].body) = Visible(published[k].body)
                           /\ published'[k].pos = published[k].pos,
           \A c \in Clients : pc'[c] \in FlightPcs <=> pc[c] \in FlightPcs
    PROVE  UNCHANGED Value /\ Orphans' = Orphans
  <1>1. \A k : Latest(k)' = Latest(k)
    BY LatestKept
  <1>2. UNCHANGED Value
    BY <1>1 DEF Value, Replayed, Visible
  <1>3. \A p : InFlight(p)' <=> InFlight(p)
    BY DEF InFlight, FlightPcs
  <1>4. \A k : Orphan(k)' = Orphan(k)
    BY <1>1 DEF Orphan
  <1> QED
    BY <1>1, <1>2, <1>3, <1>4 DEF Orphans

\* A step of one client that is quiet.
LEMMA QuietImpl ==
    ASSUME NEW c \in Clients, UNCHANGED <<journal, istate>>,
           \A k \in Keys : /\ Visible(published'[k].body) = Visible(published[k].body)
                           /\ published'[k].pos = published[k].pos,
           \A d \in Clients \ {c} : pc'[d] = pc[d] /\ call'[d] = call[d] /\ lease'[d] = lease[d],
           pc'[c] \in FlightPcs <=> pc[c] \in FlightPcs,
           SameFences, LeaseOf(c)' = LeaseOf(c), OpOf(c)' = OpOf(c)
    PROVE  Contract!OrphansAreDropped
  <1>1. Up' = Up
    BY DEF Up
  <1>2. SameLeases /\ SameOps
    BY OthersSame DEF SameLeases, SameOps
  <1>3. \A d \in Clients : pc'[d] \in FlightPcs <=> pc[d] \in FlightPcs
    OBVIOUS
  <1> QED
    BY <1>1, <1>2, <1>3, SameValue, Dropped

\* No step of a client that is not under cas.lock, or that ends without a write.
LEMMA ClientSteps ==
    ASSUME IInv, NEW c \in Clients,
           \/ RepeatCreate(c) \/ RefuseWrite(c) \/ LoseFence(c) \/ AdmitWrite(c) \/ FinishWrite(c)
           \/ SettleFence(c) \/ SettleHash(c) \/ BeginLock(c) \/ GiveUpLock(c) \/ GrantLock(c)
           \/ RenewOwner(c) \/ RenewAdvisory(c) \/ Unlock(c)
    PROVE  /\ UNCHANGED <<journal, published, istate>>
           /\ \A d \in Clients \ {c} : pc'[d] = pc[d] /\ call'[d] = call[d] /\ lease'[d] = lease[d]
           /\ SameFences
           /\ pc'[c] \notin FlightPcs /\ pc[c] \notin FlightPcs
  <1> USE DEF files, locks, insts, locals, hist
  <1>1. pc \in [Clients -> Pcs] /\ call \in [Clients -> Call] /\ lease \in [Clients -> Lease]
    BY DataTypes, AcceptedTypes
  <1>2. SameFences
    <2>1. CASE RenewOwner(c)
      BY <2>1, RenewFences DEF SameFences
    <2>2. CASE ~RenewOwner(c)
      BY <2>2 DEF SameFences, RepeatCreate, RefuseWrite, LoseFence, AdmitWrite, FinishWrite, SettleFence,
         SettleHash, BeginLock, GiveUpLock, GrantLock, RenewAdvisory, Unlock
    <2> QED
      BY <2>1, <2>2
  <1>3. UNCHANGED <<journal, published, istate>>
    BY DEF RepeatCreate, RefuseWrite, LoseFence, AdmitWrite, FinishWrite, SettleFence,
       SettleHash, BeginLock, GiveUpLock, GrantLock, RenewOwner, RenewAdvisory, Unlock
  <1>4. \A d \in Clients \ {c} : pc'[d] = pc[d] /\ call'[d] = call[d] /\ lease'[d] = lease[d]
    BY <1>1 DEF RepeatCreate, RefuseWrite, LoseFence, AdmitWrite, FinishWrite, SettleFence,
       SettleHash, BeginLock, GiveUpLock, GrantLock, RenewOwner, RenewAdvisory, Unlock, Return, Goto
  <1>5. pc'[c] \notin FlightPcs /\ pc[c] \notin FlightPcs
    BY <1>1 DEF FlightPcs, RepeatCreate, RefuseWrite, LoseFence, AdmitWrite, FinishWrite, SettleFence,
       SettleHash, BeginLock, GiveUpLock, GrantLock, RenewOwner, RenewAdvisory, Unlock, Return, Goto, Idle
  <1> QED
    BY <1>2, <1>3, <1>4, <1>5

\* lock() up to its grant, renew(), unlock(), the settle loop: nothing the contract has.
LEMMA OutsideImpl ==
    ASSUME IInv, NEW c \in Clients,
           \/ SettleFence(c) \/ SettleHash(c) \/ BeginLock(c) \/ GiveUpLock(c)
           \/ RenewOwner(c) \/ RenewAdvisory(c) \/ Unlock(c)
    PROVE  Contract!OrphansAreDropped
  <1> USE DEF files, locks, insts, locals, hist
  <1>1. /\ UNCHANGED lease
        /\ pc[c] \notin OpenPcs \cup {"w_sync", "l_advisory"}
        /\ pc'[c] \notin OpenPcs \cup {"w_sync", "l_advisory"}
    <2>1. pc \in [Clients -> Pcs]
      BY DataTypes
    <2> QED
      BY <2>1 DEF OpenPcs, SettleFence, SettleHash, BeginLock, GiveUpLock, RenewOwner, RenewAdvisory,
         Unlock, Return, Goto, Idle
  <1>2. OpOf(c)' = OpOf(c) /\ LeaseOf(c)' = LeaseOf(c)
    BY <1>1, OpIs DEF LeaseOf
  <1> QED
    BY <1>2, ClientSteps, QuietImpl

\* The fence is durable; the lease the contract granted is handed out.
LEMMA GrantImpl == ASSUME IInv, NEW c \in Clients, GrantLock(c) PROVE Contract!OrphansAreDropped
  <1>1. PICK l : l = [key |-> call[c].key, token |-> call[c].own.token, fence |-> call[c].own.fence]
    OBVIOUS
  <1>2. /\ pc[c] = "l_advisory" /\ pc'[c] = "idle" /\ lease'[c] = l
        /\ l.key = call[c].key /\ l.fence = call[c].own.fence
    BY <1>1, DataTypes, AcceptedTypes DEF GrantLock, Return, Goto
  <1>3. OpOf(c)' = OpOf(c) /\ LeaseOf(c)' = LeaseOf(c)
    BY <1>2, OpIs DEF LeaseOf, OpenPcs
  <1> QED
    BY <1>3, ClientSteps, QuietImpl

\* It is admitted: its write stays open.
LEMMA AdmitImpl == ASSUME IInv, NEW c \in Clients, AdmitWrite(c) PROVE Contract!OrphansAreDropped
  <1>1. /\ pc[c] = "w_decide" /\ pc'[c] = "w_append" /\ UNCHANGED <<call, lease>>
    BY DataTypes DEF AdmitWrite, Goto
  <1>2. OpOf(c)' = OpOf(c) /\ LeaseOf(c)' = LeaseOf(c)
    BY <1>1, OpIs DEF LeaseOf, OpenPcs, OpenWrite
  <1> QED
    BY <1>2, ClientSteps, QuietImpl

\* A write() ends, refused, or OK after it has landed.
LEMMA ReturnImpl ==
    ASSUME IInv, NEW c \in Clients, RepeatCreate(c) \/ RefuseWrite(c) \/ LoseFence(c) \/ FinishWrite(c)
    PROVE  Contract!Return(c)
  <1> USE DEF files, locks, insts, locals, hist
  <1> DEFINE ops == [d \in Clients |-> OpOf(d)]
  <1>1. /\ UNCHANGED lease /\ pc[c] \in {"w_decide", "w_sync"} /\ pc'[c] \in {"idle", "s_fence"}
    BY DataTypes DEF RepeatCreate, RefuseWrite, LoseFence, FinishWrite, Return, Goto
  <1>2. /\ UNCHANGED <<journal, published, istate>> /\ SameFences
        /\ \A d \in Clients \ {c} : pc'[d] = pc[d] /\ call'[d] = call[d]
        /\ pc'[c] \notin FlightPcs /\ pc[c] \notin FlightPcs
    BY ClientSteps
  <1>3. Value' = Value /\ Orphans' = Orphans
    BY <1>2, SameValue DEF Up
  <1>4. OpOf(c)' = [stage |-> "idle"] /\ OpOf(c).stage \in {"open", "landed"}
    BY <1>1, OpIs DEF OpenPcs
  <1>5. ops' = [ops EXCEPT ![c] = [stage |-> "idle"]]
    BY <1>1, <1>2, <1>4, OthersSame
  <1>6. ops[c] # [stage |-> "idle"]
    BY <1>4
  <1>7. SameLeases
    <2> SUFFICES ASSUME NEW d \in Clients PROVE LeaseOf(d)' = LeaseOf(d)
      BY DEF SameLeases
    <2>1. pc'[d] = "l_advisory" <=> pc[d] = "l_advisory"
      BY <1>1, <1>2
    <2> QED
      BY <1>1, <1>2, <2>1 DEF LeaseOf
  <1> QED
    BY <1>2, <1>3, <1>5, <1>6, <1>7 DEF Contract!Return, Contract!Idle, SameFences, SameLeases

\* A write() begins under cas.lock.
LEMMA BeginImpl ==
    ASSUME IInv, NEW c \in Clients, BeginCreate(c) \/ BeginUpdate(c) PROVE Contract!BeginWrite(c)
  <1> USE DEF files, locks, insts, locals, hist
  <1> DEFINE ops == [d \in Clients |-> OpOf(d)]
  <1>1. PICK k \in Keys, b \in Bodies, e \in Bodies \cup {Empty, None} : BeginWrite(c, k, b, e)
    BY DEF BeginCreate, BeginUpdate
  <1>2. /\ UNCHANGED <<journal, published, istate, lease, owner>>
        /\ pc[c] = "idle" /\ pc'[c] = "w_decide"
        /\ call'[c].key = k /\ call'[c].body = b /\ call'[c].expected = e
        /\ \A d \in Clients \ {c} : pc'[d] = pc[d] /\ call'[d] = call[d]
    <2>1. pc \in [Clients -> Pcs] /\ call \in [Clients -> Call]
      BY DataTypes
    <2> QED
      BY <1>1, <2>1 DEF BeginWrite, Goto, NoCall, Idle
  <1>3. PICK w : w = [key |-> k, body |-> b, prior |-> IF e \in Bodies THEN e ELSE Absent,
                      fenced |-> e # None]
    OBVIOUS
  <1>4. w \in Contract!Write
    BY <1>3 DEF Contract!Write
  <1>5. OpOf(c) = [stage |-> "idle"] /\ OpOf(c)' = [stage |-> "open", write |-> w]
    BY <1>2, <1>3, OpIs DEF OpenPcs, OpenWrite
  <1>6. ops[c] = [stage |-> "idle"] /\ ops' = [ops EXCEPT ![c] = [stage |-> "open", write |-> w]]
    BY <1>2, <1>5, OthersSame
  <1>7. \A d \in Clients : LeaseOf(d)' = LeaseOf(d)
    BY <1>2, OthersSame DEF LeaseOf
  <1>8. Value' = Value /\ Orphans' = Orphans
    BY <1>2, SameValue DEF Up, FlightPcs
  <1> QED
    BY <1>2, <1>4, <1>6, <1>7, <1>8 DEF Contract!BeginWrite, Contract!Open, Contract!Idle

\* lock() makes the next fence durable.
LEMMA AllocateImpl ==
    ASSUME IInv, DataInv, SimInv, NEW c \in Clients, AllocateFence(c) PROVE Contract!Lock(c)
  <1> USE DEF files, locks, insts, locals, hist
  <1> DEFINE ops == [d \in Clients |-> OpOf(d)]
             fs == [k \in Keys |-> owner[k].fence]
             ls == [d \in Clients |-> LeaseOf(d)]
  <1>1. PICK k \in Keys : /\ call'[c].key = k /\ call'[c].own.fence = owner[k].fence + 1
                          /\ owner'[k].fence = owner[k].fence + 1
                          /\ \A j \in Keys \ {k} : owner'[j] = owner[j]
    BY AllocateSim
  <1>2. /\ UNCHANGED <<journal, published, istate, lease>>
        /\ pc[c] = "l_cas" /\ pc'[c] = "l_advisory"
        /\ \A d \in Clients \ {c} : pc'[d] = pc[d] /\ call'[d] = call[d]
    BY DataTypes DEF AllocateFence, Goto
  <1>3. OpOf(c) = [stage |-> "idle"] /\ OpOf(c)' = [stage |-> "idle"]
    BY <1>2, OpIs DEF OpenPcs
  <1>4. ops' = ops /\ ops[c] = [stage |-> "idle"]
    BY <1>2, <1>3, OthersSame
  <1>5. fs' = [fs EXCEPT ![k] = fs[k] + 1]
    BY <1>1
  <1>6. ls' = [ls EXCEPT ![c] = [key |-> k, fence |-> fs[k] + 1]]
    <2>1. LeaseOf(c)' = [key |-> k, fence |-> fs[k] + 1]
      BY <1>1, <1>2 DEF LeaseOf
    <2> QED
      BY <1>2, <2>1, OthersSame
  <1>7. Value' = Value /\ Orphans' = Orphans
    BY <1>2, SameValue DEF Up, FlightPcs
  <1>8. Orphans' \subseteq Contract!Outrun(k)
    BY <1>7 DEF Contract!Outrun
  <1> QED
    BY <1>4, <1>5, <1>6, <1>7, <1>8 DEF Contract!Lock, Contract!Idle

\* A record of dead processes that replay would restore: it was compared with
\* what readers see.
LEMMA OrphanIs ==
    ASSUME IInv, DataInv, SimInv, NEW k \in Keys, Up, Latest(k) > published[k].pos
    PROVE  /\ Orphan(k).key = k /\ Orphan(k).body = journal[Latest(k)].body
           /\ Orphan(k).prior = Value[k] /\ Orphan(k).fenced = (journal[Latest(k)].fence > 0)
           /\ Orphan(k) = [key |-> k, body |-> journal[Latest(k)].body, prior |-> Value[k],
                           fenced |-> journal[Latest(k)].fence > 0]
  <1>1. journal[Latest(k)].base = published[k].pos
    BY DEF SimInv, RestorableOK
  <1>2. Value[k] = Visible(published[k].body)
    BY DEF Value
  <1>3. Value[k] = IF published[k].pos = 0 THEN Absent ELSE journal[published[k].pos].body
    BY <1>2, LatestFacts DEF SimInv
  <1> QED
    BY <1>1, <1>3 DEF Orphan

\* The record in flight is the open write of the call that wrote it.
LEMMA FlightIs ==
    ASSUME IInv, DataInv, SimInv, NEW c \in Clients, pc[c] \in FlightPcs
    PROVE  \E k \in Keys : /\ k = call[c].key /\ Latest(k) = Len(journal) /\ Latest(k) > published[k].pos
                           /\ Up /\ Orphan(k) = OpenWrite(c)
                           /\ \A j \in Keys \ {k} : Latest(j) # Len(journal)
  <1>0. pc[c] \in {"w_reserve", "w_replace", "w_sync"} /\ pc[c] \in CasPcs /\ pc[c] \in {"w_reserve", "w_replace"}
    BY DEF FlightPcs, CasPcs, CommitPcs
  <1>1. PICK k, n : k \in Keys /\ k = call[c].key /\ n = Len(journal) /\ Up
    BY <1>0, Writer
  <1>2. Latest(k) = n /\ \A j \in Keys \ {k} : Latest(j) # n
    BY <1>0, <1>1, LastIsLatest DEF SimInv
  <1>3. published[k].pos < n /\ n \in Nat /\ published[k].pos \in Nat
    BY <1>0, <1>1, DataTypes DEF SimInv, SendsOK
  <1>4. Value[k] = OpenWrite(c).prior
    BY <1>0, <1>1 DEF SimInv, SendsOK, Value
  <1>5. journal[n].body = call[c].body /\ journal[n].fence = FenceToAccept(c)
    BY <1>0, <1>1 DEF DataInv, WriteOK, IInv, FenceInv, RecordIsOwn
  <1>6. (FenceToAccept(c) > 0) = (call[c].expected # None)
    <2>1. CASE call[c].expected = None
      BY <2>1 DEF FenceToAccept
    <2>2. CASE call[c].expected # None
      <3>1. lease[c].key = call[c].key /\ lease[c].key \in Keys
        BY <1>0, <1>1, <2>2 DEF SimInv, SendsOK
      <3>2. lease[c].fence > 0
        BY <3>1 DEF SimInv, SendsOK
      <3> QED
        BY <2>2, <3>2 DEF FenceToAccept
    <2> QED
      BY <2>1, <2>2
  <1>7. Latest(k) > published[k].pos
    BY <1>2, <1>3
  <1>8. Orphan(k) = [key |-> k, body |-> call[c].body, prior |-> OpenWrite(c).prior,
                     fenced |-> call[c].expected # None]
    BY <1>1, <1>2, <1>4, <1>5, <1>6, <1>7, OrphanIs
  <1>9. Orphan(k) = OpenWrite(c)
    BY <1>1, <1>8 DEF OpenWrite
  <1> QED
    BY <1>1, <1>2, <1>7, <1>9

\* The record of a write() is journaled: it is in flight, and may outdate orphans.
LEMMA AppendImpl ==
    ASSUME IInv, DataInv, SimInv, NEW c \in Clients, AppendRecord(c)
    PROVE  Contract!OrphansAreDropped
  <1> USE DEF files, locks, insts, locals, hist
  <1>0. pc[c] = "w_append" /\ pc[c] \in CasPcs
    BY DEF AppendRecord, CasPcs, CommitPcs
  <1>1. PICK k, r, n : k \in Keys /\ k = call[c].key /\ r = RecordOf(c) /\ n = Len(journal) + 1
    BY <1>0, Writer
  <1>2. /\ journal' = Append(journal, r)
        /\ pc'[c] \in FlightPcs
        /\ \A d \in Clients \ {c} : pc'[d] = pc[d]
        /\ UNCHANGED <<published, istate, owner, lease, call>>
    BY <1>1, DataTypes DEF AppendRecord, Goto, FlightPcs
  <1>3. r.key = k /\ r \in Record
    <2>1. FenceToAccept(c) \in Nat
      BY AcceptedTypes DEF FenceToAccept
    <2>2. call[c].body \in Bodies /\ call[c].cur.pos \in Nat
      BY <1>0, Writer, DataTypes DEF DataInv, WriteOK
    <2> QED
      BY <1>1, <2>1, <2>2 DEF RecordOf, Record
  <1>4. /\ Len(journal) \in Nat /\ Len(journal') = n
        /\ \A p \in Positions : journal'[p] = journal[p] /\ p < n
    BY <1>1, <1>2, <1>3, DataTypes DEF Positions
  <1>5. ASSUME NEW j \in Keys PROVE Latest(j)' = IF j = k THEN n ELSE Latest(j)
    BY <1>1, <1>2, <1>3, LatestAppended DEF SimInv
  <1>6. Up /\ Up' = Up
    BY <1>0, <1>2, Writer DEF Up
  <1>7. UNCHANGED Value
    BY <1>2, <1>6 DEF Value
  <1>8. SameFences /\ SameLeases /\ SameOps
    <2>1. OpOf(c)' = OpOf(c) /\ LeaseOf(c)' = LeaseOf(c)
      BY <1>0, <1>2, OpIs DEF LeaseOf, OpenPcs, FlightPcs, OpenWrite
    <2> QED
      BY <1>2, <2>1, OthersSame DEF SameFences, SameLeases, SameOps
  <1>9. Orphans' \subseteq Orphans
    <2> SUFFICES ASSUME NEW o \in Orphans' PROVE o \in Orphans
      OBVIOUS
    <2>1. PICK j \in Keys : o = Orphan(j)' /\ Latest(j)' > published[j].pos /\ ~InFlight(Latest(j))'
      BY <1>2 DEF Orphans
    <2>2. j # k
      <3>1. InFlight(n)'
        BY <1>2, <1>4 DEF InFlight, FlightPcs
      <3> QED
        BY <1>5, <2>1, <3>1 DEF InFlight
    <2>3. Latest(j)' = Latest(j) /\ Latest(j) > published[j].pos
      BY <1>5, <2>1, <2>2
    <2>4. ~InFlight(Latest(j))
      BY <1>0, Writer DEF InFlight, CasPcs, CommitPcs
    <2>5. /\ Latest(j) \in Positions /\ journal[Latest(j)].base = published[j].pos
          /\ published[j].pos # 0 => published[j].pos \in Positions
      BY <1>6, <2>3, LatestFacts DEF SimInv, RestorableOK
    <2>6. journal'[Latest(j)] = journal[Latest(j)]
      BY <1>4, <2>5
    <2>7. Orphan(j)' = Orphan(j)
      BY <1>4, <2>3, <2>5, <2>6 DEF Orphan
    <2> QED
      BY <1>6, <2>1, <2>3, <2>4, <2>7 DEF Orphans
  <1> QED
    BY <1>7, <1>8, <1>9, Dropped

\* The name is reserved: no reader finds a value in it.
LEMMA ReserveImpl ==
    ASSUME IInv, DataInv, NEW c \in Clients, ReserveName(c) PROVE Contract!OrphansAreDropped
  <1> USE DEF files, locks, insts, locals, hist
  <1>0. pc[c] = "w_reserve" /\ pc[c] \in CasPcs
    BY DEF ReserveName, CasPcs, CommitPcs
  <1>1. PICK k \in Keys : k = call[c].key
    BY <1>0, Writer
  <1>2. /\ published[k].body = Absent /\ published' = [published EXCEPT ![k] = [body |-> Empty, pos |-> 0]]
        /\ pc'[c] = "w_replace" /\ \A d \in Clients \ {c} : pc'[d] = pc[d]
        /\ UNCHANGED <<journal, istate, owner, lease, call>>
    BY <1>1, DataTypes DEF ReserveName, Goto
  <1>3. published[k].pos = 0
    BY <1>2, SentinelAssumption DEF DataInv, VersionOK, BlobOK
  <1>4. \A j \in Keys : /\ Visible(published'[j].body) = Visible(published[j].body)
                        /\ published'[j].pos = published[j].pos
    <2>1. published'[k].body = Empty /\ published'[k].pos = 0
          /\ \A j \in Keys \ {k} : published'[j] = published[j]
      BY <1>2, DataTypes
    <2> QED
      BY <1>2, <1>3, <2>1, SentinelAssumption DEF Visible
  <1>5. OpOf(c)' = OpOf(c) /\ LeaseOf(c)' = LeaseOf(c)
    BY <1>0, <1>2, OpIs DEF LeaseOf, OpenPcs, OpenWrite
  <1> QED
    BY <1>0, <1>2, <1>4, <1>5, QuietImpl DEF FlightPcs, SameFences

\* os.replace: the write lands, on the value and under the fence it was checked with.
LEMMA ReplaceImpl ==
    ASSUME IInv, DataInv, SimInv, NEW c \in Clients, ReplaceBlob(c) PROVE Contract!Land(c)
  <1> USE DEF files, locks, insts, locals, hist
  <1> DEFINE ops == [d \in Clients |-> OpOf(d)]
             fs == [j \in Keys |-> owner[j].fence]
             ls == [d \in Clients |-> LeaseOf(d)]
  <1>0. /\ pc[c] = "w_replace" /\ pc[c] \in CasPcs /\ pc[c] \in CommitPcs /\ pc[c] \in FlightPcs
        /\ pc[c] \in OpenPcs /\ pc[c] \in {"w_reserve", "w_replace", "w_sync"}
    BY DEF ReplaceBlob, CasPcs, CommitPcs, FlightPcs, OpenPcs
  <1>1. PICK k, n : /\ k \in Keys /\ k = call[c].key /\ n = Len(journal) /\ Up
                    /\ Latest(k) = n /\ \A j \in Keys \ {k} : Latest(j) # n
    BY <1>0, FlightIs
  <1>2. /\ published' = [published EXCEPT ![k] = [body |-> call[c].body, pos |-> n]]
        /\ pc'[c] = "w_sync" /\ \A d \in Clients \ {c} : pc'[d] = pc[d]
        /\ UNCHANGED <<journal, istate, owner, lease, call>>
    BY <1>1, DataTypes DEF ReplaceBlob, Goto
  <1>3. /\ published'[k].pos = n /\ published'[k].body = call[c].body
        /\ \A j \in Keys \ {k} : published'[j] = published[j]
    BY <1>1, <1>2, DataTypes
  <1>4. PICK w : w = OpenWrite(c)
    OBVIOUS
  <1>5. w.key = k /\ w.body = call[c].body /\ w.fenced = (call[c].expected # None) /\ w.body \in Bodies
    BY <1>0, <1>1, <1>4, Writer DEF OpenWrite
  <1>6. Up' = Up
    BY <1>2 DEF Up
  <1>7. Value[k] = w.prior
    BY <1>0, <1>1, <1>4 DEF SimInv, SendsOK, Value
  <1>8. Value' = [Value EXCEPT ![w.key] = w.body]
    <2>1. Visible(w.body) = w.body
      BY <1>5, SentinelAssumption DEF Visible
    <2> QED
      BY <1>1, <1>3, <1>5, <1>6, <2>1 DEF Value, Visible
  <1>9. /\ OpOf(c) = [stage |-> "open", write |-> w] /\ OpOf(c)' = [stage |-> "landed"]
        /\ ops' = [ops EXCEPT ![c] = [stage |-> "landed"]]
    <2>1. OpOf(c) = [stage |-> "open", write |-> w] /\ OpOf(c)' = [stage |-> "landed"]
      BY <1>0, <1>2, <1>4, OpIs
    <2> QED
      BY <1>2, <2>1, OthersSame
  <1>10. fs' = fs /\ ls' = ls
    <2>1. LeaseOf(c)' = LeaseOf(c)
      BY <1>0, <1>2 DEF LeaseOf
    <2> QED
      BY <1>2, <2>1, OthersSame
  <1>11. w.fenced => ls[c] = [key |-> k, fence |-> fs[k]]
    <2>1. SUFFICES ASSUME call[c].expected # None PROVE lease[c].key = k /\ lease[c].fence = owner[k].fence
      BY <1>0, <1>1, <1>5 DEF LeaseOf
    <2> QED
      BY <1>0, <1>1, <2>1 DEF SimInv, SendsOK, IInv, FenceInv, LeaseCurrent
  <1>12. Orphans' \subseteq {o \in Orphans : o.key # k}
    <2> SUFFICES ASSUME NEW o \in Orphans' PROVE o \in Orphans /\ o.key # k
      OBVIOUS
    <2>1. PICK j \in Keys : o = Orphan(j)' /\ Latest(j)' > published'[j].pos
      BY DEF Orphans
    <2>2. Latest(j)' = Latest(j) /\ Latest(k)' = n /\ n \in Nat
      BY <1>1, <1>2, LatestKept, DataTypes
    <2>3. j # k
      BY <1>3, <2>1, <2>2
    <2>4. Latest(j) > published[j].pos /\ ~InFlight(Latest(j))
      BY <1>1, <1>3, <2>1, <2>2, <2>3 DEF InFlight
    <2>5. Orphan(j)' = Orphan(j) /\ Orphan(j).key = j
      BY <1>2, <2>2 DEF Orphan
    <2> QED
      BY <1>1, <2>1, <2>3, <2>4, <2>5 DEF Orphans
  <1>13. Contract!IsOpen(c) /\ Contract!FenceOk(c, w) /\ Orphans' \subseteq Contract!Outlive(w.key)
    BY <1>5, <1>9, <1>11, <1>12 DEF Contract!IsOpen, Contract!FenceOk, Contract!Outlive
  <1>14. Value[w.key] = w.prior /\ ops[c].write = w
    BY <1>5, <1>7, <1>9
  <1> QED
    BY <1>8, <1>9, <1>10, <1>13, <1>14 DEF Contract!Land, Contract!Landed

-----------------------------------------------------------------------------
\* A constructor restores a record: beside a serving process the write of a dead
\* one lands; before any serves, nothing changes.
LEMMA RestoreImpl ==
    ASSUME IInv, DataInv, SimInv, NEW i \in Instances, NEW k \in Keys,
           ResumeSkip(i, k) \/ ResumeReserve(i, k) \/ ResumeReplace(i, k) \/ ResumeSync(i, k)
    PROVE  Contract!OrphanLands \/ Contract!OrphansAreDropped
  <1> USE DEF files, locks, insts, locals, hist
  <1>1. istate[i] = "resume" /\ UNCHANGED <<journal, istate, owner, lease, pc, call>>
    BY DEF ResumeSkip, ResumeReserve, ResumeReplace, ResumeSync, Restoring
  <1>2. /\ Up' = Up /\ SameFences /\ SameLeases /\ SameOps
        /\ \A j : Latest(j)' = Latest(j)
        /\ \A j : Orphan(j)' = Orphan(j)
    <2>1. \A j : Latest(j)' = Latest(j)
      BY <1>1, LatestKept
    <2> QED
      BY <1>1, <2>1, OthersSame DEF Up, SameFences, SameLeases, SameOps, Orphan
  <1>3. \A p : ~InFlight(p)
    BY <1>1, Restorer DEF InFlight, CasPcs, CommitPcs
  <1>4. /\ Latest(k) # 0 /\ Latest(k) \in Nat /\ published[k].pos \in Nat /\ published[k].pos <= Latest(k)
        /\ \A z \in Keys \ {k} : published'[z] = published[z]
    BY RestoreSim, LatestFacts DEF SimInv
  <1>5. CASE ResumeReserve(i, k) \/ ResumeSync(i, k)
    <2>1. \A z \in Keys : /\ Visible(published'[z].body) = Visible(published[z].body)
                          /\ published'[z].pos = published[z].pos
      BY <1>4, <1>5, RestoreSim
    <2>2. UNCHANGED Value /\ Orphans' = Orphans
      BY <1>1, <1>2, <2>1, SameValue
    <2> QED
      BY <1>2, <2>2, Dropped
  <1>6. CASE ResumeSkip(i, k) \/ ResumeReplace(i, k)
    <2>1. published'[k].pos = Latest(k) /\ published'[k].body = journal[Latest(k)].body
      BY <1>6, RestoreSim
    <2>2. journal[Latest(k)].body \in Bodies /\ Visible(published'[k].body) = journal[Latest(k)].body
      <3>1. journal[Latest(k)].body \in Bodies
        BY <1>4, LatestFacts DEF SimInv
      <3> QED
        BY <2>1, <3>1, SentinelAssumption DEF Visible
    <2>3. Orphans' \subseteq {o \in Orphans : o.key # k}
      <3> SUFFICES ASSUME NEW o \in Orphans' PROVE o \in Orphans /\ o.key # k
        OBVIOUS
      <3>1. PICK j \in Keys : o = Orphan(j) /\ Latest(j) > published'[j].pos /\ Up
        BY <1>2 DEF Orphans
      <3>2. j # k
        BY <1>4, <2>1, <3>1
      <3>3. published'[j] = published[j] /\ Orphan(j).key = j
        BY <1>4, <3>2 DEF Orphan
      <3> QED
        BY <1>3, <3>1, <3>2, <3>3 DEF Orphans
    <2>4. CASE Up /\ Latest(k) > published[k].pos
      <3>1. PICK o \in Orphans : o = Orphan(k)
        BY <1>3, <2>4 DEF Orphans
      <3>2. o.key = k /\ o.body = journal[Latest(k)].body /\ o.prior = Value[k]
        BY <2>4, <3>1, OrphanIs
      <3>3. Value' = [Value EXCEPT ![o.key] = o.body]
        BY <1>2, <1>4, <2>2, <2>4, <3>2 DEF Value, Visible
      <3>4. Orphans' \subseteq Contract!Outlive(o.key)
        BY <2>3, <3>2 DEF Contract!Outlive
      <3>5. Value[o.key] = o.prior
        BY <3>2
      <3> QED
        BY <1>2, <3>3, <3>4, <3>5 DEF Contract!OrphanLands, SameFences, SameLeases, SameOps
    <2>5. CASE Up /\ Latest(k) = published[k].pos
      <3>1. Visible(published[k].body) = journal[Latest(k)].body
        BY <1>4, <2>5, LatestFacts DEF SimInv
      <3>2. UNCHANGED Value
        BY <1>2, <1>4, <2>2, <2>5, <3>1 DEF Value, Visible
      <3> QED
        BY <1>2, <2>3, <3>2, Dropped
    <2>6. CASE ~Up
      <3>1. UNCHANGED Value
        BY <1>1, <1>2, <2>6 DEF Value, Replayed
      <3> QED
        BY <1>2, <2>3, <3>1, Dropped
    <2> QED
      BY <1>4, <2>4, <2>5, <2>6
  <1> QED
    BY <1>5, <1>6

\* A constructor begins, or ends: with the first that ends, readers see what
\* replay has restored.
LEMMA StartImpl ==
    ASSUME IInv, DataInv, SimInv, NEW i \in Instances, StartInstance(i) \/ ResumeDone(i)
    PROVE  Contract!OrphansAreDropped
  <1> USE DEF files, locks, insts, locals, hist
  <1>1. UNCHANGED <<journal, published, owner, lease, pc, call>>
    BY DEF StartInstance, ResumeDone
  <1>2. SameFences /\ SameLeases /\ SameOps
    BY <1>1, OthersSame DEF SameFences, SameLeases, SameOps
  <1>3. CASE Up' = Up
    <2>1. UNCHANGED Value /\ Orphans' = Orphans
      BY <1>1, <1>3, SameValue
    <2> QED
      BY <1>2, <2>1, Dropped
  <1>4. CASE Up' # Up
    <2>1. ResumeDone(i)
      <3>1. ASSUME StartInstance(i) PROVE FALSE
        <4>1. istate[i] = "down" /\ istate' = [istate EXCEPT ![i] = "resume"]
          BY <3>1 DEF StartInstance
        <4>2. istate'[i] = "resume" /\ \A j \in Instances \ {i} : istate'[j] = istate[j]
          BY <4>1, DataTypes
        <4> QED
          BY <1>4, <4>1, <4>2 DEF Up
      <3> QED
        BY <3>1
    <2>2. Up' /\ ~Up /\ \A k \in Keys : published[k].pos = Latest(k)
      BY <1>4, <2>1, DoneSim DEF Up
    <2>3. \A k \in Keys : Visible(published[k].body) = Replayed(k)
      BY <2>2, LatestFacts DEF SimInv
    <2>4. UNCHANGED Value
      BY <1>1, <2>2, <2>3 DEF Value
    <2>5. Orphans' = {}
      <3>1. \A k \in Keys : Latest(k)' = published'[k].pos /\ published[k].pos \in Nat
        BY <1>1, <2>2, LatestKept, DataTypes
      <3> QED
        BY <1>1, <3>1 DEF Orphans
    <2> QED
      BY <1>2, <2>4, <2>5, Dropped
  <1> QED
    BY <1>3, <1>4

\* Processes die: their open writes may land later, their leases are gone.  When
\* the last that serves dies, the value is what the next one will restore: the
\* records of the dead have landed.
LEMMA DeathImpl ==
    ASSUME IInv, DataInv, SimInv, NEW dead \in SUBSET Instances, Forget(dead),
           UNCHANGED <<journal, owner>>, UNCHANGED published \/ dead = Instances
    PROVE  Contract!Crash \/ Contract!OrphansAreDropped
  <1> DEFINE gone == {c \in Clients : Caller(c) \in dead}
             ops == [d \in Clients |-> OpOf(d)]
             fs == [k \in Keys |-> owner[k].fence]
             ls == [d \in Clients |-> LeaseOf(d)]
             lost(G) == Orphans \cup {ops[c].write : c \in {x \in G : ops[x].stage = "open"}}
  <1>1. /\ gone \in SUBSET Clients
        /\ \A d \in Clients :
             /\ d \in gone => pc'[d] = "idle" /\ lease'[d] = NoLease
             /\ d \notin gone => pc'[d] = pc[d] /\ call'[d] = call[d] /\ lease'[d] = lease[d]
    <2> SUFFICES ASSUME NEW d \in Clients
                 PROVE  /\ Caller(d) \in dead => pc'[d] = "idle" /\ lease'[d] = NoLease
                        /\ Caller(d) \notin dead => pc'[d] = pc[d] /\ call'[d] = call[d]
                                                    /\ lease'[d] = lease[d]
      OBVIOUS
    <2>1. d \notin dead
      BY SentinelAssumption
    <2> QED
      BY <2>1 DEF Forget
  <1>2. /\ fs' = fs /\ (Up' => Up) /\ (Up' => UNCHANGED published)
        /\ \A k : Latest(k)' = Latest(k) /\ Orphan(k)' = Orphan(k) /\ Replayed(k)' = Replayed(k)
    <2>1. \A k : Latest(k)' = Latest(k)
      BY LatestKept
    <2>2. Up' => dead # Instances
      BY DEF Forget, Up
    <2> QED
      BY <2>1, <2>2, ForgetData DEF Orphan, Replayed
  <1>3. ASSUME NEW c \in Clients, pc'[c] = "idle", lease'[c] = NoLease
        PROVE  OpOf(c)' = [stage |-> "idle"] /\ LeaseOf(c)' = [key |-> None, fence |-> 0]
    BY <1>3, OpIs DEF LeaseOf, NoLease, OpenPcs
  <1> HIDE DEF gone
  <1>4. /\ ops' = [d \in Clients |-> IF d \in gone THEN [stage |-> "idle"] ELSE ops[d]]
        /\ ls' = [d \in Clients |-> IF d \in gone THEN [key |-> None, fence |-> 0] ELSE ls[d]]
    <2> SUFFICES ASSUME NEW d \in Clients
                 PROVE  /\ OpOf(d)' = IF d \in gone THEN [stage |-> "idle"] ELSE OpOf(d)
                        /\ LeaseOf(d)' = IF d \in gone THEN [key |-> None, fence |-> 0] ELSE LeaseOf(d)
      OBVIOUS
    <2>1. CASE d \in gone
      BY <1>1, <1>3, <2>1
    <2>2. CASE d \notin gone
      BY <1>1, <2>2, OthersSame
    <2> QED
      BY <2>1, <2>2
  <1>5. ASSUME NEW c \in Clients, pc[c] \in FlightPcs
        PROVE  \E k \in Keys : /\ Latest(k) = Len(journal) /\ Up
                               /\ ops[c].stage = "open" /\ ops[c].write = Orphan(k)
                               /\ \A j \in Keys \ {k} : Latest(j) # Len(journal)
    <2>1. pc[c] \in OpenPcs
      BY <1>5 DEF OpenPcs, FlightPcs
    <2>2. OpOf(c).stage = "open" /\ OpOf(c).write = OpenWrite(c)
      BY <2>1, OpIs
    <2> QED
      BY <1>5, <2>2, FlightIs
  <1>6. Value = [k \in Keys |-> Value[k]]
    BY DEF Value
  <1>7. CASE Up' \/ ~Up
    <2>1. UNCHANGED Value
      <3>1. CASE Up'
        BY <1>2, <3>1 DEF Value, Visible
      <3>2. CASE ~Up
        BY <1>2, <3>2 DEF Value
      <3> QED
        BY <1>7, <3>1, <3>2
    <2>2. Orphans' \subseteq lost(gone)
      <3> SUFFICES ASSUME NEW o \in Orphans' PROVE o \in lost(gone)
        OBVIOUS
      <3>1. PICK k \in Keys : o = Orphan(k) /\ Up' /\ Latest(k) > published[k].pos /\ ~InFlight(Latest(k))'
        BY <1>2 DEF Orphans
      <3>2. CASE ~InFlight(Latest(k))
        BY <1>2, <3>1, <3>2 DEF Orphans
      <3>3. CASE InFlight(Latest(k))
        <4>1. PICK c \in Clients : pc[c] \in FlightPcs /\ Latest(k) = Len(journal)
          BY <3>3 DEF InFlight, FlightPcs
        <4>2. pc'[c] \notin FlightPcs
          BY <1>2, <3>1, <4>1 DEF InFlight, FlightPcs
        <4>3. c \in gone
          BY <1>1, <4>1, <4>2
        <4>4. ops[c].stage = "open" /\ ops[c].write = o
          BY <1>5, <3>1, <4>1
        <4> QED
          BY <4>3, <4>4
      <3> QED
        BY <3>2, <3>3
    <2>3. CASE gone = {}
      <3>1. SameOps /\ SameLeases /\ SameFences
        BY <1>1, <1>2, <2>3, OthersSame DEF SameOps, SameLeases, SameFences
      <3> QED
        BY <2>1, <2>2, <2>3, <3>1, Dropped
    <2>4. CASE gone # {}
      <3>1. /\ {} \in SUBSET {w \in lost(gone) : Value[w.key] = w.prior}
            /\ \A w, x \in {} : w.key = x.key => w = x
            /\ Value' = Contract!Settled({})
        BY <1>6, <2>1 DEF Contract!Settled
      <3> QED
        BY <1>1, <1>2, <1>4, <2>2, <2>4, <3>1
        DEF Contract!Crash, Contract!IsOpen, Contract!Idle, Contract!NoLease
    <2> QED
      BY <2>3, <2>4
  <1>8. CASE Up /\ ~Up'
    <2>1. Orphans' = {}
      BY <1>8 DEF Orphans
    <2>2. ASSUME NEW c \in Clients PROVE pc'[c] = "idle" /\ lease'[c] = NoLease
      <3>1. CASE c \in gone
        BY <1>1, <3>1
      <3>2. CASE c \notin gone
        <4>1. Caller(c) \in Instances /\ Caller(c) \notin dead
          BY <3>2, DataTypes DEF gone
        <4>2. istate[Caller(c)] # "up"
          BY <1>8, <4>1 DEF Up, Forget
        <4>3. pc[c] = "idle" /\ lease[c] = NoLease
          BY <4>2 DEF DataInv, WriteOK, SimInv, SendsOK
        <4> QED
          BY <1>1, <3>2, <4>3
      <3> QED
        BY <3>1, <3>2
    <2>3. /\ ops' = [d \in Clients |-> IF d \in Clients THEN [stage |-> "idle"] ELSE ops[d]]
          /\ ls' = [d \in Clients |-> IF d \in Clients THEN [key |-> None, fence |-> 0] ELSE ls[d]]
      BY <1>3, <2>2
    <2> DEFINE landed == {Orphan(k) : k \in {x \in Keys : Latest(x) > published[x].pos}}
    <2>4. ASSUME NEW k \in Keys, Latest(k) > published[k].pos
          PROVE  /\ Orphan(k) \in lost(Clients) /\ Value[Orphan(k).key] = Orphan(k).prior
                 /\ Orphan(k).key = k /\ Orphan(k).body = Replayed(k)
      <3>1. /\ Orphan(k).key = k /\ Orphan(k).prior = Value[k] /\ Orphan(k).body = Replayed(k)
        <4>1. Latest(k) # 0
          BY <2>4, LatestFacts DEF SimInv
        <4> QED
          BY <1>8, <2>4, <4>1, OrphanIs DEF Replayed
      <3>2. CASE ~InFlight(Latest(k))
        BY <1>8, <2>4, <3>1, <3>2 DEF Orphans
      <3>3. CASE InFlight(Latest(k))
        <4>1. PICK c \in Clients : pc[c] \in FlightPcs /\ Latest(k) = Len(journal)
          BY <3>3 DEF InFlight, FlightPcs
        <4>2. ops[c].stage = "open" /\ ops[c].write = Orphan(k)
          BY <1>5, <4>1
        <4> QED
          BY <3>1, <4>2
      <3> QED
        BY <3>2, <3>3
    <2>5. /\ landed \in SUBSET {w \in lost(Clients) : Value[w.key] = w.prior}
          /\ \A w, x \in landed : w.key = x.key => w = x
      BY <2>4
    <2>6. ASSUME NEW k \in Keys
          PROVE  Value'[k] = IF \E w \in landed : w.key = k
                             THEN (CHOOSE w \in landed : w.key = k).body ELSE Value[k]
      <3>1. Value'[k] = Replayed(k)
        BY <1>2, <1>8 DEF Value
      <3>2. CASE Latest(k) > published[k].pos
        <4>1. Orphan(k) \in landed /\ Orphan(k).key = k /\ Orphan(k).body = Replayed(k)
          BY <2>4, <3>2
        <4>2. \A w \in landed : w.key = k => w = Orphan(k)
          BY <2>5, <4>1
        <4> HIDE DEF landed
        <4>3. (CHOOSE w \in landed : w.key = k) = Orphan(k)
          BY <4>1, <4>2
        <4> QED
          BY <3>1, <4>1, <4>3
      <3>3. CASE ~(Latest(k) > published[k].pos)
        <4>1. ~\E w \in landed : w.key = k
          BY <2>4, <3>3
        <4>2. published[k].pos = Latest(k)
          BY <3>3, LatestFacts DEF SimInv
        <4>3. Value[k] = Replayed(k)
          BY <1>8, <4>2, LatestFacts DEF SimInv, Value
        <4> QED
          BY <3>1, <4>1, <4>3
      <3> QED
        BY <3>2, <3>3
    <2> HIDE DEF landed
    <2>7. Value' = Contract!Settled(landed)
      <3>1. Value' = [k \in Keys |-> Value'[k]]
        BY DEF Value
      <3> QED
        BY <2>6, <3>1 DEF Contract!Settled
    <2>8. CASE Clients # {}
      <3>1. Clients \in SUBSET Clients
        OBVIOUS
      <3> QED
        BY <1>2, <2>1, <2>3, <2>5, <2>7, <2>8, <3>1
        DEF Contract!Crash, Contract!IsOpen, Contract!Idle, Contract!NoLease
    <2>9. CASE Clients = {}
      <3>1. ASSUME NEW k \in Keys PROVE ~(Latest(k) > published[k].pos)
        <4>1. Positions = {}
          BY <2>9 DEF SimInv, Positions
        <4>2. ~(Latest(k) > 0)
          BY <4>1, LatestFacts DEF SimInv
        <4> QED
          BY <4>2, LatestFacts DEF SimInv
      <3>2. UNCHANGED Value
        <4>1. ~\E w \in landed : TRUE
          BY <3>1 DEF landed
        <4> QED
          BY <1>6, <2>6, <4>1 DEF Value
      <3>3. SameOps /\ SameLeases /\ SameFences
        BY <1>2, <2>9 DEF SameOps, SameLeases, SameFences
      <3> QED
        BY <2>1, <3>2, <3>3, Dropped
    <2> QED
      BY <2>8, <2>9
  <1> QED
    BY <1>7, <1>8

LEMMA NextImpl ==
    ASSUME NoFaults, IInv, DataInv, SimInv, [Next]_vars
    PROVE  [Contract!Next]_Contract!vars
  <1>1. ASSUME NEW c \in Clients, Begin(c) PROVE Contract!Next
    BY <1>1, BeginImpl, OutsideImpl DEF Begin, Contract!Next
  <1>2. ASSUME NEW c \in Clients, Continue(c) PROVE Contract!Next
    <2>1. CASE RepeatCreate(c) \/ RefuseWrite(c) \/ LoseFence(c) \/ FinishWrite(c)
      BY <2>1, ReturnImpl DEF Contract!Next
    <2>2. CASE ReplaceBlob(c) \/ AllocateFence(c)
      BY <2>2, ReplaceImpl, AllocateImpl DEF Contract!Next
    <2>3. CASE AdmitWrite(c) \/ AppendRecord(c) \/ ReserveName(c) \/ GrantLock(c)
      BY <2>3, AdmitImpl, AppendImpl, ReserveImpl, GrantImpl DEF Contract!Next
    <2>4. CASE SettleFence(c) \/ SettleHash(c) \/ GiveUpLock(c) \/ RenewAdvisory(c)
      BY <2>4, OutsideImpl DEF Contract!Next
    <2> QED
      BY <1>2, <2>1, <2>2, <2>3, <2>4, NoFaultSteps DEF Continue
  <1>3. ASSUME NEW i \in Instances, StartInstance(i) \/ Resume(i) PROVE Contract!Next
    BY <1>3, StartImpl, RestoreImpl DEF Resume, Contract!Next
  <1>4. ASSUME NEW i \in Instances, Crash(i) PROVE Contract!Next
    BY <1>4, DeathImpl DEF Crash, files, Contract!Next
  <1>5. CASE HostCrash
    BY <1>5, DeathImpl DEF HostCrash, Contract!Next
  <1>6. ASSUME Tick \/ UNCHANGED vars PROVE Contract!OrphansAreDropped
    <2>1. UNCHANGED <<journal, published, istate, owner, pc, call, lease>>
      BY <1>6 DEF Tick, vars, files, locks, insts, locals
    <2>2. SameFences /\ SameLeases /\ SameOps
      BY <2>1, OthersSame DEF SameFences, SameLeases, SameOps
    <2>3. UNCHANGED Value /\ Orphans' = Orphans
      BY <2>1, SameValue DEF Up
    <2> QED
      BY <2>2, <2>3, Dropped
  <1> QED
    BY <1>1, <1>2, <1>3, <1>4, <1>5, <1>6, NoFaultSteps DEF Next, Contract!Next

LEMMA InitImpl == ASSUME Init PROVE Contract!Init
  <1>1. /\ journal = <<>> /\ ~Up
        /\ \A c \in Clients : pc[c] = "idle" /\ lease[c] = NoLease
        /\ \A k \in Keys : owner[k] = NoOwner
    BY DEF Init, Up
  <1>2. ASSUME NEW k \in Keys PROVE Value[k] = Absent
    <2>1. Positions = {}
      BY <1>1 DEF Positions
    <2>2. Latest(k) = 0
      BY <2>1 DEF Latest
    <2> QED
      BY <1>1, <2>2 DEF Value, Replayed
  <1>3. Value = [k \in Keys |-> Absent]
    BY <1>2 DEF Value
  <1>4. ASSUME NEW c \in Clients
        PROVE  OpOf(c) = [stage |-> "idle"] /\ LeaseOf(c) = [key |-> None, fence |-> 0]
    BY <1>1, OpIs DEF LeaseOf, NoLease, OpenPcs
  <1>5. Orphans = {} /\ \A k \in Keys : owner[k].fence = 0
    BY <1>1 DEF Orphans, NoOwner
  <1> QED
    BY <1>3, <1>4, <1>5 DEF Contract!Init, Contract!Idle, Contract!NoLease

\* LocalBackend implements the store contract when no append is torn and os.replace
\* does not fail, for any processes, threads, keys and bodies: the write() of a
\* process lands at its os.replace, on the value it has compared and under the fence
\* it has checked, or, if the process dies before, at most once and when a
\* constructor finds its record; a power loss and the constructor after it lose no
\* write that has landed.
THEOREM RefinesContract == ASSUME NoFaults PROVE Spec => ImplementsContract
  <1>1. Init => SimInv /\ Contract!Init
    BY InitSim, InitImpl
  <1>2. IInv /\ DataInv /\ SimInv /\ [Next]_vars => SimInv' /\ [Contract!Next]_Contract!vars
    BY NextSim, NextImpl
  <1> QED
    BY <1>1, <1>2, InductiveInvariant, DataCorrect, PTL DEF Spec, ImplementsContract, Contract!Spec

=============================================================================
