-------------------------- MODULE ObjectStore_proofs --------------------------
(***************************************************************************)
(* Proofs about ObjectStore, for any processes, keys and bodies, and PUTs  *)
(* that fail, are refused or arrive late as they like.  A PUT is prepared  *)
(* on the envelope it names in its precondition, and its fences are not    *)
(* below those of that envelope (PutOK): whenever it lands, it lands on    *)
(* that very envelope.  The last part shows that every step is a step of   *)
(* the store contract, or none.                                            *)
(***************************************************************************)
EXTENDS ObjectStoreRefinement, TLAPS

-----------------------------------------------------------------------------
(***************************************************************************)
(* The registries of leases: what lock(), renew(), unlock() and the death  *)
(* of a process do to their types, and what the fence record promises.     *)
(***************************************************************************)
\* A client's instance has a registry.
LEMMA CallerType == ASSUME NEW c \in Clients PROVE Caller(c) \in Instances
  BY ShapeAssumption DEF Caller

LEMMA MutexType ==
    ASSUME LeasesOK, NEW c \in Clients, TakeMutex(c) \/ ReleaseMutex(c)
    PROVE  mutex' \in [Instances -> Clients \cup {None}]
  BY DEF LeasesOK, TakeMutex, ReleaseMutex

LEMMA EntryType ==
    ASSUME LeasesOK, NEW c \in Clients, NEW k \in Keys, NEW token \in Nat, NEW expiry \in Nat,
           SetEntry(c, k, token, expiry)
    PROVE  registry' \in [Instances -> [Keys -> Entry]]
  <1>1. [token |-> token, expiry |-> expiry] \in Entry
    BY DEF Entry
  <1> DEFINE e == [token |-> token, expiry |-> expiry]
  <1>2. registry' = [registry EXCEPT ![Caller(c)][k] = e]
    BY DEF SetEntry
  <1> HIDE DEF e
  <1>3. [registry[Caller(c)] EXCEPT ![k] = e] \in [Keys -> Entry]
    BY <1>1, CallerType DEF LeasesOK, e
  <1> QED
    BY <1>2, <1>3, CallerType DEF LeasesOK

\* The grant of a lease, its release, and the death of a process.
LEMMA GrantedType ==
    ASSUME LeasesOK, NEW c \in Clients, NEW k \in Keys, NEW token \in Nat, NEW expiry \in Nat,
           NEW f \in Nat, Granted(c, k, token, expiry, f), now' = now
    PROVE  LeasesOK'
  <1>1. registry' \in [Instances -> [Keys -> Entry]]
    BY EntryType DEF Granted
  <1>2. mutex' \in [Instances -> Clients \cup {None}]
    BY MutexType DEF Granted
  <1>3. lease' \in [Clients -> Lease]
    BY DEF Granted, LeasesOK, Lease
  <1> QED
    BY <1>1, <1>2, <1>3 DEF Granted, LeasesOK

LEMMA ReleasedType == ASSUME LeasesOK, NEW c \in Clients, Released(c) PROVE LeasesOK'
  <1>1. lease[c].key \in Keys
    BY DEF Released, OwnsEntry
  <1>2. registry' \in [Instances -> [Keys -> Entry]]
    BY <1>1, EntryType DEF Released
  <1> QED
    BY <1>2 DEF Released, LeasesOK

LEMMA ForgottenType == ASSUME LeasesOK, NEW i \in Instances, Forgotten(i) PROVE LeasesOK'
  <1>1. NoEntry \in Entry /\ NoLease \in Lease
    BY DEF NoEntry, Entry, NoLease, Lease
  <1> QED
    BY <1>1 DEF Forgotten, LeasesOK

\* Nothing is held at first.
LEMMA InitType == LeasesInit => LeasesOK
  <1>1. NoEntry \in Entry /\ NoLease \in Lease
    BY DEF NoEntry, Entry, NoLease, Lease
  <1> QED
    BY <1>1 DEF LeasesInit, LeasesOK

\* lock() allocates a fence above the owner's and above the accepted one;
\* renew() changes neither.
LEMMA AdvancedRises ==
    ASSUME NEW f \in Fence, NEW token \in Nat, NEW expiry \in Nat
    PROVE  /\ Advanced(f, token, expiry) \in Fence
           /\ Advanced(f, token, expiry).owner > f.owner
           /\ Advanced(f, token, expiry).accepted = f.accepted
  <1>1. /\ f.owner \in Nat /\ f.accepted \in Nat
        /\ NextFence(f) \in Nat /\ NextFence(f) > f.owner
    BY DEF Fence, NextFence
  <1> DEFINE g == [f EXCEPT !.token = token]
             h == [g EXCEPT !.expiry = expiry]
  <1>2. g \in Fence /\ g.owner = f.owner /\ g.accepted = f.accepted
    BY DEF Fence
  <1> HIDE DEF g
  <1>3. h \in Fence /\ h.owner = f.owner /\ h.accepted = f.accepted
    BY <1>2 DEF Fence
  <1>4. Advanced(f, token, expiry) = [h EXCEPT !.owner = NextFence(f)]
    BY DEF Advanced, g
  <1> HIDE DEF h
  <1> QED
    BY <1>1, <1>3, <1>4 DEF Fence

LEMMA RenewedKeeps ==
    ASSUME NEW f \in Fence, NEW expiry \in Nat
    PROVE  /\ Renewed(f, expiry) \in Fence
           /\ Renewed(f, expiry).owner = f.owner
           /\ Renewed(f, expiry).accepted = f.accepted
  BY DEF Renewed, Fence

\* The fence a write is accepted under is the owner's, at or above the floor.
LEMMA AcceptedRises ==
    ASSUME NEW f \in Fence, NEW l \in Lease, FenceOk(l, f)
    PROVE  /\ [f EXCEPT !.accepted = l.fence] \in Fence
           /\ [f EXCEPT !.accepted = l.fence].owner = f.owner
           /\ [f EXCEPT !.accepted = l.fence].accepted = f.owner
           /\ f.owner >= f.accepted
  BY DEF FenceOk, Fence, Lease

\* The owner lock() puts into the record.
LEMMA AdvancedOwner ==
    ASSUME NEW f \in Fence, NEW token \in Nat, NEW expiry \in Nat
    PROVE  /\ Advanced(f, token, expiry).token = token
           /\ Advanced(f, token, expiry).expiry = expiry
  <1>1. f.owner \in Nat /\ f.accepted \in Nat /\ NextFence(f) \in Nat
    BY DEF Fence, NextFence
  <1> DEFINE g == [f EXCEPT !.token = token]
             h == [g EXCEPT !.expiry = expiry]
  <1>2. g \in Fence /\ g.token = token
    BY DEF Fence
  <1> HIDE DEF g
  <1>3. h \in Fence /\ h.token = token /\ h.expiry = expiry
    BY <1>2 DEF Fence
  <1>4. Advanced(f, token, expiry) = [h EXCEPT !.owner = NextFence(f)]
    BY DEF Advanced, g
  <1> HIDE DEF h
  <1> QED
    BY <1>1, <1>3, <1>4 DEF Fence
-----------------------------------------------------------------------------
(***************************************************************************)
(* How long an entry lasts: what the proofs about it share.                *)
(***************************************************************************)
\* Every caller asks for the same ttl_s.
OneTTL == \A s, t \in TTLs : s = t

\* An expiry that a call made by now asked for.
Early(e) == \A t \in TTLs : e <= now + t

\* No lease and no entry has this token.
Unheld(token) ==
    /\ token # 0
    /\ \A c \in Clients : lease[c].token # token
    /\ \A i \in Instances, k \in Keys : registry[i][k].token # token

\* The tokens that are held were drawn, and two leases never share one.
HeldOK ==
    /\ \A i \in Instances, k \in Keys :
        registry[i][k].token <= tokens /\ (registry[i][k].token = 0 => registry[i][k].expiry = 0)
    /\ \A c \in Clients : lease[c].token <= tokens
    /\ \A c, d \in Clients : c # d /\ lease[c].token # 0 => lease[c].token # lease[d].token

\* What an entry becomes.
LEMMA EntryBecomes ==
    ASSUME LeasesOK, NEW c \in Clients, NEW k \in Keys, NEW token, NEW expiry,
           SetEntry(c, k, token, expiry)
    PROVE  \A i \in Instances, j \in Keys :
             registry'[i][j] = IF i = Caller(c) /\ j = k THEN [token |-> token, expiry |-> expiry]
                               ELSE registry[i][j]
  BY CallerType DEF LeasesOK, SetEntry

-----------------------------------------------------------------------------
(***************************************************************************)
(* The invariant.                                                          *)
(***************************************************************************)
Labels == {"idle", "get", "put", "settle"}

\* A PUT keeps or raises the fences of the envelope it replaces.
PutOK(put) ==
    /\ put \in Put
    /\ put.object.fence.owner >= put.match.fence.owner
    /\ put.object.fence.accepted >= put.match.fence.accepted

\* A client at place p of call x.
CallOK(p, x) ==
    /\ x \in Call
    /\ p # "idle" => /\ x.kind # "none" /\ x.key \in Keys
                     /\ x.kind \in Writes => x.body \in Bodies
    /\ p = "get" /\ x.kind \in Fences => x.attempts < MaxAttempts
    /\ p = "put" => PutOK(x.put)

LateOK(m) == PutOK(m.put) /\ m.kind \in Writes \cup Fences /\ m.told \in Told

IInv ==
    /\ LeasesOK /\ obj \in [Keys -> Object] /\ failures \in Nat
    /\ pc \in [Clients -> Labels] /\ call \in [Clients -> Call]
    /\ \A c \in Clients : CallOK(pc[c], call[c])
    /\ \A m \in late : LateOK(m)

LEMMA InvTypeOK == IInv => TypeOK
  BY DEF IInv, TypeOK, LateOK, PutOK, Labels

\* A client outside a call has prepared nothing.
LEMMA EmptyTypes ==
    NoObject \in Object /\ NoFence \in Fence /\ NoCall \in Call /\ CallOK("idle", NoCall)
  <1>1. NoFence \in Fence
    BY DEF NoFence, Fence
  <1>2. NoObject \in Object
    BY <1>1 DEF NoObject, Object
  <1>3. NoCall \in Call
    BY <1>2, ObjectAssumption DEF NoCall, Call
  <1> QED
    BY <1>1, <1>2, <1>3 DEF CallOK

LEMMA InitIInv == Init => IInv
  BY EmptyTypes, InitType DEF Init, IInv, Labels

-----------------------------------------------------------------------------
(***************************************************************************)
(* What the steps have in common.                                          *)
(***************************************************************************)
\* A client moves on; its PUT may have landed or become late.
LEMMA ClientStep ==
    ASSUME IInv, NEW c \in Clients, NEW p \in Labels, NEW x, CallOK(p, x),
           pc' = [pc EXCEPT ![c] = p], call' = [call EXCEPT ![c] = x],
           LeasesOK', obj' \in [Keys -> Object], failures' \in Nat,
           \A m \in late' : LateOK(m)
    PROVE  IInv'
  <1>1. x \in Call
    BY DEF CallOK
  <1>2. pc' \in [Clients -> Labels] /\ call' \in [Clients -> Call]
    BY <1>1 DEF IInv
  <1>3. ASSUME NEW d \in Clients PROVE CallOK(pc'[d], call'[d])
    BY DEF IInv
  <1> QED
    BY <1>2, <1>3 DEF IInv

LEMMA Returns ==
    ASSUME IInv, NEW c \in Clients, Return(c), LeasesOK', obj' \in [Keys -> Object],
           failures' \in Nat, \A m \in late' : LateOK(m)
    PROVE  IInv'
  BY ClientStep, EmptyTypes DEF Return, Goto, Labels

\* A step that changes nothing but the client's place, call and mutex.
LEMMA Unmoved ==
    ASSUME IInv, UNCHANGED <<obj, late, failures>>
    PROVE  obj' \in [Keys -> Object] /\ failures' \in Nat /\ \A m \in late' : LateOK(m)
  BY DEF IInv

LEMMA LeasesUnmoved == ASSUME IInv, UNCHANGED <<now, leases>> PROVE LeasesOK'
  BY DEF IInv, leases, LeasesOK

\* The envelope a client reads.
LEMMA SeenType ==
    ASSUME IInv, NEW c \in Clients, call[c].key \in Keys
    PROVE  /\ Seen(c) \in Object /\ Seen(c).fence \in Fence
           /\ Seen(c).fence.owner \in Nat /\ Seen(c).fence.accepted \in Nat
  BY DEF IInv, Seen, Object, Fence

\* The PUT that was prepared is a good one.
LEMMA PrepareStep ==
    ASSUME IInv, NEW c \in Clients, pc[c] = "get", NEW object \in Object,
           NEW attempts \in 0..MaxAttempts, Prepare(c, object, attempts),
           object.fence.owner >= Seen(c).fence.owner,
           object.fence.accepted >= Seen(c).fence.accepted,
           UNCHANGED <<now, leases, obj, late, failures>>
    PROVE  IInv'
  <1> DEFINE put == [key |-> call[c].key, match |-> Seen(c), object |-> object]
             x1  == [call[c] EXCEPT !.put = put]
             x   == [x1 EXCEPT !.attempts = attempts]
  <1>1. /\ CallOK("get", call[c]) /\ call[c] \in Call /\ call[c].key \in Keys
        /\ call[c].kind # "none" /\ (call[c].kind \in Writes => call[c].body \in Bodies)
    BY DEF IInv, CallOK
  <1>2. PutOK(put)
    BY <1>1, SeenType DEF PutOK, Put
  <1>3. call' = [call EXCEPT ![c] = [call[c] EXCEPT !.put = put, !.attempts = attempts]]
    BY DEF Prepare
  <1>4. pc' = [pc EXCEPT ![c] = "put"]
    BY DEF Prepare, Goto
  <1>5. put \in Put
    BY <1>2 DEF PutOK
  <1> HIDE DEF put
  <1>6. x = [call[c] EXCEPT !.put = put, !.attempts = attempts]
    OBVIOUS
  <1>7. /\ x1 \in Call /\ x1.put = put /\ x1.kind = call[c].kind /\ x1.key = call[c].key
        /\ x1.body = call[c].body
    BY <1>1, <1>5 DEF Call
  <1> HIDE DEF x1
  <1>8. /\ x \in Call /\ x.put = put /\ x.kind = call[c].kind /\ x.key = call[c].key
        /\ x.body = call[c].body
    BY <1>7 DEF Call
  <1> HIDE DEF x
  <1>9. CallOK("put", x)
    BY <1>1, <1>2, <1>8 DEF CallOK
  <1> QED
    BY <1>3, <1>4, <1>6, <1>9, ClientStep, Unmoved, LeasesUnmoved DEF Labels

\* A PUT lands on the envelope it was prepared on.
LEMMA Landing ==
    ASSUME IInv, NEW put, PutOK(put), Lands(put)
    PROVE  /\ obj' \in [Keys -> Object]
           /\ \A k \in Keys : /\ obj'[k].fence.owner >= obj[k].fence.owner
                              /\ obj'[k].fence.accepted >= obj[k].fence.accepted
  <1>1. /\ put.key \in Keys /\ put.object \in Object /\ obj \in [Keys -> Object]
        /\ obj[put.key] = put.match /\ obj' = [obj EXCEPT ![put.key] = put.object]
    BY DEF IInv, PutOK, Put, Lands, Matches
  <1>2. ASSUME NEW k \in Keys
        PROVE  /\ obj'[k].fence.owner >= obj[k].fence.owner
               /\ obj'[k].fence.accepted >= obj[k].fence.accepted
    <2>1. obj[k].fence.owner \in Nat /\ obj[k].fence.accepted \in Nat
      BY <1>1 DEF Object, Fence
    <2>2. CASE k = put.key
      BY <1>1, <2>2 DEF PutOK
    <2>3. CASE k # put.key
      BY <1>1, <2>1, <2>3
    <2> QED
      BY <2>2, <2>3
  <1> QED
    BY <1>1, <1>2

-----------------------------------------------------------------------------
(***************************************************************************)
(* write().                                                                *)
(***************************************************************************)
LEMMA BeginCreateStep == ASSUME IInv, NEW c \in Clients, BeginCreate(c) PROVE IInv'
  <1>1. PICK k \in Keys, b \in Bodies :
          call' = [call EXCEPT ![c] = [NoCall EXCEPT !.kind = "create", !.key = k, !.body = b,
                       !.put = [key |-> k, match |-> NoObject,
                                object |-> [body |-> b, fence |-> NoFence]]]]
    BY DEF BeginCreate
  <1> DEFINE put == [key |-> k, match |-> NoObject, object |-> [body |-> b, fence |-> NoFence]]
             x1 == [NoCall EXCEPT !.kind = "create"]
             x2 == [x1 EXCEPT !.key = k]
             x3 == [x2 EXCEPT !.body = b]
             x  == [x3 EXCEPT !.put = put]
  <1>2. PutOK(put)
    <2>1. NoFence.owner = 0 /\ NoFence.accepted = 0 /\ NoObject.fence = NoFence
      BY DEF NoFence, NoObject
    <2>2. [body |-> b, fence |-> NoFence] \in Object
      BY EmptyTypes DEF Object
    <2> QED
      BY <2>1, <2>2, EmptyTypes DEF PutOK, Put
  <1> HIDE DEF put
  <1>3. x = [NoCall EXCEPT !.kind = "create", !.key = k, !.body = b, !.put = put]
    OBVIOUS
  <1>4. x1 \in Call /\ x1.kind = "create"
    BY EmptyTypes DEF Call, Writes
  <1> HIDE DEF x1
  <1>5. x2 \in Call /\ x2.kind = "create" /\ x2.key = k
    BY <1>4 DEF Call
  <1> HIDE DEF x2
  <1>6. x3 \in Call /\ x3.kind = "create" /\ x3.key = k /\ x3.body = b
    BY <1>5 DEF Call
  <1> HIDE DEF x3
  <1>7. x \in Call /\ x.kind = "create" /\ x.key = k /\ x.body = b /\ x.put = put
    BY <1>2, <1>6 DEF Call, PutOK
  <1>8. call' = [call EXCEPT ![c] = x] /\ pc' = [pc EXCEPT ![c] = "put"]
    BY <1>1, <1>3 DEF BeginCreate, Goto, put
  <1> HIDE DEF x
  <1>9. CallOK("put", x)
    BY <1>2, <1>7 DEF CallOK, Fences
  <1>10. UNCHANGED <<now, leases, obj, late, failures>>
    BY DEF BeginCreate
  <1> QED
    BY <1>8, <1>9, <1>10, ClientStep, Unmoved, LeasesUnmoved DEF Labels

LEMMA BeginUpdateStep == ASSUME IInv, NEW c \in Clients, BeginUpdate(c) PROVE IInv'
  <1>1. PICK b, e \in Bodies :
          /\ lease[c].key \in Keys
          /\ call' = [call EXCEPT ![c] = [NoCall EXCEPT !.kind = "update", !.key = lease[c].key,
                                                        !.body = b, !.expected = e]]
    BY DEF BeginUpdate
  <1> DEFINE x1 == [NoCall EXCEPT !.kind = "update"]
             x2 == [x1 EXCEPT !.key = lease[c].key]
             x3 == [x2 EXCEPT !.body = b]
             x  == [x3 EXCEPT !.expected = e]
  <1>2. x = [NoCall EXCEPT !.kind = "update", !.key = lease[c].key, !.body = b, !.expected = e]
    OBVIOUS
  <1>3. x1 \in Call /\ x1.kind = "update"
    BY EmptyTypes DEF Call, Writes
  <1> HIDE DEF x1
  <1>4. x2 \in Call /\ x2.kind = "update" /\ x2.key = lease[c].key
    BY <1>1, <1>3 DEF Call
  <1> HIDE DEF x2
  <1>5. x3 \in Call /\ x3.kind = "update" /\ x3.key = lease[c].key /\ x3.body = b
    BY <1>4 DEF Call
  <1> HIDE DEF x3
  <1>6. x \in Call /\ x.kind = "update" /\ x.key = lease[c].key /\ x.body = b
    BY <1>5 DEF Call
  <1>7. call' = [call EXCEPT ![c] = x] /\ pc' = [pc EXCEPT ![c] = "get"]
    BY <1>1, <1>2 DEF BeginUpdate, Goto
  <1> HIDE DEF x
  <1>8. CallOK("get", x)
    BY <1>1, <1>6 DEF CallOK, Fences
  <1>9. UNCHANGED <<now, leases, obj, late, failures>>
    BY DEF BeginUpdate
  <1> QED
    BY <1>7, <1>8, <1>9, ClientStep, Unmoved, LeasesUnmoved DEF Labels

\* A phantom keeps its owner and its fence.
LEMMA FillPhantomStep == ASSUME IInv, NEW c \in Clients, FillPhantom(c) PROVE IInv'
  <1>1. /\ pc[c] = "get" /\ call[c].key \in Keys /\ call[c].body \in Bodies
        /\ call[c].attempts \in Nat /\ call[c].attempts < MaxAttempts
    BY DEF IInv, FillPhantom, In, CallOK, Call, Writes
  <1> DEFINE object == [Seen(c) EXCEPT !.body = call[c].body]
  <1>2. object \in Object /\ object.fence = Seen(c).fence
    BY <1>1, SeenType DEF Object
  <1>3. Prepare(c, object, call[c].attempts + 1)
    BY DEF FillPhantom
  <1>4. UNCHANGED <<now, leases, obj, late, failures>>
    BY DEF FillPhantom
  <1> HIDE DEF object
  <1>5. call[c].attempts + 1 \in 0..MaxAttempts
    BY <1>1, ObjectAssumption
  <1> QED
    BY <1>1, <1>2, <1>3, <1>4, <1>5, SeenType, PrepareStep

\* The fence a write is accepted under is the owner's, at or above the floor.
LEMMA AdmitUpdateStep == ASSUME IInv, NEW c \in Clients, AdmitUpdate(c) PROVE IInv'
  <1>1. /\ pc[c] = "get" /\ call[c].key \in Keys /\ call[c].body \in Bodies
    BY DEF IInv, AdmitUpdate, In, CallOK, Writes
  <1>2. FenceOk(lease[c], Seen(c).fence) /\ lease[c] \in Lease
    BY DEF AdmitUpdate, UpdateAdmitted, IInv, LeasesOK
  <1> DEFINE fence  == [Seen(c).fence EXCEPT !.accepted = lease[c].fence]
             object == [body |-> call[c].body, fence |-> fence]
  <1>3. /\ fence \in Fence /\ fence.owner = Seen(c).fence.owner
        /\ fence.accepted >= Seen(c).fence.accepted
    BY <1>1, <1>2, SeenType, AcceptedRises
  <1>4. Prepare(c, object, 0)
    BY DEF AdmitUpdate
  <1> HIDE DEF fence
  <1>5. object \in Object /\ object.fence = fence
    BY <1>1, <1>3 DEF Object
  <1> HIDE DEF object
  <1>6. UNCHANGED <<now, leases, obj, late, failures>> /\ 0 \in 0..MaxAttempts
    BY ObjectAssumption DEF AdmitUpdate
  <1> QED
    BY <1>1, <1>3, <1>4, <1>5, <1>6, SeenType, PrepareStep

\* The other steps of write() before the PUT, and of the settle loop.
LEMMA WriteReturns ==
    ASSUME IInv, NEW c \in Clients,
           ResolveCreate(c) \/ RefuseUpdate(c) \/ SettleReturns(c)
    PROVE  IInv'
  <1>1. Return(c) /\ UNCHANGED <<now, leases, obj, late, failures>>
    BY DEF ResolveCreate, RefuseUpdate, SettleReturns
  <1> QED
    BY <1>1, Returns, Unmoved, LeasesUnmoved

LEMMA LoseFenceStep == ASSUME IInv, NEW c \in Clients, LoseFence(c) PROVE IInv'
  <1>1. CallOK("settle", call[c])
    BY DEF IInv, LoseFence, In, CallOK
  <1>2. call' = [call EXCEPT ![c] = call[c]] /\ pc' = [pc EXCEPT ![c] = "settle"]
    BY DEF LoseFence, Goto, IInv
  <1>3. UNCHANGED <<now, leases, obj, late, failures>>
    BY DEF LoseFence
  <1> QED
    BY <1>1, <1>2, <1>3, ClientStep, Unmoved, LeasesUnmoved DEF Labels

LEMMA SettlePollsStep == ASSUME IInv, NEW c \in Clients, SettlePolls(c) PROVE IInv'
  <1> DEFINE x == [call[c] EXCEPT !.polls = call[c].polls + 1]
  <1>1. /\ CallOK("settle", call[c]) /\ call[c] \in Call /\ pc[c] = "settle"
        /\ call[c].polls < MaxPolls /\ call[c].polls \in Nat
    BY DEF IInv, SettlePolls, In, CallOK, Call
  <1>2. call' = [call EXCEPT ![c] = x]
    BY DEF SettlePolls
  <1>3. call[c].polls + 1 \in 0..MaxPolls
    BY <1>1, ObjectAssumption
  <1>4. x \in Call /\ x.kind = call[c].kind /\ x.key = call[c].key /\ x.body = call[c].body
    BY <1>1, <1>3 DEF Call
  <1> HIDE DEF x
  <1>5. CallOK("settle", x)
    BY <1>1, <1>4 DEF CallOK
  <1>6. pc' = [pc EXCEPT ![c] = "settle"] /\ UNCHANGED <<now, leases, obj, late, failures>>
    BY <1>1 DEF SettlePolls, IInv
  <1> QED
    BY <1>2, <1>5, <1>6, ClientStep, Unmoved, LeasesUnmoved DEF Labels

-----------------------------------------------------------------------------
(***************************************************************************)
(* lock() and renew().                                                     *)
(***************************************************************************)
\* One that begins has tried nothing.
LEMMA FenceCall ==
    ASSUME NEW kind \in Fences, NEW k \in Keys, NEW token \in Nat, NEW expiry \in Nat
    PROVE  CallOK("get", [NoCall EXCEPT !.kind = kind, !.key = k, !.token = token,
                                        !.expiry = expiry])
  <1> DEFINE x1 == [NoCall EXCEPT !.kind = kind]
             x2 == [x1 EXCEPT !.key = k]
             x3 == [x2 EXCEPT !.token = token]
             x  == [x3 EXCEPT !.expiry = expiry]
  <1>1. x = [NoCall EXCEPT !.kind = kind, !.key = k, !.token = token, !.expiry = expiry]
    OBVIOUS
  <1>2. x1 \in Call /\ x1.kind = kind /\ x1.attempts = 0
    BY EmptyTypes DEF Call, NoCall
  <1> HIDE DEF x1
  <1>3. x2 \in Call /\ x2.kind = kind /\ x2.key = k /\ x2.attempts = 0
    BY <1>2 DEF Call
  <1> HIDE DEF x2
  <1>4. x3 \in Call /\ x3.kind = kind /\ x3.key = k /\ x3.attempts = 0
    BY <1>3 DEF Call
  <1> HIDE DEF x3
  <1>5. x \in Call /\ x.kind = kind /\ x.key = k /\ x.attempts = 0
    BY <1>4 DEF Call
  <1> HIDE DEF x
  <1>6. CallOK("get", x)
    BY <1>5, ObjectAssumption DEF CallOK, Fences, Writes
  <1> QED
    BY <1>1, <1>6

LEMMA BeginLockStep == ASSUME IInv, NEW c \in Clients, BeginLock(c) PROVE IInv'
  <1>1. PICK k \in Keys, ttl \in TTLs :
          /\ TakeMutex(c) /\ tokens' = tokens + 1
          /\ call' = [call EXCEPT ![c] = [NoCall EXCEPT !.kind = "lock", !.key = k,
                          !.token = tokens + 1, !.expiry = now + ttl]]
          /\ pc' = [pc EXCEPT ![c] = "get"]
          /\ UNCHANGED <<now, registry, lease, obj, late, failures>>
    BY DEF BeginLock, Goto
  <1>2. tokens + 1 \in Nat /\ now + ttl \in Nat
    BY ShapeAssumption DEF IInv, LeasesOK
  <1>3. LeasesOK'
    BY <1>1, <1>2, MutexType DEF IInv, LeasesOK
  <1> DEFINE x == [NoCall EXCEPT !.kind = "lock", !.key = k, !.token = tokens + 1,
                                 !.expiry = now + ttl]
  <1>4. CallOK("get", x)
    BY <1>2, FenceCall DEF Fences
  <1>5. call' = [call EXCEPT ![c] = x]
    BY <1>1
  <1> HIDE DEF x
  <1> QED
    BY <1>1, <1>3, <1>4, <1>5, ClientStep, Unmoved DEF Labels

LEMMA BeginRenewStep == ASSUME IInv, NEW c \in Clients, BeginRenew(c) PROVE IInv'
  <1>1. PICK ttl \in TTLs :
          /\ lease[c].key \in Keys /\ TakeMutex(c)
          /\ call' = [call EXCEPT ![c] = [NoCall EXCEPT !.kind = "renew", !.key = lease[c].key,
                          !.token = lease[c].token, !.expiry = now + ttl]]
          /\ pc' = [pc EXCEPT ![c] = "get"]
          /\ UNCHANGED <<now, tokens, registry, lease, obj, late, failures>>
    BY DEF BeginRenew, Goto, OwnsEntry
  <1>2. lease[c].token \in Nat /\ now + ttl \in Nat
    BY ShapeAssumption DEF IInv, LeasesOK, Lease
  <1>3. LeasesOK'
    BY <1>1, MutexType DEF IInv, LeasesOK
  <1> DEFINE x == [NoCall EXCEPT !.kind = "renew", !.key = lease[c].key,
                                 !.token = lease[c].token, !.expiry = now + ttl]
  <1>4. CallOK("get", x)
    BY <1>1, <1>2, FenceCall DEF Fences
  <1>5. call' = [call EXCEPT ![c] = x]
    BY <1>1
  <1> HIDE DEF x
  <1> QED
    BY <1>1, <1>3, <1>4, <1>5, ClientStep, Unmoved DEF Labels

\* lock() raises the owner fence, renew() leaves both as they are.
LEMMA PrepareFenceStep == ASSUME IInv, NEW c \in Clients, PrepareFence(c) PROVE IInv'
  <1>1. /\ pc[c] = "get" /\ call[c].key \in Keys /\ call[c].kind \in Fences
        /\ call[c].attempts \in Nat /\ call[c].attempts < MaxAttempts
        /\ call[c].token \in Nat /\ call[c].expiry \in Nat
    BY DEF IInv, PrepareFence, In, CallOK, Call
  <1>2. /\ Seen(c) \in Object /\ Seen(c).fence \in Fence
        /\ Seen(c).fence.owner \in Nat /\ Seen(c).fence.accepted \in Nat
    BY <1>1, SeenType
  <1> DEFINE object == [Seen(c) EXCEPT !.fence = NewFence(c)]
  <1>3. /\ NewFence(c) \in Fence /\ NewFence(c).owner >= Seen(c).fence.owner
        /\ NewFence(c).accepted = Seen(c).fence.accepted
    <2> DEFINE f == Seen(c).fence
    <2>1. f \in Fence /\ f.owner \in Nat /\ call[c].token \in Nat /\ call[c].expiry \in Nat
      BY <1>1, <1>2
    <2>2. NewFence(c) = IF call[c].kind = "lock" THEN Advanced(f, call[c].token, call[c].expiry)
                                                 ELSE Renewed(f, call[c].expiry)
      BY DEF NewFence
    <2> HIDE DEF f
    <2>3. /\ Advanced(f, call[c].token, call[c].expiry) \in Fence
          /\ Advanced(f, call[c].token, call[c].expiry).owner > f.owner
          /\ Advanced(f, call[c].token, call[c].expiry).accepted = f.accepted
      BY <2>1, AdvancedRises
    <2>4. /\ Renewed(f, call[c].expiry) \in Fence
          /\ Renewed(f, call[c].expiry).owner = f.owner
          /\ Renewed(f, call[c].expiry).accepted = f.accepted
      BY <2>1, RenewedKeeps
    <2>5. Advanced(f, call[c].token, call[c].expiry).owner \in Nat
      BY <2>3 DEF Fence
    <2>6. /\ NewFence(c) \in Fence /\ NewFence(c).owner >= f.owner
          /\ NewFence(c).accepted = f.accepted
      BY <2>1, <2>2, <2>3, <2>4, <2>5
    <2> QED
      BY <2>6 DEF f
  <1>4. object \in Object /\ object.fence = NewFence(c)
    BY <1>2, <1>3 DEF Object
  <1>5. Prepare(c, object, call[c].attempts + 1)
    BY DEF PrepareFence
  <1> HIDE DEF object
  <1>6. UNCHANGED <<now, leases, obj, late, failures>>
    BY DEF PrepareFence
  <1>7. call[c].attempts + 1 \in 0..MaxAttempts
    BY <1>1, ObjectAssumption
  <1> QED
    BY <1>1, <1>2, <1>3, <1>4, <1>5, <1>6, <1>7, PrepareStep

LEMMA FenceReturns ==
    ASSUME IInv, NEW c \in Clients, RenewSuperseded(c) \/ FenceGivesUp(c) PROVE IInv'
  <1>1. /\ Return(c) /\ ReleaseMutex(c)
        /\ UNCHANGED <<now, tokens, registry, lease>> /\ UNCHANGED <<obj, late, failures>>
    BY DEF RenewSuperseded, FenceGivesUp
  <1>2. LeasesOK'
    BY <1>1, MutexType DEF IInv, LeasesOK
  <1> QED
    BY <1>1, <1>2, Returns, Unmoved

-----------------------------------------------------------------------------
(***************************************************************************)
(* The answer to a PUT.                                                    *)
(***************************************************************************)
LEMMA SentPut ==
    ASSUME IInv, NEW c \in Clients, pc[c] = "put"
    PROVE  /\ PutOK(call[c].put) /\ call[c] \in Call /\ call[c].key \in Keys
           /\ call[c].kind \in Writes \cup Fences
  BY DEF IInv, CallOK, Call

LEMMA WriteLandsStep == ASSUME IInv, NEW c \in Clients, WriteLands(c) PROVE IInv'
  <1>1. obj' \in [Keys -> Object]
    BY SentPut, Landing DEF WriteLands, In
  <1>2. LeasesOK' /\ failures' \in Nat /\ \A m \in late' : LateOK(m)
    BY DEF WriteLands, leases, IInv, LeasesOK
  <1> QED
    BY <1>1, <1>2, Returns DEF WriteLands

LEMMA LockLandsStep == ASSUME IInv, NEW c \in Clients, LockLands(c) PROVE IInv'
  <1>1. PutOK(call[c].put) /\ call[c] \in Call /\ call[c].key \in Keys
    BY SentPut DEF LockLands, In
  <1>2. obj' \in [Keys -> Object]
    BY <1>1, Landing DEF LockLands
  <1>3. /\ call[c].token \in Nat /\ call[c].expiry \in Nat
        /\ call[c].put.object.fence.owner \in Nat
    BY <1>1 DEF Call, PutOK, Put, Object, Fence
  <1>4. LeasesOK'
    BY <1>1, <1>3, GrantedType DEF LockLands, IInv
  <1>5. failures' \in Nat /\ \A m \in late' : LateOK(m)
    BY DEF LockLands, IInv
  <1> QED
    BY <1>2, <1>4, <1>5, Returns DEF LockLands

LEMMA RenewLandsStep == ASSUME IInv, NEW c \in Clients, RenewLands(c) PROVE IInv'
  <1>1. PutOK(call[c].put) /\ call[c] \in Call /\ call[c].key \in Keys
    BY SentPut DEF RenewLands, In
  <1>2. obj' \in [Keys -> Object]
    BY <1>1, Landing DEF RenewLands
  <1>3. call[c].token \in Nat /\ call[c].expiry \in Nat /\ LeasesOK
    BY <1>1 DEF Call, IInv
  <1>4. registry' \in [Instances -> [Keys -> Entry]]
    BY <1>1, <1>3, EntryType DEF RenewLands
  <1>5. mutex' \in [Instances -> Clients \cup {None}]
    BY <1>3, MutexType DEF RenewLands
  <1>6. LeasesOK'
    BY <1>3, <1>4, <1>5 DEF RenewLands, LeasesOK
  <1>7. failures' \in Nat /\ \A m \in late' : LateOK(m)
    BY DEF RenewLands, IInv
  <1> QED
    BY <1>2, <1>6, <1>7, Returns DEF RenewLands

\* After a 412 the PUT is dropped.
LEMMA PutRefused ==
    ASSUME IInv, NEW c \in Clients, RefusedRetries(c) \/ UpdateRefused(c) PROVE IInv'
  <1> DEFINE x == [call[c] EXCEPT !.put = NoPut]
             p == IF RefusedRetries(c) THEN "get" ELSE "settle"
  <1>1. /\ CallOK("put", call[c]) /\ call[c] \in Call
        /\ RefusedRetries(c) /\ call[c].kind \in Fences => call[c].attempts < MaxAttempts
    BY DEF IInv, RefusedRetries, UpdateRefused, In, CallOK
  <1>2. call' = [call EXCEPT ![c] = x]
    BY DEF RefusedRetries, UpdateRefused
  <1>3. pc' = [pc EXCEPT ![c] = p]
    BY DEF RefusedRetries, UpdateRefused, Goto
  <1>4. /\ x \in Call /\ x.kind = call[c].kind /\ x.key = call[c].key
        /\ x.body = call[c].body /\ x.attempts = call[c].attempts
    BY <1>1 DEF Call
  <1> HIDE DEF x
  <1>5. CallOK(p, x) /\ p \in Labels
    BY <1>1, <1>4 DEF CallOK, Labels
  <1>6. UNCHANGED <<now, leases, obj, late, failures>>
    BY DEF RefusedRetries, UpdateRefused
  <1> HIDE DEF p
  <1> QED
    BY <1>2, <1>3, <1>5, <1>6, ClientStep, Unmoved, LeasesUnmoved

LEMMA FailsKeepsLate ==
    ASSUME IInv, NEW c \in Clients, pc[c] = "put", NEW phase, Fails(c, phase)
    PROVE  failures' \in Nat /\ \A m \in late' : LateOK(m)
  <1>1. failures' \in Nat
    BY DEF Fails, IInv
  <1>2. ToldAfter(c, phase) \in Told
    BY DEF ToldAfter, Told
  <1>3. ASSUME NEW m \in late' PROVE LateOK(m)
    <2>1. m \in late \/ m = [put |-> call[c].put, kind |-> call[c].kind,
                             told |-> ToldAfter(c, phase)]
      BY DEF Fails
    <2> QED
      BY <1>2, <2>1, SentPut DEF LateOK, IInv
  <1> QED
    BY <1>1, <1>3

LEMMA WriteFailsStep == ASSUME IInv, NEW c \in Clients, WriteFails(c) PROVE IInv'
  <1>1. failures' \in Nat /\ \A m \in late' : LateOK(m)
    BY FailsKeepsLate DEF WriteFails, In
  <1>2. LeasesOK' /\ obj' \in [Keys -> Object]
    BY DEF WriteFails, leases, IInv, LeasesOK
  <1> QED
    BY <1>1, <1>2, Returns DEF WriteFails

LEMMA FenceFailsStep == ASSUME IInv, NEW c \in Clients, FenceFails(c) PROVE IInv'
  <1>1. failures' \in Nat /\ \A m \in late' : LateOK(m)
    BY FailsKeepsLate DEF FenceFails, In
  <1>2. LeasesOK' /\ obj' \in [Keys -> Object]
    BY MutexType DEF FenceFails, IInv, LeasesOK
  <1> QED
    BY <1>1, <1>2, Returns DEF FenceFails

-----------------------------------------------------------------------------
(***************************************************************************)
(* unlock(), the network and the processes.                                *)
(***************************************************************************)
LEMMA UnlockStep == ASSUME IInv, NEW c \in Clients, Unlock(c) PROVE IInv'
  <1>1. LeasesOK'
    BY ReleasedType DEF Unlock, IInv
  <1> QED
    BY <1>1 DEF Unlock, IInv

LEMMA LateLandsStep == ASSUME IInv, LateLands PROVE IInv'
  <1>1. PICK m \in late : Lands(m.put) /\ late' = late \ {m}
    BY DEF LateLands
  <1>2. PutOK(m.put)
    BY DEF IInv, LateOK
  <1>3. obj' \in [Keys -> Object]
    BY <1>1, <1>2, Landing
  <1>4. LeasesOK' /\ UNCHANGED <<pc, call, failures>>
    BY DEF LateLands, leases, IInv, LeasesOK
  <1> QED
    BY <1>1, <1>3, <1>4 DEF IInv

LEMMA CrashStep == ASSUME IInv, NEW i \in Instances, Crash(i) PROVE IInv'
  <1>1. LeasesOK' /\ obj' = obj /\ failures' \in Nat
    BY ForgottenType DEF Crash, IInv
  <1> DEFINE gone == {c \in Clients : Caller(c) = i}
  <1>2. /\ pc' = [c \in Clients |-> IF c \in gone THEN "idle" ELSE pc[c]]
        /\ call' = [c \in Clients |-> IF c \in gone THEN NoCall ELSE call[c]]
    BY DEF Crash
  <1>3. ASSUME NEW m \in late' PROVE LateOK(m)
    <2>1. \/ m \in late
          \/ \E c \in Clients : /\ pc[c] = "put"
                                /\ m = [put |-> call[c].put, kind |-> call[c].kind,
                                        told |-> "crash"]
      BY DEF Crash
    <2>2. CASE m \in late
      BY <2>2 DEF IInv
    <2>3. ASSUME NEW c \in Clients, pc[c] = "put",
                 m = [put |-> call[c].put, kind |-> call[c].kind, told |-> "crash"]
          PROVE  LateOK(m)
      BY <2>3, SentPut DEF LateOK, Told
    <2> QED
      BY <2>1, <2>2, <2>3
  <1> HIDE DEF gone
  <1>4. pc' \in [Clients -> Labels] /\ call' \in [Clients -> Call]
    BY <1>2, EmptyTypes DEF IInv, Labels
  <1>5. \A c \in Clients : CallOK(pc'[c], call'[c])
    BY <1>2, EmptyTypes DEF IInv
  <1> QED
    BY <1>1, <1>3, <1>4, <1>5 DEF IInv

LEMMA TickStep == ASSUME IInv, Tick PROVE IInv'
  BY DEF Tick, leases, IInv, LeasesOK

-----------------------------------------------------------------------------
(***************************************************************************)
(* The theorems.                                                           *)
(***************************************************************************)
LEMMA NextIInv == ASSUME IInv, Next PROVE IInv'
  <1>1. ASSUME NEW c \in Clients, Begin(c) PROVE IInv'
    BY <1>1, BeginCreateStep, BeginUpdateStep, BeginLockStep, BeginRenewStep, UnlockStep DEF Begin
  <1>2. ASSUME NEW c \in Clients, Continue(c) PROVE IInv'
    BY <1>2, FillPhantomStep, AdmitUpdateStep, WriteReturns, LoseFenceStep, SettlePollsStep,
       PrepareFenceStep, FenceReturns, WriteLandsStep, LockLandsStep, RenewLandsStep,
       PutRefused, WriteFailsStep, FenceFailsStep
       DEF Continue
  <1> QED
    BY <1>1, <1>2, LateLandsStep, CrashStep, TickStep DEF Next

LEMMA StutterIInv == ASSUME IInv, UNCHANGED vars PROVE IInv'
  BY DEF vars, leases, IInv, LeasesOK

\* Every PUT on its way, with a client waiting for it or not, carries fences at least
\* as high as those of the envelope its precondition names.
THEOREM InductiveInvariant == Spec => []IInv
  <1>1. IInv /\ [Next]_vars => IInv'
    BY NextIInv, StutterIInv
  <1> QED
    BY InitIInv, <1>1, PTL DEF Spec

\* Every reachable state is well typed; the retries of a call are bounded.
THEOREM TypeCorrect == Spec => []TypeOK
  BY InductiveInvariant, InvTypeOK, PTL

LEMMA LandedPut ==
    ASSUME IInv, Next, obj' # obj
    PROVE  \E put : PutOK(put) /\ Lands(put)
  <1>1. ASSUME NEW c \in Clients, Begin(c) PROVE FALSE
    BY <1>1 DEF Begin, BeginCreate, BeginUpdate, BeginLock, BeginRenew, Unlock
  <1>2. ASSUME NEW c \in Clients, Continue(c) PROVE pc[c] = "put" /\ Lands(call[c].put)
    <2>1. WriteLands(c) \/ LockLands(c) \/ RenewLands(c)
      BY <1>2 DEF Continue, FillPhantom, ResolveCreate, AdmitUpdate, RefuseUpdate, LoseFence,
                  SettleReturns, SettlePolls, PrepareFence, RenewSuperseded, RefusedRetries,
                  UpdateRefused, FenceGivesUp, WriteFails, FenceFails
    <2> QED
      BY <2>1 DEF WriteLands, LockLands, RenewLands, In
  <1>3. ASSUME LateLands PROVE \E m \in late : Lands(m.put)
    BY <1>3 DEF LateLands
  <1> QED
    BY <1>1, <1>2, <1>3, SentPut DEF Next, Crash, Tick, IInv, LateOK

LEMMA FencesKept ==
    ASSUME IInv, Next
    PROVE  \A k \in Keys : /\ obj'[k].fence.owner >= obj[k].fence.owner
                           /\ obj'[k].fence.accepted >= obj[k].fence.accepted
  <1>1. CASE obj' = obj
    BY <1>1 DEF IInv, Object, Fence
  <1>2. CASE obj' # obj
    BY <1>2, LandedPut, Landing
  <1> QED
    BY <1>1, <1>2

\* Whatever is refused, lost or late: no create that fills a phantom in, no lock(),
\* renew() or update takes a fence of the object back.
THEOREM FencesOnlyRise == Spec => FencesNeverRegress
  <1>1. IInv /\ [Next]_vars =>
          [\A k \in Keys : /\ obj'[k].fence.owner >= obj[k].fence.owner
                           /\ obj'[k].fence.accepted >= obj[k].fence.accepted]_vars
    BY FencesKept
  <1> QED
    BY InductiveInvariant, <1>1, PTL DEF Spec, FencesNeverRegress
-----------------------------------------------------------------------------
(***************************************************************************)
(* How long an entry lasts.  The tokens of the fences that are stored or   *)
(* on their way are those of the past, and a lock() in progress has one    *)
(* nobody has seen; a late lock() never enters its token anywhere.  A PUT  *)
(* that keeps the token it found does not shorten its lease, because every *)
(* caller asks for the same ttl_s: a renew() that is late was asked for    *)
(* before the one that made the entry.                                     *)
(***************************************************************************)
\* A fence that is stored, or that a PUT other than c's own brings.
Elsewhere(c, f) ==
    \/ \E k \in Keys : f = obj[k].fence
    \/ \E m \in late : f = m.put.object.fence
    \/ \E d \in Clients : d # c /\ pc[d] = "put" /\ f = call[d].put.object.fence
Somewhere(f) == Elsewhere(None, f)

AfloatOK == \A f : Somewhere(f) => f.token <= tokens /\ Early(f.expiry)

Fencing(c) == pc[c] # "idle" /\ call[c].kind \in Fences

\* The token of a lock() in progress is its own; nothing that has the token of a
\* renew() in progress lasts longer than that renew() asks for.
FenceCallOK(c) ==
    Fencing(c) =>
        /\ call[c].token # 0 /\ call[c].token <= tokens /\ Early(call[c].expiry)
        /\ call[c].kind = "lock" =>
            /\ Unheld(call[c].token)
            /\ \A f : Elsewhere(c, f) => f.token # call[c].token
            /\ \A d \in Clients : d # c /\ Fencing(d) => call[d].token # call[c].token
        /\ call[c].kind = "renew" =>
            /\ lease[c].token = call[c].token
            /\ \A f : Somewhere(f) /\ f.token = call[c].token => f.expiry <= call[c].expiry

\* The fence of a PUT that is no lock()'s has the token it found, for no less time.
Copied(put) ==
    /\ put.object.fence.token = put.match.fence.token
    /\ put.object.fence.expiry >= put.match.fence.expiry

\* A PUT x of a call.
SentOK(x) ==
    /\ x.kind # "lock" => Copied(x.put)
    /\ x.kind \in Fences => /\ x.put.key = x.key
                            /\ x.put.object.fence.token = x.token
                            /\ x.put.object.fence.expiry = x.expiry

PutsOK == \A c \in Clients : pc[c] = "put" => SentOK(call[c])

LatesOK ==
    \A m \in late : /\ m.kind # "lock" => Copied(m.put)
                    /\ m.kind = "lock" => Unheld(m.put.object.fence.token)

DurInv ==
    /\ HeldOK /\ AfloatOK /\ PutsOK /\ LatesOK
    /\ \A c \in Clients : FenceCallOK(c)

\* What the records of a state hold.
LEMMA Records ==
    ASSUME IInv
    PROVE  /\ now \in Nat /\ tokens \in Nat /\ None \notin Clients
           /\ \A c \in Clients : /\ call[c] \in Call /\ call[c].token \in Nat
                                 /\ call[c].expiry \in Nat /\ lease[c].token \in Nat
                                 /\ Caller(c) \in Instances
           /\ \A i \in Instances, k \in Keys : /\ registry[i][k].token \in Nat
                                               /\ registry[i][k].expiry \in Nat
           /\ \A k \in Keys : obj[k].fence.token \in Nat /\ obj[k].fence.expiry \in Nat
           /\ \A c \in Clients : pc[c] = "put" => /\ call[c].put.object.fence.token \in Nat
                                                  /\ call[c].put.object.fence.expiry \in Nat
                                                  /\ call[c].put.match.fence.expiry \in Nat
                                                  /\ call[c].put \in Put
           /\ \A m \in late : /\ m.put.object.fence.token \in Nat
                              /\ m.put.object.fence.expiry \in Nat
                              /\ m.put.match.fence.expiry \in Nat
                              /\ m.put \in Put
  <1>1. now \in Nat /\ tokens \in Nat /\ None \notin Clients
    BY SentinelAssumption DEF IInv, LeasesOK
  <1>2. \A c \in Clients : /\ call[c] \in Call /\ call[c].token \in Nat /\ call[c].expiry \in Nat
                           /\ lease[c].token \in Nat /\ Caller(c) \in Instances
    BY CallerType DEF IInv, LeasesOK, Lease, Call
  <1>3. \A i \in Instances, k \in Keys : /\ registry[i][k].token \in Nat
                                         /\ registry[i][k].expiry \in Nat
    BY DEF IInv, LeasesOK, Entry
  <1>4. \A x \in Object : x.fence.token \in Nat /\ x.fence.expiry \in Nat
    BY DEF Object, Fence
  <1>5. \A x \in Put : x.object \in Object /\ x.match \in Object
    BY DEF Put
  <1>6. \A k \in Keys : obj[k] \in Object
    BY DEF IInv
  <1>7. \A c \in Clients : pc[c] = "put" => call[c].put \in Put
    BY DEF IInv, CallOK, PutOK
  <1>8. \A m \in late : m.put \in Put
    BY DEF IInv, LateOK, PutOK
  <1> QED
    BY <1>1, <1>2, <1>3, <1>4, <1>5, <1>6, <1>7, <1>8

-----------------------------------------------------------------------------
\* A client's PUT lands, is late or is dropped; or it had none.
Sinks(c) ==
    /\ \E p \in Labels \ {"put"} : \E x : pc' = [pc EXCEPT ![c] = p] /\ call' = [call EXCEPT ![c] = x]
    /\ \A k \in Keys : \/ obj'[k].fence = obj[k].fence
                       \/ pc[c] = "put" /\ obj'[k].fence = call[c].put.object.fence
    /\ \A m \in late' : \/ m \in late
                        \/ pc[c] = "put" /\ m.put = call[c].put /\ m.kind = call[c].kind
    /\ now' = now

\* lock() or renew() enters its token; unlock() takes one out.
Enters(c) ==
    /\ tokens' \in Nat /\ tokens' >= tokens
    /\ \A i \in Instances, k \in Keys :
        \/ registry'[i][k] \in {registry[i][k], NoEntry}
        \/ Fencing(c) /\ registry'[i][k].token = call[c].token
    /\ \A d \in Clients : d # c => lease'[d] = lease[d]
    /\ \/ lease'[c].token = lease[c].token
       \/ Fencing(c) /\ call[c].kind = "lock" /\ lease'[c].token = call[c].token
    /\ late' \subseteq late \/ UNCHANGED <<registry, lease>>

LEMMA NothingNew ==
    ASSUME IInv, NEW c \in Clients, Sinks(c)
    PROVE  \A d \in Clients \cup {None} : \A f : d # c /\ Elsewhere(d, f)' => Elsewhere(d, f)
  <1> SUFFICES ASSUME NEW d \in Clients \cup {None}, NEW f, d # c, Elsewhere(d, f)'
               PROVE  Elsewhere(d, f)
    OBVIOUS
  <1>1. \A e \in Clients : pc'[e] = "put" => e # c /\ pc[e] = "put" /\ call'[e] = call[e]
    BY DEF Sinks, IInv
  <1>2. CASE \E k \in Keys : f = obj'[k].fence
    BY <1>2 DEF Sinks, Elsewhere
  <1>3. CASE \E m \in late' : f = m.put.object.fence
    BY <1>3 DEF Sinks, Elsewhere
  <1>4. CASE \E e \in Clients : e # d /\ pc'[e] = "put" /\ f = call'[e].put.object.fence
    BY <1>1, <1>4 DEF Elsewhere
  <1> QED
    BY <1>2, <1>3, <1>4 DEF Elsewhere

\* A token that neither the client nor its call has is held by nobody after it.
LEMMA StaysUnheld ==
    ASSUME IInv, NEW c \in Clients, Enters(c), NEW token, Unheld(token),
           Fencing(c) => token # call[c].token
    PROVE  Unheld(token)'
  <1>1. \A d \in Clients : lease'[d].token # token
    BY DEF Enters, Unheld
  <1>2. \A i \in Instances, k \in Keys : registry'[i][k].token # token
    BY DEF Enters, Unheld, NoEntry
  <1> QED
    BY <1>1, <1>2 DEF Unheld

LEMMA SinkStep ==
    ASSUME IInv, DurInv, NEW c \in Clients, Sinks(c), Enters(c), FenceCallOK(c)'
    PROVE  DurInv'
  <1>0. /\ now' = now /\ tokens' \in Nat /\ tokens' >= tokens /\ tokens \in Nat
        /\ \A t : t \in Nat /\ t <= tokens => t <= tokens'
    BY Records DEF Sinks, Enters
  <1>1. \A d \in Clients : d # c => pc'[d] = pc[d] /\ call'[d] = call[d]
    BY DEF Sinks, IInv
  <1>2. pc'[c] # "put"
    BY DEF Sinks, IInv
  <1>3. FenceCallOK(c) /\ HeldOK /\ AfloatOK /\ PutsOK /\ LatesOK
    BY DEF DurInv
  <1>4. Fencing(c) => call[c].token # 0 /\ call[c].token <= tokens
    BY <1>3 DEF FenceCallOK
  <1>5. HeldOK'
    <2>1. ASSUME NEW i \in Instances, NEW k \in Keys
          PROVE  /\ registry'[i][k].token <= tokens'
                 /\ registry'[i][k].token = 0 => registry'[i][k].expiry = 0
      BY <1>0, <1>3, <1>4, Records DEF Enters, HeldOK, NoEntry
    <2>2. ASSUME NEW d \in Clients PROVE lease'[d].token <= tokens'
      BY <1>0, <1>3, <1>4, Records DEF Enters, HeldOK
    <2>3. ASSUME NEW a \in Clients, NEW b \in Clients, a # b, lease'[a].token # 0
          PROVE  lease'[a].token # lease'[b].token
      <3>1. Fencing(c) /\ call[c].kind = "lock" => \A d \in Clients : lease[d].token # call[c].token
        BY <1>3 DEF FenceCallOK, Unheld
      <3> QED
        BY <1>3, <2>3, <3>1 DEF Enters, HeldOK
    <2> QED
      BY <2>1, <2>2, <2>3 DEF HeldOK
  <1>6. AfloatOK'
    <2> SUFFICES ASSUME NEW f, Somewhere(f)' PROVE f.token <= tokens' /\ Early(f.expiry)'
      BY DEF AfloatOK
    <2>1. Somewhere(f)
      BY NothingNew, Records DEF Somewhere
    <2>2. f.token \in Nat
      BY <2>1, Records DEF Somewhere, Elsewhere
    <2> QED
      BY <1>0, <1>3, <2>1, <2>2 DEF AfloatOK, Early
  <1>7. ASSUME NEW d \in Clients PROVE FenceCallOK(d)'
    <2>1. CASE d = c
      BY <2>1
    <2>2. CASE d # c
      <3> SUFFICES ASSUME Fencing(d)' PROVE FenceCallOK(d)'
        BY DEF FenceCallOK
      <3>1. Fencing(d) /\ call'[d] = call[d] /\ FenceCallOK(d)
        BY <1>1, <2>2 DEF Fencing, DurInv
      <3>2. call[d].token # 0 /\ call[d].token <= tokens' /\ Early(call[d].expiry)'
        BY <1>0, <3>1, Records DEF FenceCallOK, Early
      <3>3. CASE call[d].kind = "lock"
        <4>1. Unheld(call[d].token)'
          <5>1. Unheld(call[d].token) /\ (Fencing(c) => call[d].token # call[c].token)
            BY <2>2, <3>1, <3>3 DEF FenceCallOK
          <5> DEFINE t == call[d].token
          <5>2. PICK u : u = t
            OBVIOUS
          <5>3. Unheld(u)'
            BY <5>1, <5>2, StaysUnheld
          <5> QED
            BY <3>1, <5>2, <5>3 DEF Unheld
        <4>2. \A f : Elsewhere(d, f)' => f.token # call[d].token
          BY <2>2, <3>1, <3>3, NothingNew DEF FenceCallOK
        <4>3. ASSUME NEW e \in Clients, e # d, Fencing(e)' PROVE call'[e].token # call[d].token
          <5>1. CASE e = c
            <6>1. CASE call'[c].kind = "lock"
              BY <2>2, <3>1, <4>3, <5>1, <6>1 DEF FenceCallOK, Fencing
            <6>2. CASE call'[c].kind = "renew"
              <7>1. lease'[c].token = call'[c].token
                BY <4>3, <5>1, <6>2 DEF FenceCallOK
              <7> QED
                BY <3>1, <4>1, <5>1, <7>1 DEF Unheld
            <6> QED
              BY <4>3, <5>1, <6>1, <6>2 DEF Fencing, Fences
          <5>2. CASE e # c
            BY <1>1, <3>1, <3>3, <4>3, <5>2 DEF FenceCallOK, Fencing
          <5> QED
            BY <5>1, <5>2
        <4> QED
          BY <3>1, <3>2, <3>3, <4>1, <4>2, <4>3 DEF FenceCallOK
      <3>4. CASE call[d].kind = "renew"
        <4>1. lease'[d].token = call[d].token
          BY <2>2, <3>1, <3>4 DEF FenceCallOK, Enters
        <4>2. \A f : Somewhere(f)' /\ f.token = call[d].token => f.expiry <= call[d].expiry
          BY <3>1, <3>4, NothingNew, Records DEF FenceCallOK, Somewhere
        <4> QED
          BY <3>1, <3>2, <3>4, <4>1, <4>2 DEF FenceCallOK
      <3> QED
        BY <3>1, <3>3, <3>4 DEF Fencing, Fences
    <2> QED
      BY <2>1, <2>2
  <1>8. PutsOK'
    BY <1>1, <1>2, <1>3 DEF PutsOK, SentOK, Copied
  <1>9. LatesOK'
    <2> SUFFICES ASSUME NEW m \in late'
                 PROVE  /\ m.kind # "lock" => Copied(m.put)
                        /\ m.kind = "lock" => Unheld(m.put.object.fence.token)'
      BY DEF LatesOK
    <2>1. CASE m \in late
      <3>1. m.kind = "lock" => Unheld(m.put.object.fence.token)
        BY <1>3, <2>1 DEF LatesOK
      <3>2. m.kind = "lock" /\ Fencing(c) => m.put.object.fence.token # call[c].token
        <4>1. Elsewhere(c, m.put.object.fence)
          BY <2>1 DEF Elsewhere
        <4>2. CASE call[c].kind = "lock"
          BY <1>3, <4>1, <4>2 DEF FenceCallOK
        <4>3. CASE call[c].kind = "renew"
          BY <1>3, <3>1, <4>3 DEF FenceCallOK, Unheld
        <4> QED
          BY <4>2, <4>3 DEF Fencing, Fences
      <3> QED
        BY <1>3, <2>1, <3>1, <3>2, StaysUnheld DEF LatesOK
    <2>2. CASE m \notin late
      <3>1. pc[c] = "put" /\ m.put = call[c].put /\ m.kind = call[c].kind /\ UNCHANGED <<registry, lease>>
        BY <2>2 DEF Sinks, Enters
      <3>2. SentOK(call[c])
        BY <1>3, <3>1 DEF PutsOK
      <3>3. m.kind = "lock" => Unheld(m.put.object.fence.token)
        BY <1>3, <3>1, <3>2 DEF SentOK, FenceCallOK, Fencing, Fences
      <3> QED
        BY <3>1, <3>2, <3>3 DEF SentOK, Unheld
    <2> QED
      BY <2>1, <2>2
  <1> QED
    BY <1>5, <1>6, <1>7, <1>8, <1>9 DEF DurInv

\* A fence that c may send: not from the future, and no surprise to the others.
Fits(c, g) ==
    /\ g.token <= tokens /\ Early(g.expiry)
    /\ \A d \in Clients :
        d # c /\ Fencing(d) =>
          /\ call[d].kind = "lock" => g.token # call[d].token
          /\ call[d].kind = "renew" => (g.token = call[d].token => g.expiry <= call[d].expiry)

\* A client sends a PUT.
LEMMA RiseStep ==
    ASSUME IInv, DurInv, NEW c \in Clients, NEW x, UNCHANGED <<now, leases, obj, late>>,
           pc' = [pc EXCEPT ![c] = "put"], call' = [call EXCEPT ![c] = x],
           x.kind \in Writes \cup Fences, SentOK(x),
           x.kind \in Fences => /\ Fencing(c) /\ x.kind = call[c].kind
                                /\ x.token = call[c].token /\ x.expiry = call[c].expiry,
           Fits(c, x.put.object.fence)
    PROVE  DurInv'
  <1> DEFINE g == x.put.object.fence
  <1>f. /\ g.token <= tokens /\ Early(g.expiry)
        /\ \A d \in Clients :
            d # c /\ Fencing(d) =>
              /\ call[d].kind = "lock" => g.token # call[d].token
              /\ call[d].kind = "renew" => (g.token = call[d].token => g.expiry <= call[d].expiry)
    BY DEF Fits
  <1>0. /\ UNCHANGED <<now, tokens, registry, mutex, lease, obj, late>>
        /\ \A d \in Clients : d # c => pc'[d] = pc[d] /\ call'[d] = call[d]
        /\ pc'[c] = "put" /\ call'[c] = x
        /\ None \notin Clients
    BY Records DEF leases, IInv
  <1>1. HeldOK /\ AfloatOK /\ PutsOK /\ LatesOK /\ \A d \in Clients : FenceCallOK(d)
    BY DEF DurInv
  <1>2. HeldOK' /\ LatesOK'
    BY <1>0, <1>1 DEF HeldOK, LatesOK, Unheld, Copied
  <1>3. \A d \in Clients \cup {None} : \A f : Elsewhere(d, f)' => Elsewhere(d, f) \/ (d # c /\ f = g)
    BY <1>0 DEF Elsewhere
  <1>x. x.kind \in Fences => g.token = x.token /\ g.expiry = x.expiry
    BY DEF SentOK
  <1> HIDE DEF g
  <1>4. AfloatOK'
    <2> SUFFICES ASSUME NEW f, Somewhere(f)' PROVE f.token <= tokens' /\ Early(f.expiry)'
      BY DEF AfloatOK
    <2>1. Somewhere(f) \/ f = g
      BY <1>3 DEF Somewhere
    <2> QED
      BY <1>0, <1>1, <1>f, <2>1 DEF AfloatOK, Early
  <1>5. PutsOK'
    BY <1>0, <1>1 DEF PutsOK, SentOK, Copied
  <1>6. ASSUME NEW d \in Clients, Fencing(d)'
        PROVE  Fencing(d) /\ call'[d].kind = call[d].kind /\ call'[d].token = call[d].token
               /\ call'[d].expiry = call[d].expiry
    BY <1>0, <1>6 DEF Fencing
  <1>7. ASSUME NEW d \in Clients PROVE FenceCallOK(d)'
    <2> SUFFICES ASSUME Fencing(d)' PROVE FenceCallOK(d)'
      BY DEF FenceCallOK
    <2>1. Fencing(d) /\ call'[d].kind = call[d].kind /\ call'[d].token = call[d].token
          /\ call'[d].expiry = call[d].expiry /\ FenceCallOK(d)
      BY <1>1, <1>6
    <2>2. call'[d].token # 0 /\ call'[d].token <= tokens' /\ Early(call[d].expiry)'
      BY <1>0, <2>1 DEF FenceCallOK, Early
    <2>3. ASSUME call'[d].kind = "lock"
          PROVE  /\ Unheld(call[d].token)'
                 /\ \A f : Elsewhere(d, f)' => f.token # call'[d].token
                 /\ \A e \in Clients : e # d /\ Fencing(e)' => call'[e].token # call'[d].token
      <3>1. Unheld(call[d].token)'
        BY <1>0, <2>1, <2>3 DEF FenceCallOK, Unheld
      <3>2. \A f : Elsewhere(d, f)' => f.token # call'[d].token
        BY <1>3, <1>f, <2>1, <2>3 DEF FenceCallOK
      <3>3. \A e \in Clients : e # d /\ Fencing(e)' => call'[e].token # call'[d].token
        BY <1>6, <2>1, <2>3 DEF FenceCallOK
      <3> QED
        BY <3>1, <3>2, <3>3
    <2>4. ASSUME call'[d].kind = "renew"
          PROVE  /\ lease'[d].token = call'[d].token
                 /\ \A f : Somewhere(f)' /\ f.token = call'[d].token => f.expiry <= call'[d].expiry
      <3>1. lease'[d].token = call'[d].token
        BY <1>0, <2>1, <2>4 DEF FenceCallOK
      <3>2. ASSUME NEW f, Somewhere(f)', f.token = call'[d].token
            PROVE  f.expiry <= call'[d].expiry
        <4>1. Somewhere(f) \/ f = g
          BY <1>3, <3>2 DEF Somewhere
        <4>2. CASE d = c
          <5>1. x.kind \in Fences /\ g.expiry = x.expiry /\ x.expiry = call[d].expiry
            BY <1>0, <1>x, <2>1, <2>4, <4>2 DEF Fences
          <5>2. call[d].expiry \in Nat
            BY Records
          <5> QED
            BY <2>1, <2>4, <3>2, <4>1, <5>1, <5>2 DEF FenceCallOK
        <4>3. CASE d # c
          BY <1>f, <2>1, <2>4, <3>2, <4>1, <4>3 DEF FenceCallOK
        <4> QED
          BY <4>2, <4>3
      <3> QED
        BY <3>1, <3>2
    <2>5. FenceCallOK(d)'
      BY <2>2, <2>3, <2>4 DEF FenceCallOK
    <2> QED
      BY <2>5
  <1> QED
    BY <1>2, <1>4, <1>5, <1>7 DEF DurInv

\* A step between two PUTs: the client goes on, with the same call or without one.
LEMMA QuietStep ==
    ASSUME IInv, DurInv, NEW c \in Clients, NEW p \in Labels \ {"put"}, NEW x,
           UNCHANGED <<now, tokens, registry, lease, obj>>, late' = late,
           pc' = [pc EXCEPT ![c] = p], call' = [call EXCEPT ![c] = x],
           \/ p = "idle" \/ x.kind \notin Fences
           \/ /\ pc[c] # "idle" /\ x.kind = call[c].kind
              /\ x.token = call[c].token /\ x.expiry = call[c].expiry
    PROVE  DurInv'
  <1>1. Sinks(c)
    BY DEF Sinks
  <1>2. Enters(c)
    BY Records DEF Enters
  <1>3. FenceCallOK(c)'
    <2>1. pc'[c] = p /\ call'[c] = x /\ FenceCallOK(c) /\ None \notin Clients
      BY Records DEF IInv, DurInv
    <2>2. CASE p = "idle" \/ x.kind \notin Fences
      BY <2>1, <2>2 DEF FenceCallOK, Fencing
    <2>3. CASE /\ Fencing(c) /\ x.kind = call[c].kind
               /\ x.token = call[c].token /\ x.expiry = call[c].expiry
      <3>1. \A f : Somewhere(f)' => Somewhere(f)
        BY <1>1, <2>1, NothingNew DEF Somewhere
      <3>2. \A d \in Clients : d # c => pc'[d] = pc[d] /\ call'[d] = call[d]
        BY DEF IInv
      <3>3. \A f : Elsewhere(c, f)' => Elsewhere(c, f)
        BY <3>2 DEF Elsewhere
      <3>4. /\ x.token # 0 /\ x.token <= tokens' /\ Early(x.expiry)'
        BY <2>1, <2>3 DEF FenceCallOK, Early
      <3>5. x.kind = "lock" => /\ Unheld(x.token)'
                               /\ \A f : Elsewhere(c, f)' => f.token # x.token
                               /\ \A d \in Clients : d # c /\ Fencing(d)' => call'[d].token # x.token
        <4>1. x.kind = "lock" => Unheld(x.token)'
          BY <2>1, <2>3 DEF FenceCallOK, Unheld
        <4>2. x.kind = "lock" => \A f : Elsewhere(c, f)' => f.token # x.token
          BY <2>1, <2>3, <3>3 DEF FenceCallOK
        <4>3. x.kind = "lock" => \A d \in Clients : d # c /\ Fencing(d)' => call'[d].token # x.token
          BY <2>1, <2>3, <3>2 DEF FenceCallOK, Fencing
        <4> QED
          BY <4>1, <4>2, <4>3
      <3>6. x.kind = "renew" => /\ lease'[c].token = x.token
                                /\ \A f : Somewhere(f)' /\ f.token = x.token => f.expiry <= x.expiry
        BY <2>1, <2>3, <3>1 DEF FenceCallOK
      <3> QED
        BY <2>1, <3>4, <3>5, <3>6 DEF FenceCallOK
    <2> QED
      BY <2>2, <2>3 DEF Fencing
  <1> QED
    BY <1>1, <1>2, <1>3, SinkStep

\* The client returns; its PUT has landed or is late.
LEMMA ReturnStep ==
    ASSUME IInv, DurInv, NEW c \in Clients, Return(c), now' = now, Enters(c),
           \A k \in Keys : \/ obj'[k].fence = obj[k].fence
                           \/ pc[c] = "put" /\ obj'[k].fence = call[c].put.object.fence,
           \A m \in late' : \/ m \in late
                            \/ pc[c] = "put" /\ m.put = call[c].put /\ m.kind = call[c].kind
    PROVE  DurInv'
  <1>1. pc' = [pc EXCEPT ![c] = "idle"] /\ call' = [call EXCEPT ![c] = NoCall] /\ pc'[c] = "idle"
    BY DEF Return, Goto, IInv
  <1>2. Sinks(c) /\ FenceCallOK(c)'
    BY <1>1 DEF Sinks, Labels, FenceCallOK, Fencing
  <1> QED
    BY <1>2, SinkStep

-----------------------------------------------------------------------------
\* The steps of write().
LEMMA BeginCreateDur == ASSUME IInv, DurInv, NEW c \in Clients, BeginCreate(c) PROVE DurInv'
  <1>1. PICK k \in Keys, b \in Bodies :
          call' = [call EXCEPT ![c] = [NoCall EXCEPT !.kind = "create", !.key = k, !.body = b,
                       !.put = [key |-> k, match |-> NoObject,
                                object |-> [body |-> b, fence |-> NoFence]]]]
    BY DEF BeginCreate
  <1> DEFINE put == [key |-> k, match |-> NoObject, object |-> [body |-> b, fence |-> NoFence]]
             x == [NoCall EXCEPT !.kind = "create", !.key = k, !.body = b, !.put = put]
  <1>2. /\ put.object.fence = NoFence /\ put.match.fence = NoFence
        /\ NoFence.token = 0 /\ NoFence.expiry = 0
    BY DEF NoObject, NoFence
  <1>3. call' = [call EXCEPT ![c] = x] /\ pc' = [pc EXCEPT ![c] = "put"]
    BY <1>1 DEF BeginCreate, Goto
  <1> HIDE DEF put
  <1>4. x.kind = "create" /\ x.put = put
    BY DEF NoCall
  <1> HIDE DEF x
  <1>5. SentOK(x) /\ x.kind \in Writes \cup Fences /\ x.kind \notin Fences
    BY <1>2, <1>4 DEF SentOK, Copied, Writes, Fences
  <1>6. UNCHANGED <<now, leases, obj, late>>
    BY DEF BeginCreate
  <1>7. NoFence.token <= tokens /\ Early(NoFence.expiry)
    BY <1>2, Records, ShapeAssumption DEF Early
  <1>8. \A d \in Clients : Fencing(d) => call[d].token # NoFence.token
    BY <1>2 DEF DurInv, FenceCallOK
  <1>9. Fits(c, x.put.object.fence)
    BY <1>2, <1>4, <1>7, <1>8 DEF Fits
  <1> QED
    BY <1>3, <1>5, <1>6, <1>9, RiseStep

LEMMA BeginUpdateDur == ASSUME IInv, DurInv, NEW c \in Clients, BeginUpdate(c) PROVE DurInv'
  <1>1. PICK b, e \in Bodies :
          /\ call' = [call EXCEPT ![c] = [NoCall EXCEPT !.kind = "update", !.key = lease[c].key,
                                                        !.body = b, !.expected = e]]
          /\ pc' = [pc EXCEPT ![c] = "get"]
          /\ UNCHANGED <<now, leases, obj, late>>
    BY DEF BeginUpdate, Goto
  <1> DEFINE x == [NoCall EXCEPT !.kind = "update", !.key = lease[c].key, !.body = b, !.expected = e]
  <1>2. x.kind \notin Fences
    BY DEF NoCall, Fences
  <1>3. call' = [call EXCEPT ![c] = x] /\ "get" \in Labels \ {"put"}
    BY <1>1 DEF Labels
  <1> HIDE DEF x
  <1>4. UNCHANGED <<now, tokens, registry, lease, obj>> /\ late' = late
    BY <1>1 DEF leases
  <1> QED
    BY <1>1, <1>2, <1>3, <1>4, QuietStep

\* Steps that read or give up.
LEMMA ReadsDur ==
    ASSUME IInv, DurInv, NEW c \in Clients,
           \/ ResolveCreate(c) \/ RefuseUpdate(c) \/ SettleReturns(c) \/ RenewSuperseded(c)
           \/ FenceGivesUp(c) \/ LoseFence(c) \/ SettlePolls(c) \/ RefusedRetries(c)
           \/ UpdateRefused(c)
    PROVE  DurInv'
  <1>0. call[c] \in Call
    BY DEF IInv
  <1>1. UNCHANGED <<now, tokens, registry, lease, obj>> /\ late' = late
    BY DEF leases, ResolveCreate, RefuseUpdate, SettleReturns, RenewSuperseded, FenceGivesUp,
           LoseFence, SettlePolls, RefusedRetries, UpdateRefused
  <1>2. CASE Return(c)
    <2>1. pc' = [pc EXCEPT ![c] = "idle"] /\ call' = [call EXCEPT ![c] = NoCall]
          /\ "idle" \in Labels \ {"put"}
      BY <1>2 DEF Return, Goto, Labels
    <2> QED
      BY <1>1, <2>1, QuietStep
  <1>3. CASE LoseFence(c) \/ SettlePolls(c)
    <2>1. /\ pc' = [pc EXCEPT ![c] = "settle"] /\ "settle" \in Labels \ {"put"}
          /\ call' = [call EXCEPT ![c] = call'[c]]
          /\ call'[c].kind \notin Fences
      BY <1>0, <1>3 DEF LoseFence, SettlePolls, In, Goto, Labels, Fences, IInv, Call
    <2> QED
      BY <1>1, <2>1, QuietStep
  <1>4. CASE RefusedRetries(c) \/ UpdateRefused(c)
    <2> DEFINE x == [call[c] EXCEPT !.put = NoPut]
    <2>1. call' = [call EXCEPT ![c] = x] /\ pc[c] = "put"
      BY <1>4 DEF RefusedRetries, UpdateRefused, In
    <2>2. x.kind = call[c].kind /\ x.token = call[c].token /\ x.expiry = call[c].expiry
      BY <1>0 DEF Call
    <2> HIDE DEF x
    <2>3. PICK p \in Labels \ {"put"} : pc' = [pc EXCEPT ![c] = p]
      BY <1>4 DEF RefusedRetries, UpdateRefused, Goto, Labels
    <2> QED
      BY <1>1, <2>1, <2>2, <2>3, QuietStep
  <1> QED
    BY <1>2, <1>3, <1>4
       DEF ResolveCreate, RefuseUpdate, SettleReturns, RenewSuperseded, FenceGivesUp

\* A PUT is prepared on the object just read: it takes over the token and the time
\* it found, or those of its call.
LEMMA PrepareDur ==
    ASSUME IInv, DurInv, NEW c \in Clients, NEW object, NEW attempts, Prepare(c, object, attempts),
           UNCHANGED <<now, leases, obj, late>>, pc[c] = "get",
           object.fence.token \in Nat, object.fence.expiry \in Nat,
           \/ /\ call[c].kind \in Writes
              /\ object.fence.token = Seen(c).fence.token
              /\ object.fence.expiry = Seen(c).fence.expiry
           \/ /\ call[c].kind \in Fences
              /\ object.fence.token = call[c].token
              /\ object.fence.expiry = call[c].expiry
              /\ call[c].kind = "renew" => Seen(c).fence.token = call[c].token
    PROVE  DurInv'
  <1> DEFINE put == [key |-> call[c].key, match |-> Seen(c), object |-> object]
             x == [call[c] EXCEPT !.put = put, !.attempts = attempts]
             g == object.fence
             s == Seen(c).fence
  <1>0. /\ call[c] \in Call /\ call[c].key \in Keys /\ put.match.fence = s /\ put.object.fence = g
        /\ put.key = call[c].key
        /\ s.token \in Nat /\ s.expiry \in Nat
        /\ Writes \cap Fences = {}
    BY Records DEF IInv, CallOK, Seen, Writes, Fences
  <1>1. call' = [call EXCEPT ![c] = x] /\ pc' = [pc EXCEPT ![c] = "put"]
    BY DEF Prepare, Goto
  <1> HIDE DEF put
  <1>2. /\ x.put = put /\ x.kind = call[c].kind /\ x.key = call[c].key
        /\ x.token = call[c].token /\ x.expiry = call[c].expiry
    <2> DEFINE y == [call[c] EXCEPT !.put = put]
    <2>1. /\ y.put = put /\ y.kind = call[c].kind /\ y.key = call[c].key
          /\ y.token = call[c].token /\ y.expiry = call[c].expiry /\ DOMAIN y = DOMAIN call[c]
      BY <1>0 DEF Call
    <2>2. x = [y EXCEPT !.attempts = attempts]
      OBVIOUS
    <2>3. DOMAIN call[c] = DOMAIN NoCall
      BY <1>0 DEF Call, NoCall
    <2> HIDE DEF y, x
    <2> QED
      BY <2>1, <2>2, <2>3 DEF NoCall
  <1> HIDE DEF x
  <1>3. Elsewhere(c, s) /\ Somewhere(s) /\ \A d \in Clients : Elsewhere(d, s)
    BY <1>0 DEF Seen, Elsewhere, Somewhere
  <1>4. s.token <= tokens /\ Early(s.expiry) /\ \A d \in Clients : FenceCallOK(d)
    BY <1>3 DEF DurInv, AfloatOK
  <1>5. CASE call[c].kind \in Writes
    <2>1. g.token = s.token /\ g.expiry = s.expiry
      BY <1>0, <1>5
    <2>2. SentOK(x)
      BY <1>0, <1>2, <1>5, <2>1 DEF SentOK, Copied
    <2>3. \A d \in Clients : d # c /\ Fencing(d) =>
                /\ call[d].kind = "lock" => g.token # call[d].token
                /\ call[d].kind = "renew" => (g.token = call[d].token => g.expiry <= call[d].expiry)
      BY <1>3, <1>4, <2>1 DEF FenceCallOK
    <2>4. g.token <= tokens /\ Early(g.expiry)
      BY <1>4, <2>1
    <2>5. x.kind \in Writes \cup Fences /\ x.kind \notin Fences
      BY <1>0, <1>2, <1>5
    <2>6. Fits(c, x.put.object.fence)
      BY <1>0, <1>2, <2>3, <2>4 DEF Fits
    <2> QED
      BY <1>1, <2>2, <2>5, <2>6, RiseStep
  <1>6. CASE call[c].kind \in Fences
    <2>1. /\ g.token = call[c].token /\ g.expiry = call[c].expiry /\ Fencing(c) /\ FenceCallOK(c)
          /\ call[c].kind = "renew" => s.token = call[c].token
      BY <1>0, <1>4, <1>6 DEF Fencing
    <2>2. g.token # 0 /\ g.token <= tokens /\ Early(g.expiry)
      BY <2>1 DEF FenceCallOK
    <2>3. SentOK(x)
      <3>1. call[c].kind = "renew" => s.expiry <= g.expiry
        BY <1>3, <2>1 DEF FenceCallOK
      <3>2. call[c].kind # "lock" => Copied(put)
        BY <1>0, <1>6, <2>1, <3>1 DEF Copied, Fences
      <3> QED
        BY <1>0, <1>2, <2>1, <3>2 DEF SentOK
    <2>4. ASSUME NEW d \in Clients, d # c, Fencing(d) PROVE g.token # call[d].token
      <3>1. CASE call[d].kind = "lock"
        BY <1>4, <2>1, <2>4, <3>1 DEF FenceCallOK
      <3>2. CASE call[c].kind = "lock"
        BY <2>1, <2>4, <3>2 DEF FenceCallOK
      <3>3. CASE call[d].kind = "renew" /\ call[c].kind = "renew"
        <4>1. lease[d].token = call[d].token /\ lease[c].token = call[c].token
          BY <1>4, <2>1, <2>4, <3>3 DEF FenceCallOK
        <4> QED
          BY <2>1, <2>2, <2>4, <4>1 DEF DurInv, HeldOK
      <3> QED
        BY <1>6, <2>4, <3>1, <3>2, <3>3 DEF Fencing, Fences
    <2>5. x.kind \in Writes \cup Fences
      BY <1>0, <1>2, <1>6
    <2>6. Fits(c, x.put.object.fence)
      BY <1>0, <1>2, <2>2, <2>4 DEF Fits
    <2> QED
      BY <1>1, <1>2, <2>1, <2>3, <2>5, <2>6, RiseStep
  <1> QED
    BY <1>5, <1>6

LEMMA PreparesDur ==
    ASSUME IInv, DurInv, NEW c \in Clients, FillPhantom(c) \/ AdmitUpdate(c) \/ PrepareFence(c)
    PROVE  DurInv'
  <1>0. /\ pc[c] = "get" /\ call[c] \in Call /\ call[c].key \in Keys
        /\ UNCHANGED <<now, leases, obj, late>>
    BY DEF FillPhantom, AdmitUpdate, PrepareFence, In, IInv, CallOK
  <1>1. Seen(c) \in Object /\ Seen(c).fence \in Fence
    BY <1>0, SeenType
  <1>2. Seen(c).fence.token \in Nat /\ Seen(c).fence.expiry \in Nat
    BY <1>1 DEF Fence
  <1>3. CASE FillPhantom(c)
    <2> DEFINE object == [Seen(c) EXCEPT !.body = call[c].body]
    <2>1. object.fence = Seen(c).fence /\ call[c].kind \in Writes
      BY <1>1, <1>3 DEF Object, FillPhantom, In, Writes
    <2>2. Prepare(c, object, call[c].attempts + 1)
      BY <1>3 DEF FillPhantom
    <2> HIDE DEF object
    <2> QED
      BY <1>0, <1>2, <2>1, <2>2, PrepareDur
  <1>4. CASE AdmitUpdate(c)
    <2> DEFINE fence == [Seen(c).fence EXCEPT !.accepted = lease[c].fence]
               object == [body |-> call[c].body, fence |-> fence]
    <2>1. fence.token = Seen(c).fence.token /\ fence.expiry = Seen(c).fence.expiry
      BY <1>1 DEF Fence
    <2>2. Prepare(c, object, 0) /\ call[c].kind \in Writes
      BY <1>4 DEF AdmitUpdate, In, Writes
    <2> HIDE DEF fence
    <2>3. object.fence = fence
      OBVIOUS
    <2> HIDE DEF object
    <2> QED
      BY <1>0, <1>2, <2>1, <2>2, <2>3, PrepareDur
  <1>5. CASE PrepareFence(c)
    <2> DEFINE object == [Seen(c) EXCEPT !.fence = NewFence(c)]
    <2>1. /\ Prepare(c, object, call[c].attempts + 1) /\ call[c].kind \in Fences
          /\ call[c].kind = "renew" => Seen(c).fence.token = call[c].token
      BY <1>5 DEF PrepareFence, In
    <2>2. object.fence = NewFence(c)
      BY <1>1 DEF Object
    <2>3. NewFence(c).token = call[c].token /\ NewFence(c).expiry = call[c].expiry
      <3>1. CASE call[c].kind = "lock"
        <4> DEFINE f == Seen(c).fence
        <4>1. f \in Fence /\ NewFence(c) = Advanced(f, call[c].token, call[c].expiry)
          BY <1>1, <3>1 DEF NewFence
        <4> HIDE DEF f
        <4>2. /\ Advanced(f, call[c].token, call[c].expiry).token = call[c].token
              /\ Advanced(f, call[c].token, call[c].expiry).expiry = call[c].expiry
          BY <1>0, <4>1, AdvancedOwner DEF Call
        <4> QED
          BY <4>1, <4>2
      <3>2. CASE call[c].kind = "renew"
        BY <1>1, <2>1, <3>2 DEF NewFence, Renewed, Fence
      <3> QED
        BY <2>1, <3>1, <3>2 DEF Fences
    <2>4. call[c].token \in Nat /\ call[c].expiry \in Nat
      BY <1>0 DEF Call
    <2> HIDE DEF object
    <2> QED
      BY <1>0, <2>1, <2>2, <2>3, <2>4, PrepareDur
  <1> QED
    BY <1>3, <1>4, <1>5

-----------------------------------------------------------------------------
\* lock() and renew() begin: the token is new, or that of the client's lease.
LEMMA BeginLockDur ==
    ASSUME OneTTL, IInv, DurInv, NEW c \in Clients, BeginLock(c) PROVE DurInv'
  <1>1. PICK k \in Keys, ttl \in TTLs :
          /\ tokens' = tokens + 1
          /\ call' = [call EXCEPT ![c] = [NoCall EXCEPT !.kind = "lock", !.key = k,
                          !.token = tokens + 1, !.expiry = now + ttl]]
          /\ pc' = [pc EXCEPT ![c] = "get"]
          /\ UNCHANGED <<now, registry, lease, obj, late, failures>>
    BY DEF BeginLock, Goto
  <1>2. Sinks(c)
    BY <1>1 DEF Sinks, Labels
  <1>3. Enters(c)
    BY <1>1, Records DEF Enters
  <1>4. PICK n \in Nat : n = tokens + 1
    BY Records
  <1>5. /\ call'[c].kind = "lock" /\ call'[c].token = n /\ call'[c].expiry = now + ttl
        /\ \A d \in Clients : d # c => pc'[d] = pc[d] /\ call'[d] = call[d]
    <2>1. call'[c].kind = "lock" /\ call'[c].token = tokens + 1 /\ call'[c].expiry = now + ttl
      <3> DEFINE x == [NoCall EXCEPT !.kind = "lock", !.key = k, !.token = tokens + 1,
                                     !.expiry = now + ttl]
      <3>1. x.kind = "lock" /\ x.token = tokens + 1 /\ x.expiry = now + ttl
        BY DEF NoCall
      <3>2. call' = [call EXCEPT ![c] = x]
        BY <1>1
      <3> HIDE DEF x
      <3> QED
        BY <3>1, <3>2 DEF IInv
    <2> QED
      BY <1>1, <1>4, <2>1 DEF IInv
  <1>6. HeldOK /\ AfloatOK /\ \A d \in Clients : FenceCallOK(d)
    BY DEF DurInv
  <1>7. n # 0 /\ n <= tokens' /\ (now + ttl <= now + ttl) /\ Early(now + ttl)'
    BY <1>1, <1>4, Records, ShapeAssumption DEF OneTTL, Early
  <1>8. Unheld(n)'
    BY <1>1, <1>4, <1>6, Records DEF Unheld, HeldOK
  <1>9. ASSUME NEW f, Elsewhere(c, f)' PROVE f.token # n
    <2>1. Somewhere(f)
      BY <1>1, <1>5, <1>9, Records DEF Elsewhere, Somewhere
    <2>2. f.token \in Nat
      BY <2>1, Records DEF Somewhere, Elsewhere
    <2> QED
      BY <1>4, <1>6, <2>1, <2>2, Records DEF AfloatOK
  <1>10. ASSUME NEW d \in Clients, d # c, Fencing(d)' PROVE call'[d].token # n
    <2>1. Fencing(d) /\ call'[d].token = call[d].token
      BY <1>5, <1>10 DEF Fencing
    <2> QED
      BY <1>4, <1>6, <2>1, Records DEF FenceCallOK
  <1>11. UNCHANGED <<registry, lease>>
    BY <1>1
  <1>12. FenceCallOK(c)'
    <2>1. /\ call'[c].token # 0 /\ call'[c].token <= tokens' /\ Early(call[c].expiry)'
      BY <1>1, <1>5, <1>7 DEF Early
    <2>2. Unheld(call[c].token)'
      BY <1>5, <1>8 DEF Unheld
    <2> QED
      BY <1>5, <1>9, <1>10, <2>1, <2>2 DEF FenceCallOK
  <1> QED
    BY <1>2, <1>3, <1>12, SinkStep

LEMMA BeginRenewDur ==
    ASSUME OneTTL, IInv, DurInv, NEW c \in Clients, BeginRenew(c) PROVE DurInv'
  <1>1. PICK ttl \in TTLs :
          /\ OwnsEntry(c)
          /\ call' = [call EXCEPT ![c] = [NoCall EXCEPT !.kind = "renew", !.key = lease[c].key,
                          !.token = lease[c].token, !.expiry = now + ttl]]
          /\ pc' = [pc EXCEPT ![c] = "get"]
          /\ UNCHANGED <<now, tokens, registry, lease, obj, late, failures>>
    BY DEF BeginRenew, Goto
  <1>2. Sinks(c)
    BY <1>1 DEF Sinks, Labels
  <1>3. Enters(c)
    BY <1>1, Records DEF Enters
  <1>4. /\ call'[c].kind = "renew" /\ call'[c].token = lease[c].token
        /\ call'[c].expiry = now + ttl
    <2> DEFINE x == [NoCall EXCEPT !.kind = "renew", !.key = lease[c].key,
                                   !.token = lease[c].token, !.expiry = now + ttl]
    <2>1. x.kind = "renew" /\ x.token = lease[c].token /\ x.expiry = now + ttl
      BY DEF NoCall
    <2>2. call' = [call EXCEPT ![c] = x]
      BY <1>1
    <2> HIDE DEF x
    <2> QED
      BY <2>1, <2>2 DEF IInv
  <1>5. HeldOK /\ AfloatOK
    BY DEF DurInv
  <1>6. lease[c].token # 0 /\ lease[c].token <= tokens'
    BY <1>1, <1>5, Records DEF OwnsEntry, HeldOK
  <1>7. Early(call[c].expiry)'
    BY <1>1, <1>4, Records, ShapeAssumption DEF OneTTL, Early
  <1>8. ASSUME NEW f, Somewhere(f)' PROVE f.expiry <= now + ttl
    <2>1. Somewhere(f)
      BY <1>2, <1>8, NothingNew, Records DEF Somewhere
    <2> QED
      BY <1>5, <2>1 DEF AfloatOK, Early
  <1>9. FenceCallOK(c)'
    BY <1>1, <1>4, <1>6, <1>7, <1>8 DEF FenceCallOK
  <1> QED
    BY <1>2, <1>3, <1>9, SinkStep

\* The answers to a PUT.
LEMMA LandsOn ==
    ASSUME IInv, NEW put \in Put, Lands(put)
    PROVE  /\ obj[put.key] = put.match
           /\ \A k \in Keys : obj'[k] = IF k = put.key THEN put.object ELSE obj[k]
  BY DEF IInv, Lands, Matches, Put

LEMMA LandsDur ==
    ASSUME IInv, DurInv, NEW c \in Clients, WriteLands(c) \/ LockLands(c) \/ RenewLands(c)
    PROVE  DurInv'
  <1>1. /\ pc[c] = "put" /\ Return(c) /\ now' = now /\ tokens' = tokens /\ late' = late
        /\ Lands(call[c].put)
    BY DEF WriteLands, LockLands, RenewLands, In, leases, Granted
  <1>2. \A k \in Keys : \/ obj'[k].fence = obj[k].fence
                        \/ obj'[k].fence = call[c].put.object.fence
    BY <1>1, LandsOn, Records
  <1>3. Enters(c)
    <2>1. CASE WriteLands(c)
      BY <1>1, <2>1, Records DEF WriteLands, leases, Enters
    <2>2. CASE LockLands(c) \/ RenewLands(c)
      <3>1. /\ Fencing(c) /\ call[c].key \in Keys
            /\ SetEntry(c, call[c].key, call[c].token, call[c].expiry)
        BY <1>1, <2>2 DEF LockLands, RenewLands, Granted, In, Fencing, Fences, IInv, CallOK
      <3>2. \A i \in Instances, k \in Keys :
              registry'[i][k] = registry[i][k] \/ registry'[i][k].token = call[c].token
        <4>1. \A i \in Instances, k \in Keys :
                registry'[i][k] = IF i = Caller(c) /\ k = call[c].key
                                  THEN [token |-> call[c].token, expiry |-> call[c].expiry]
                                  ELSE registry[i][k]
          BY <3>1, EntryBecomes DEF IInv
        <4> QED
          BY <4>1
      <3>3. CASE LockLands(c)
        <4>1. call[c].kind = "lock"
              /\ lease' = [lease EXCEPT ![c] = [key |-> call[c].key, token |-> call[c].token,
                                                fence |-> call[c].put.object.fence.owner]]
          BY <3>3 DEF LockLands, Granted, In
        <4>2. /\ \A d \in Clients : d # c => lease'[d] = lease[d]
              /\ lease'[c].token = call[c].token
          BY <4>1 DEF IInv, LeasesOK
        <4> QED
          BY <1>1, <3>1, <3>2, <4>1, <4>2, Records DEF Enters
      <3>4. CASE RenewLands(c)
        BY <1>1, <3>1, <3>2, <3>4, Records DEF Enters, RenewLands
      <3> QED
        BY <2>2, <3>3, <3>4
    <2> QED
      BY <2>1, <2>2
  <1> QED
    BY <1>1, <1>2, <1>3, ReturnStep

LEMMA FailsDur ==
    ASSUME IInv, DurInv, NEW c \in Clients, WriteFails(c) \/ FenceFails(c) PROVE DurInv'
  <1>1. /\ pc[c] = "put" /\ Return(c) /\ UNCHANGED <<now, tokens, registry, lease, obj>>
        /\ \E phase : Fails(c, phase)
    BY DEF WriteFails, FenceFails, In, leases
  <1>2. \A m \in late' : m \in late \/ (m.put = call[c].put /\ m.kind = call[c].kind)
    BY <1>1 DEF Fails
  <1>3. Enters(c)
    BY <1>1, Records DEF Enters
  <1> QED
    BY <1>1, <1>2, <1>3, ReturnStep

-----------------------------------------------------------------------------
\* unlock(), the network, the processes and the clock.
LEMMA UnlockDur == ASSUME IInv, DurInv, NEW c \in Clients, Unlock(c) PROVE DurInv'
  <1>1. /\ pc[c] = "idle" /\ UNCHANGED <<now, tokens, lease, obj, pc, call, late>>
        /\ lease[c].key \in Keys /\ SetEntry(c, lease[c].key, 0, 0)
    BY DEF Unlock, Released, OwnsEntry
  <1>2. \A i \in Instances, k \in Keys :
          registry'[i][k] = IF i = Caller(c) /\ k = lease[c].key THEN [token |-> 0, expiry |-> 0]
                            ELSE registry[i][k]
    BY <1>1, EntryBecomes DEF IInv
  <1>5. Enters(c)
    BY <1>1, <1>2, Records DEF Enters, NoEntry
  <1>3. Sinks(c)
    <2>1. pc' = [pc EXCEPT ![c] = "idle"] /\ call' = [call EXCEPT ![c] = call[c]]
          /\ "idle" \in Labels \ {"put"}
      BY <1>1 DEF IInv, Labels
    <2> QED
      BY <1>1, <2>1 DEF Sinks
  <1>4. FenceCallOK(c)'
    BY <1>1 DEF FenceCallOK, Fencing
  <1> QED
    BY <1>3, <1>4, <1>5, SinkStep

\* Nothing changes but what is stored and what is on its way, and it is less.
LEMMA FewerAfloat ==
    ASSUME IInv, DurInv, NEW t \in Nat, now' = now + t,
           UNCHANGED <<tokens, registry, lease, pc, call>>, late' \subseteq late,
           \A k \in Keys : \/ obj'[k].fence = obj[k].fence
                           \/ \E m \in late : obj'[k].fence = m.put.object.fence
    PROVE  DurInv'
  <1>1. \A d \in Clients \cup {None} : \A f : Elsewhere(d, f)' => Elsewhere(d, f)
    BY DEF Elsewhere
  <1>2. ASSUME NEW e \in Nat, Early(e) PROVE Early(e)'
    <2>1. ASSUME NEW s \in TTLs PROVE e <= now' + s
      <3>1. s \in Nat /\ now \in Nat /\ e <= now + s
        BY <1>2, Records, ShapeAssumption DEF Early
      <3> QED
        BY <3>1
    <2> QED
      BY <2>1 DEF Early
  <1>3. HeldOK /\ AfloatOK /\ PutsOK /\ LatesOK /\ \A d \in Clients : FenceCallOK(d)
    BY DEF DurInv
  <1>4. HeldOK' /\ PutsOK' /\ LatesOK'
    BY <1>3 DEF HeldOK, PutsOK, SentOK, LatesOK, Unheld, Copied
  <1>5. AfloatOK'
    <2> SUFFICES ASSUME NEW f, Somewhere(f)' PROVE f.token <= tokens' /\ Early(f.expiry)'
      BY DEF AfloatOK
    <2>1. Somewhere(f)
      BY <1>1 DEF Somewhere
    <2>2. f.expiry \in Nat
      BY <2>1, Records DEF Somewhere, Elsewhere
    <2>3. PICK e : e = f.expiry
      OBVIOUS
    <2>4. Early(e)'
      BY <1>2, <1>3, <2>1, <2>2, <2>3 DEF AfloatOK
    <2> QED
      BY <1>3, <2>1, <2>3, <2>4 DEF AfloatOK
  <1>6. ASSUME NEW d \in Clients PROVE FenceCallOK(d)'
    <2>1. Fencing(d)' = Fencing(d) /\ FenceCallOK(d) /\ call[d].expiry \in Nat
      BY <1>3, Records DEF Fencing
    <2>2. \A token : Unheld(token)' = Unheld(token)
      BY DEF Unheld
    <2>3. PICK expiry : expiry = call[d].expiry
      OBVIOUS
    <2>4. Fencing(d) => Early(expiry)'
      BY <1>2, <2>1, <2>3 DEF FenceCallOK
    <2>5. Fencing(d) => Early(call[d].expiry)'
      BY <2>3, <2>4 DEF Early
    <2>6. Fencing(d) /\ call[d].kind = "lock" =>
            /\ Unheld(call[d].token)'
            /\ \A f : Elsewhere(d, f)' => f.token # call[d].token
            /\ \A e \in Clients : e # d /\ Fencing(e)' => call[e].token # call[d].token
      BY <1>1, <2>1 DEF FenceCallOK, Fencing, Unheld
    <2>7. Fencing(d) /\ call[d].kind = "renew" =>
            \A f : Somewhere(f)' /\ f.token = call[d].token => f.expiry <= call[d].expiry
      BY <1>1, <2>1 DEF FenceCallOK, Somewhere
    <2> QED
      BY <2>1, <2>5, <2>6, <2>7 DEF FenceCallOK
  <1> QED
    BY <1>4, <1>5, <1>6 DEF DurInv

LEMMA LateLandsDur == ASSUME IInv, DurInv, LateLands PROVE DurInv'
  <1>1. PICK m \in late : Lands(m.put) /\ late' = late \ {m}
    BY DEF LateLands
  <1>2. UNCHANGED <<now, tokens, registry, lease, pc, call>>
    BY DEF LateLands, leases
  <1>3. \A k \in Keys : obj'[k].fence = obj[k].fence \/ obj'[k].fence = m.put.object.fence
    BY <1>1, LandsOn, Records
  <1> QED
    BY <1>1, <1>2, <1>3, FewerAfloat, Records

LEMMA TickDur == ASSUME IInv, DurInv, Tick PROVE DurInv'
  BY FewerAfloat DEF Tick, leases

LEMMA CrashDur == ASSUME IInv, DurInv, NEW i \in Instances, Crash(i) PROVE DurInv'
  <1> DEFINE gone == {c \in Clients : Caller(c) = i}
  <1>1. /\ pc' = [c \in Clients |-> IF c \in gone THEN "idle" ELSE pc[c]]
        /\ call' = [c \in Clients |-> IF c \in gone THEN NoCall ELSE call[c]]
        /\ registry' = [registry EXCEPT ![i] = [k \in Keys |-> NoEntry]]
        /\ lease' = [c \in Clients |-> IF Caller(c) = i THEN NoLease ELSE lease[c]]
        /\ UNCHANGED <<now, tokens, obj>>
    BY DEF Crash, Forgotten
  <1>2. \A m \in late' : \/ m \in late
                         \/ \E c \in Clients : pc[c] = "put" /\ m.put = call[c].put
                                               /\ m.kind = call[c].kind
    BY DEF Crash
  <1> HIDE DEF gone
  <1>3. /\ \A c \in Clients : Fencing(c)' => Fencing(c) /\ call'[c] = call[c] /\ lease'[c] = lease[c]
        /\ \A c \in Clients : pc'[c] = "put" => pc[c] = "put" /\ call'[c] = call[c]
    BY <1>1 DEF Fencing, gone
  <1>4. HeldOK /\ AfloatOK /\ PutsOK /\ LatesOK /\ \A d \in Clients : FenceCallOK(d)
    BY DEF DurInv
  <1>5. /\ \A c \in Clients : lease'[c] \in {lease[c], NoLease}
        /\ \A j \in Instances, k \in Keys : registry'[j][k] \in {registry[j][k], NoEntry}
        /\ NoLease.token = 0 /\ NoEntry.token = 0 /\ NoEntry.expiry = 0
    BY <1>1 DEF IInv, LeasesOK, NoLease, NoEntry
  <1>6. HeldOK'
    BY <1>1, <1>4, <1>5, Records DEF HeldOK
  <1>7. \A token : Unheld(token) => Unheld(token)'
    BY <1>5 DEF Unheld
  <1>8. PutsOK'
    BY <1>3, <1>4 DEF PutsOK, SentOK, Copied
  <1>9. LatesOK'
    <2> SUFFICES ASSUME NEW m \in late'
                 PROVE  /\ m.kind # "lock" => Copied(m.put)
                        /\ m.kind = "lock" => Unheld(m.put.object.fence.token)'
      BY DEF LatesOK
    <2>1. CASE m \in late
      BY <1>4, <1>7, <2>1 DEF LatesOK
    <2>2. ASSUME NEW c \in Clients, pc[c] = "put", m.put = call[c].put, m.kind = call[c].kind
          PROVE  /\ m.kind # "lock" => Copied(m.put)
                 /\ m.kind = "lock" => Unheld(m.put.object.fence.token)'
      <3>1. SentOK(call[c])
        BY <1>4, <2>2 DEF PutsOK
      <3>2. m.kind = "lock" => Unheld(m.put.object.fence.token)
        BY <1>4, <2>2, <3>1 DEF SentOK, FenceCallOK, Fencing, Fences
      <3> QED
        BY <1>7, <2>2, <3>1, <3>2 DEF SentOK
    <2> QED
      BY <1>2, <2>1, <2>2
  <1>10. \A d \in Clients \cup {None} : \A f :
            Elsewhere(d, f)' => \/ Elsewhere(d, f)
                                \/ d \in Clients /\ ~Fencing(d)'
    <2> SUFFICES ASSUME NEW d \in Clients \cup {None}, NEW f, Elsewhere(d, f)', ~Elsewhere(d, f)
                 PROVE  d \in Clients /\ ~Fencing(d)'
      OBVIOUS
    <2>1. PICK m \in late' : f = m.put.object.fence /\ m \notin late
      BY <1>1, <1>3 DEF Elsewhere
    <2>2. PICK c \in Clients : pc[c] = "put" /\ m.put = call[c].put /\ m.kind = call[c].kind
      BY <1>2, <2>1
    <2>3. d = c
      BY <2>1, <2>2 DEF Elsewhere
    <2>4. late' = late \cup {[put |-> call[e].put, kind |-> call[e].kind, told |-> "crash"] :
                              e \in {x \in gone : pc[x] = "put"}}
      BY DEF Crash, gone
    <2>5. PICK e \in gone : pc[e] = "put" /\ m.put = call[e].put
      BY <2>1, <2>4
    <2>6. e = d
      BY <2>1, <2>5 DEF Elsewhere, gone
    <2> QED
      BY <1>1, <2>5, <2>6 DEF Fencing, gone
  <1>11. \A f : Somewhere(f)' => Somewhere(f)
    BY <1>10, Records DEF Somewhere
  <1>12. AfloatOK'
    BY <1>1, <1>4, <1>11 DEF AfloatOK, Early
  <1>13. ASSUME NEW d \in Clients PROVE FenceCallOK(d)'
    <2> SUFFICES ASSUME Fencing(d)' PROVE FenceCallOK(d)'
      BY DEF FenceCallOK
    <2>1. Fencing(d) /\ call'[d] = call[d] /\ lease'[d] = lease[d] /\ FenceCallOK(d)
      BY <1>3, <1>4
    <2>2. call[d].token # 0 /\ call[d].token <= tokens' /\ Early(call[d].expiry)'
      BY <1>1, <2>1 DEF FenceCallOK, Early
    <2>3. call[d].kind = "lock" =>
            /\ Unheld(call[d].token)'
            /\ \A f : Elsewhere(d, f)' => f.token # call[d].token
            /\ \A e \in Clients : e # d /\ Fencing(e)' => call'[e].token # call[d].token
      <3> SUFFICES ASSUME call[d].kind = "lock"
                   PROVE  /\ Unheld(call[d].token)'
                          /\ \A f : Elsewhere(d, f)' => f.token # call[d].token
                          /\ \A e \in Clients : e # d /\ Fencing(e)' => call'[e].token # call[d].token
        OBVIOUS
      <3>1. PICK t : t = call[d].token
        OBVIOUS
      <3>2. Unheld(t)'
        BY <1>7, <2>1, <3>1 DEF FenceCallOK
      <3>3. Unheld(call[d].token)'
        BY <2>1, <3>1, <3>2 DEF Unheld
      <3> QED
        BY <1>3, <1>10, <2>1, <3>3 DEF FenceCallOK
    <2>4. call[d].kind = "renew" =>
            /\ lease'[d].token = call[d].token
            /\ \A f : Somewhere(f)' /\ f.token = call[d].token => f.expiry <= call[d].expiry
      BY <1>11, <2>1 DEF FenceCallOK
    <2> QED
      BY <2>1, <2>2, <2>3, <2>4 DEF FenceCallOK
  <1> QED
    BY <1>6, <1>8, <1>9, <1>12, <1>13 DEF DurInv


-----------------------------------------------------------------------------
\* Every step keeps it.
LEMMA NextDur == ASSUME OneTTL, IInv, DurInv, [Next]_vars PROVE DurInv'
  <1>1. ASSUME NEW c \in Clients, Begin(c) PROVE DurInv'
    BY <1>1, BeginCreateDur, BeginUpdateDur, BeginLockDur, BeginRenewDur, UnlockDur DEF Begin
  <1>2. ASSUME NEW c \in Clients, Continue(c) PROVE DurInv'
    BY <1>2, ReadsDur, PreparesDur, LandsDur, FailsDur DEF Continue
  <1>3. CASE UNCHANGED vars
    <2>1. UNCHANGED <<now, tokens, registry, lease, obj, pc, call, late>>
      BY <1>3 DEF vars, leases
    <2>2. now' = now + 0
      BY <2>1, Records
    <2> QED
      BY <2>1, <2>2, FewerAfloat
  <1> QED
    BY <1>1, <1>2, <1>3, LateLandsDur, CrashDur, TickDur DEF Next

LEMMA InitDur == ASSUME Init PROVE DurInv /\ EntryIsDurable
  <1>1. /\ now = 0 /\ tokens = 0 /\ late = {}
        /\ \A c \in Clients : pc[c] = "idle" /\ lease[c].token = 0
        /\ \A i \in Instances, k \in Keys : registry[i][k].token = 0 /\ registry[i][k].expiry = 0
        /\ \A k \in Keys : obj[k].fence = NoFence
        /\ NoFence.token = 0 /\ NoFence.expiry = 0
    BY DEF Init, LeasesInit, NoEntry, NoLease, NoObject, NoFence
  <1>2. HeldOK /\ PutsOK /\ LatesOK /\ \A c \in Clients : FenceCallOK(c)
    BY <1>1 DEF HeldOK, PutsOK, LatesOK, FenceCallOK, Fencing
  <1>3. AfloatOK
    BY <1>1, ShapeAssumption DEF AfloatOK, Somewhere, Elsewhere, Early
  <1> QED
    BY <1>1, <1>2, <1>3 DEF DurInv, EntryIsDurable

\* An object that lands keeps the entries of its token covered.
LEMMA LandingCovers ==
    ASSUME IInv, DurInv, EntryIsDurable, NEW put \in Put, Lands(put),
           Copied(put) \/ Unheld(put.object.fence.token),
           NEW i \in Instances, NEW k \in Keys,
           registry[i][k].token # 0, registry[i][k].token = obj'[k].fence.token
    PROVE  registry[i][k].expiry <= obj'[k].fence.expiry
  <1>1. obj[put.key] = put.match /\ obj'[k] = IF k = put.key THEN put.object ELSE obj[k]
    BY LandsOn
  <1>2. CASE k # put.key
    BY <1>1, <1>2 DEF EntryIsDurable
  <1>3. CASE k = put.key /\ Unheld(put.object.fence.token)
    BY <1>1, <1>3 DEF Unheld
  <1>4. CASE k = put.key /\ Copied(put)
    <2>1. registry[i][k].expiry <= put.match.fence.expiry
      BY <1>1, <1>4 DEF EntryIsDurable, Copied
    <2>2. /\ registry[i][k].expiry \in Nat /\ put.match.fence.expiry \in Nat
          /\ put.object.fence.expiry \in Nat
      BY Records DEF Put, Object, Fence
    <2> QED
      BY <1>1, <1>4, <2>1, <2>2 DEF Copied
  <1> QED
    BY <1>2, <1>3, <1>4

\* The steps that land a PUT.
LEMMA LandsDurable ==
    ASSUME IInv, DurInv, EntryIsDurable, NEW c \in Clients,
           WriteLands(c) \/ LockLands(c) \/ RenewLands(c)
    PROVE  EntryIsDurable'
  <1> DEFINE put == call[c].put
  <1>1. pc[c] = "put" /\ put \in Put /\ Lands(put) /\ SentOK(call[c])
    BY Records DEF WriteLands, LockLands, RenewLands, In, DurInv, PutsOK
  <1> SUFFICES ASSUME NEW i \in Instances, NEW k \in Keys,
                      registry'[i][k].token # 0, registry'[i][k].token = obj'[k].fence.token
               PROVE  registry'[i][k].expiry <= obj'[k].fence.expiry
    BY DEF EntryIsDurable
  <1>2. Copied(put) \/ Unheld(put.object.fence.token)
    BY <1>1 DEF SentOK, DurInv, FenceCallOK, Fencing, Fences
  <1> HIDE DEF put
  <1>3. CASE registry'[i][k] = registry[i][k]
    BY <1>1, <1>2, <1>3, LandingCovers
  <1>4. CASE registry'[i][k] # registry[i][k]
    <2>1. /\ call[c].kind \in Fences /\ call[c].key \in Keys
          /\ SetEntry(c, call[c].key, call[c].token, call[c].expiry)
      BY <1>1, <1>4 DEF WriteLands, LockLands, RenewLands, In, Fences, leases, Granted, IInv, CallOK
    <2>2. registry'[i][k] = IF i = Caller(c) /\ k = call[c].key
                            THEN [token |-> call[c].token, expiry |-> call[c].expiry]
                            ELSE registry[i][k]
      BY <2>1, EntryBecomes DEF IInv
    <2>3. k = call[c].key /\ registry'[i][k].expiry = call[c].expiry
      BY <1>4, <2>2
    <2>4. obj'[k] = put.object
      BY <1>1, <2>1, <2>3, LandsOn DEF SentOK, put
    <2>5. put.object.fence.expiry = call[c].expiry /\ call[c].expiry \in Nat
      BY <1>1, <2>1, Records DEF SentOK, put
    <2> QED
      BY <2>3, <2>4, <2>5
  <1> QED
    BY <1>3, <1>4

LEMMA NextDurable ==
    ASSUME IInv, DurInv, EntryIsDurable, [Next]_vars PROVE EntryIsDurable'
  <1>1. ASSUME UNCHANGED obj,
               \A i \in Instances, k \in Keys : registry'[i][k] \in {registry[i][k], NoEntry}
        PROVE  EntryIsDurable'
    BY <1>1 DEF EntryIsDurable, NoEntry
  <1>2. ASSUME NEW c \in Clients, Begin(c) PROVE EntryIsDurable'
    <2>1. CASE Unlock(c)
      <3>1. UNCHANGED obj /\ lease[c].key \in Keys /\ SetEntry(c, lease[c].key, 0, 0)
        BY <2>1 DEF Unlock, Released, OwnsEntry
      <3>2. \A i \in Instances, k \in Keys :
              registry'[i][k] = IF i = Caller(c) /\ k = lease[c].key
                                THEN [token |-> 0, expiry |-> 0] ELSE registry[i][k]
        BY <3>1, EntryBecomes DEF IInv
      <3> QED
        BY <1>1, <3>1, <3>2 DEF NoEntry
    <2>2. CASE ~Unlock(c)
      BY <1>1, <1>2, <2>2 DEF Begin, BeginCreate, BeginUpdate, BeginLock, BeginRenew, leases
    <2> QED
      BY <2>1, <2>2
  <1>3. ASSUME NEW c \in Clients, Continue(c) PROVE EntryIsDurable'
    <2>1. CASE WriteLands(c) \/ LockLands(c) \/ RenewLands(c)
      BY <2>1, LandsDurable
    <2>2. CASE ~(WriteLands(c) \/ LockLands(c) \/ RenewLands(c))
      <3>1. UNCHANGED <<obj, registry>>
        BY <1>3, <2>2
           DEF Continue, FillPhantom, ResolveCreate, AdmitUpdate, RefuseUpdate, LoseFence,
               SettleReturns, SettlePolls, PrepareFence, RenewSuperseded, RefusedRetries,
               UpdateRefused, FenceGivesUp, WriteFails, FenceFails, leases
      <3> QED
        BY <1>1, <3>1
    <2> QED
      BY <2>1, <2>2
  <1>4. CASE LateLands
    <2>1. PICK m \in late : Lands(m.put)
      BY <1>4 DEF LateLands
    <2>2. m.put \in Put /\ (Copied(m.put) \/ Unheld(m.put.object.fence.token)) /\ registry' = registry
      BY <1>4, Records DEF DurInv, LatesOK, LateLands, leases
    <2> QED
      BY <2>1, <2>2, LandingCovers DEF EntryIsDurable
  <1>5. ASSUME NEW i \in Instances, Crash(i) PROVE EntryIsDurable'
    <2>1. UNCHANGED obj /\ registry' = [registry EXCEPT ![i] = [k \in Keys |-> NoEntry]]
      BY <1>5 DEF Crash, Forgotten
    <2>2. \A j \in Instances, k \in Keys : registry'[j][k] \in {registry[j][k], NoEntry}
      BY <2>1 DEF IInv, LeasesOK
    <2> QED
      BY <1>1, <2>1, <2>2
  <1>6. CASE Tick \/ UNCHANGED vars
    BY <1>1, <1>6 DEF Tick, leases, vars
  <1> QED
    BY <1>2, <1>3, <1>4, <1>5, <1>6 DEF Next

\* Where every lock() and renew() asks for the same time, an entry lasts no longer
\* than the durable lease of its token: no PUT, late or not, shortens the lease a
\* process still keeps others BUSY for.
THEOREM EntriesAreDurable == ASSUME OneTTL PROVE Spec => []EntryIsDurable
  <1>1. Init => DurInv /\ EntryIsDurable
    BY InitDur
  <1>2. IInv /\ DurInv /\ EntryIsDurable /\ [Next]_vars => (DurInv /\ EntryIsDurable)'
    BY NextDur, NextDurable
  <1> QED
    BY InductiveInvariant, <1>1, <1>2, PTL DEF Spec

-----------------------------------------------------------------------------
(***************************************************************************)
(* The invariant of the refinement: what is put, compared with the         *)
(* envelope it was prepared on, and with the write the contract sees.      *)
(***************************************************************************)
\* The value a write of call x must find.
Prior(x) == IF x.kind = "create" THEN Absent ELSE x.expected

\* No write was accepted under a fence that was never allocated.
Floor(f) == f.accepted <= f.owner

\* A write leaves the owner's fence; a change of the fence record leaves the
\* value, and lock() allocates the next fence.
Built(put, kind) ==
    /\ Floor(put.match.fence) /\ Floor(put.object.fence)
    /\ kind \in Writes => /\ put.object.body \in Bodies
                          /\ put.object.fence.owner = put.match.fence.owner
    /\ kind \in Fences =>
        /\ put.object.body = put.match.body
        /\ put.object.fence.owner = put.match.fence.owner + (IF kind = "lock" THEN 1 ELSE 0)

\* The envelope a PUT was prepared on is no newer than the one in o.
Old(put, o) == put.match.fence.owner <= o[put.key].fence.owner

\* A call x at place p, of a client with lease l: what it puts.
SendsOK(p, x, l) ==
    /\ p # "idle" /\ x.kind \in Writes =>
        Prior(x) \in Bodies \cup {Absent} /\ (x.kind = "update" => l.key = x.key)
    /\ p = "put" => x.put.key = x.key /\ Built(x.put, x.kind)
    /\ p = "put" /\ x.kind \in Writes =>
        /\ x.put.object.body = x.body /\ x.put.match.body = Prior(x)
        /\ x.kind = "update" => l.fence = x.put.match.fence.owner

SimInv ==
    /\ \A k \in Keys : Floor(obj[k].fence)
    /\ \A c \in Clients : /\ SendsOK(pc[c], call[c], lease[c])
                          /\ pc[c] = "put" => Old(call[c].put, obj)
    /\ \A m \in late : Built(m.put, m.kind) /\ Old(m.put, obj)

-----------------------------------------------------------------------------
(* The actions keep SimInv.                                                *)

\* Fences do not go down, so a PUT prepared on an old envelope stays old.
LEMMA OldStays ==
    ASSUME IInv, Next, NEW put \in Put, Old(put, obj) PROVE Old(put, obj')
  <1>1. /\ put.key \in Keys /\ put.match.fence.owner \in Nat
        /\ obj[put.key].fence.owner \in Nat
    BY DEF Put, Object, Fence, IInv
  <1>2. obj'[put.key].fence.owner >= obj[put.key].fence.owner /\ obj' \in [Keys -> Object]
    BY <1>1, FencesKept, NextIInv DEF IInv
  <1>3. obj'[put.key].fence.owner \in Nat
    BY <1>1, <1>2 DEF Object, Fence
  <1> QED
    BY <1>1, <1>2, <1>3 DEF Old

\* The PUTs of the clients and the late ones are PUTs.
LEMMA PutsAre ==
    ASSUME IInv
    PROVE  /\ \A c \in Clients : pc[c] = "put" =>
                call[c].put \in Put /\ call[c].kind \in Writes \cup Fences
           /\ \A m \in late : m.put \in Put /\ m.kind \in Writes \cup Fences
  BY DEF IInv, CallOK, PutOK, LateOK, Call

\* One client moves to place p of call x; its PUT may have landed or become late.
LEMMA SimStep ==
    ASSUME IInv, SimInv, Next, NEW c \in Clients, NEW p, NEW x,
           pc' = [pc EXCEPT ![c] = p], call' = [call EXCEPT ![c] = x],
           \A d \in Clients \ {c} : lease'[d] = lease[d],
           SendsOK(p, x, lease'[c]), p = "put" => Old(x.put, obj'),
           \A k \in Keys : Floor(obj'[k].fence),
           \A m \in late' : \/ m \in late
                            \/ pc[c] = "put" /\ m.put = call[c].put /\ m.kind = call[c].kind
    PROVE  SimInv'
  <1>1. /\ pc'[c] = p /\ call'[c] = x
        /\ \A d \in Clients \ {c} : pc'[d] = pc[d] /\ call'[d] = call[d] /\ lease'[d] = lease[d]
    BY DEF IInv
  <1>2. ASSUME NEW d \in Clients
        PROVE  SendsOK(pc'[d], call'[d], lease'[d]) /\ (pc'[d] = "put" => Old(call'[d].put, obj'))
    <2>1. CASE d = c
      BY <1>1, <2>1
    <2>2. CASE d # c
      BY <1>1, <2>2, OldStays, PutsAre DEF SimInv
    <2> QED
      BY <2>1, <2>2
  <1>3. ASSUME NEW m \in late' PROVE Built(m.put, m.kind) /\ Old(m.put, obj')
    <2>1. CASE m \in late
      BY <2>1, OldStays, PutsAre DEF SimInv
    <2>2. CASE pc[c] = "put" /\ m.put = call[c].put /\ m.kind = call[c].kind
      BY <2>2, OldStays, PutsAre DEF SimInv, SendsOK
    <2> QED
      BY <1>3, <2>1, <2>2
  <1> QED
    BY <1>2, <1>3 DEF SimInv

\* The call of c returns.
LEMMA ReturnSim ==
    ASSUME IInv, SimInv, Next, NEW c \in Clients, Return(c),
           \A d \in Clients \ {c} : lease'[d] = lease[d],
           \A k \in Keys : Floor(obj'[k].fence),
           \A m \in late' : \/ m \in late
                            \/ pc[c] = "put" /\ m.put = call[c].put /\ m.kind = call[c].kind
    PROVE  SimInv'
  <1>1. pc' = [pc EXCEPT ![c] = "idle"] /\ call' = [call EXCEPT ![c] = NoCall]
    BY DEF Return, Goto
  <1>2. SendsOK("idle", NoCall, lease'[c])
    BY DEF SendsOK
  <1> QED
    BY <1>1, <1>2, SimStep

\* A PUT that lands keeps every floor.
LEMMA FloorsStay ==
    ASSUME IInv, SimInv, NEW put, NEW kind, PutOK(put), Built(put, kind), Lands(put)
    PROVE  \A k \in Keys : Floor(obj'[k].fence)
  BY LandsOn DEF Built, SimInv, IInv, PutOK, Put, Lands

\* A create puts at once, on no object.
LEMMA BegunCreate ==
    ASSUME IInv, NEW c \in Clients, BeginCreate(c)
    PROVE  \E x : /\ call' = [call EXCEPT ![c] = x] /\ pc' = [pc EXCEPT ![c] = "put"]
                  /\ x.kind = "create" /\ x.key \in Keys /\ x.body \in Bodies
                  /\ x.put = [key |-> x.key, match |-> NoObject,
                              object |-> [body |-> x.body, fence |-> NoFence]]
  <1>1. PICK k \in Keys, b \in Bodies :
          call' = [call EXCEPT ![c] = [NoCall EXCEPT !.kind = "create", !.key = k, !.body = b,
                       !.put = [key |-> k, match |-> NoObject,
                                object |-> [body |-> b, fence |-> NoFence]]]]
    BY DEF BeginCreate
  <1> DEFINE put == [key |-> k, match |-> NoObject, object |-> [body |-> b, fence |-> NoFence]]
             x == [NoCall EXCEPT !.kind = "create", !.key = k, !.body = b, !.put = put]
  <1>2. call' = [call EXCEPT ![c] = x] /\ pc' = [pc EXCEPT ![c] = "put"]
    BY <1>1 DEF BeginCreate, Goto
  <1>3. PICK q : q = put
    OBVIOUS
  <1> HIDE DEF put
  <1>4. x.kind = "create" /\ x.key = k /\ x.body = b /\ x.put = put
    BY DEF NoCall
  <1> HIDE DEF x
  <1> QED
    BY <1>2, <1>4 DEF put

LEMMA BegunUpdate ==
    ASSUME IInv, NEW c \in Clients, BeginUpdate(c)
    PROVE  \E x : /\ call' = [call EXCEPT ![c] = x] /\ pc' = [pc EXCEPT ![c] = "get"]
                  /\ x.kind = "update" /\ x.key = lease[c].key /\ x.expected \in Bodies
  <1>1. PICK b, e \in Bodies :
          call' = [call EXCEPT ![c] = [NoCall EXCEPT !.kind = "update", !.key = lease[c].key,
                                                     !.body = b, !.expected = e]]
    BY DEF BeginUpdate
  <1> DEFINE x == [NoCall EXCEPT !.kind = "update", !.key = lease[c].key, !.body = b, !.expected = e]
  <1>2. call' = [call EXCEPT ![c] = x] /\ pc' = [pc EXCEPT ![c] = "get"]
    BY <1>1 DEF BeginUpdate, Goto
  <1>3. x.kind = "update" /\ x.key = lease[c].key /\ x.expected = e
    BY DEF NoCall
  <1> QED
    BY <1>2, <1>3

\* What lock() and renew() begin with.
LEMMA BegunFence ==
    ASSUME IInv, NEW c \in Clients, BeginLock(c) \/ BeginRenew(c)
    PROVE  \E x : /\ call' = [call EXCEPT ![c] = x] /\ pc' = [pc EXCEPT ![c] = "get"]
                  /\ x.kind \in Fences
  <1>1. PICK kind \in Fences : \E k, token, expiry :
          call' = [call EXCEPT ![c] = [NoCall EXCEPT !.kind = kind, !.key = k,
                                                     !.token = token, !.expiry = expiry]]
    <2>1. CASE BeginLock(c)
      <3>1. PICK k \in Keys, ttl \in TTLs :
              call' = [call EXCEPT ![c] = [NoCall EXCEPT !.kind = "lock", !.key = k,
                              !.token = tokens + 1, !.expiry = now + ttl]]
        BY <2>1 DEF BeginLock
      <3> QED
        BY <3>1 DEF Fences
    <2>2. CASE BeginRenew(c)
      <3>1. PICK ttl \in TTLs :
              call' = [call EXCEPT ![c] = [NoCall EXCEPT !.kind = "renew", !.key = lease[c].key,
                              !.token = lease[c].token, !.expiry = now + ttl]]
        BY <2>2 DEF BeginRenew
      <3> QED
        BY <3>1 DEF Fences
    <2> QED
      BY <2>1, <2>2
  <1>2. PICK k, token, expiry :
          call' = [call EXCEPT ![c] = [NoCall EXCEPT !.kind = kind, !.key = k,
                                                     !.token = token, !.expiry = expiry]]
    BY <1>1
  <1> DEFINE x == [NoCall EXCEPT !.kind = kind, !.key = k, !.token = token, !.expiry = expiry]
  <1>3. call' = [call EXCEPT ![c] = x] /\ pc' = [pc EXCEPT ![c] = "get"]
    BY <1>2 DEF BeginLock, BeginRenew, Goto
  <1>4. x.kind = kind
    BY DEF NoCall
  <1> QED
    BY <1>3, <1>4

\* A PUT prepared on the envelope just read.
LEMMA Prepared ==
    ASSUME IInv, NEW c \in Clients, NEW object, NEW attempts, Prepare(c, object, attempts)
    PROVE  \E x : /\ call' = [call EXCEPT ![c] = x] /\ pc' = [pc EXCEPT ![c] = "put"]
                  /\ x.put = [key |-> call[c].key, match |-> Seen(c), object |-> object]
                  /\ x.kind = call[c].kind /\ x.key = call[c].key /\ x.body = call[c].body
                  /\ x.expected = call[c].expected
  <1> DEFINE put == [key |-> call[c].key, match |-> Seen(c), object |-> object]
             x1 == [call[c] EXCEPT !.put = put]
             x  == [x1 EXCEPT !.attempts = attempts]
             y  == [call[c] EXCEPT !.put = put, !.attempts = attempts]
  <1>1. call' = [call EXCEPT ![c] = y] /\ pc' = [pc EXCEPT ![c] = "put"]
    BY DEF Prepare, Goto
  <1>2. DOMAIN call[c] = DOMAIN NoCall
    BY DEF IInv, Call, NoCall
  <1> HIDE DEF put
  <1>3. x = y
    OBVIOUS
  <1> HIDE DEF y
  <1>4. /\ x1.put = put /\ x1.kind = call[c].kind /\ x1.key = call[c].key
        /\ x1.body = call[c].body /\ x1.expected = call[c].expected /\ DOMAIN x1 = DOMAIN NoCall
    BY <1>2 DEF NoCall
  <1> HIDE DEF x1
  <1>5. /\ x.put = put /\ x.kind = call[c].kind /\ x.key = call[c].key
        /\ x.body = call[c].body /\ x.expected = call[c].expected
    BY <1>4 DEF NoCall
  <1> HIDE DEF x
  <1> QED
    BY <1>1, <1>3, <1>5 DEF put

LEMMA BeginSim ==
    ASSUME IInv, SimInv, Next, NEW c \in Clients,
           BeginCreate(c) \/ BeginUpdate(c) \/ BeginLock(c) \/ BeginRenew(c)
    PROVE  SimInv'
  <1>1. UNCHANGED <<lease, obj, late>>
    BY DEF BeginCreate, BeginUpdate, BeginLock, BeginRenew, leases
  <1>2. \A k \in Keys : Floor(obj'[k].fence)
    BY <1>1 DEF SimInv
  <1>3. CASE BeginCreate(c)
    <2>1. PICK x : /\ call' = [call EXCEPT ![c] = x] /\ pc' = [pc EXCEPT ![c] = "put"]
                   /\ x.kind = "create" /\ x.key \in Keys /\ x.body \in Bodies
                   /\ x.put = [key |-> x.key, match |-> NoObject,
                               object |-> [body |-> x.body, fence |-> NoFence]]
      BY <1>3, BegunCreate
    <2>2. /\ x.put.key = x.key /\ x.put.match.fence = NoFence /\ x.put.object.fence = NoFence
          /\ x.put.object.body = x.body /\ x.put.match.body = Absent
          /\ NoFence.owner = 0 /\ NoFence.accepted = 0
      BY <2>1 DEF NoObject, NoFence
    <2>3. SendsOK("put", x, lease'[c])
      BY <2>1, <2>2 DEF SendsOK, Built, Floor, Prior, Fences
    <2>4. Old(x.put, obj')
      BY <1>1, <2>1, <2>2 DEF Old, IInv, Object, Fence
    <2> QED
      BY <1>1, <1>2, <2>1, <2>3, <2>4, SimStep
  <1>4. CASE BeginUpdate(c)
    <2>1. PICK x : /\ call' = [call EXCEPT ![c] = x] /\ pc' = [pc EXCEPT ![c] = "get"]
                   /\ x.kind = "update" /\ x.key = lease[c].key /\ x.expected \in Bodies
      BY <1>4, BegunUpdate
    <2>2. SendsOK("get", x, lease'[c])
      BY <1>1, <2>1 DEF SendsOK, Prior
    <2> QED
      BY <1>1, <1>2, <2>1, <2>2, SimStep
  <1>5. CASE BeginLock(c) \/ BeginRenew(c)
    <2>1. PICK x : /\ call' = [call EXCEPT ![c] = x] /\ pc' = [pc EXCEPT ![c] = "get"]
                   /\ x.kind \in Fences
      BY <1>5, BegunFence
    <2>2. SendsOK("get", x, lease'[c])
      BY <2>1 DEF SendsOK, Writes, Fences
    <2> QED
      BY <1>1, <1>2, <2>1, <2>2, SimStep
  <1> QED
    BY <1>3, <1>4, <1>5

\* A PUT prepared on the envelope just read, which it leaves or changes as its
\* kind does.
LEMMA PrepareSim ==
    ASSUME IInv, SimInv, Next, NEW c \in Clients, NEW object, NEW attempts,
           pc[c] = "get", Prepare(c, object, attempts), UNCHANGED <<leases, obj, late>>,
           NEW put, put = [key |-> call[c].key, match |-> Seen(c), object |-> object],
           Built(put, call[c].kind),
           call[c].kind \in Writes => /\ object.body = call[c].body
                                      /\ Seen(c).body = Prior(call[c]),
           call[c].kind = "update" => lease[c].fence = Seen(c).fence.owner
    PROVE  SimInv'
  <1>1. PICK x : /\ call' = [call EXCEPT ![c] = x] /\ pc' = [pc EXCEPT ![c] = "put"]
                 /\ x.put = put
                 /\ x.kind = call[c].kind /\ x.key = call[c].key /\ x.body = call[c].body
                 /\ x.expected = call[c].expected
    BY Prepared
  <1>2. UNCHANGED <<lease, obj, late>> /\ SendsOK(pc[c], call[c], lease[c])
    BY DEF leases, SimInv
  <1>3. put.key = call[c].key /\ put.match = Seen(c) /\ put.object = object
    OBVIOUS
  <1>4. SendsOK("put", x, lease'[c])
    BY <1>1, <1>2, <1>3 DEF SendsOK, Prior
  <1>5. call[c].key \in Keys /\ Seen(c).fence.owner \in Nat
    BY SeenType DEF IInv, CallOK
  <1>6. Old(x.put, obj')
    BY <1>1, <1>2, <1>3, <1>5 DEF Old, Seen
  <1>7. \A k \in Keys : Floor(obj'[k].fence)
    BY <1>2 DEF SimInv
  <1> QED
    BY <1>1, <1>2, <1>4, <1>6, <1>7, SimStep

LEMMA FillPhantomBuilt ==
    ASSUME IInv, SimInv, NEW c \in Clients, FillPhantom(c),
           NEW object, object = [Seen(c) EXCEPT !.body = call[c].body]
    PROVE  /\ Built([key |-> call[c].key, match |-> Seen(c), object |-> object], call[c].kind)
           /\ object.body = call[c].body /\ Seen(c).body = Prior(call[c])
           /\ call[c].kind = "create"
  <1>1. /\ pc[c] = "get" /\ call[c].kind = "create" /\ call[c].key \in Keys
        /\ call[c].body \in Bodies /\ Seen(c).body = Absent
    BY DEF FillPhantom, In, IInv, CallOK, Writes
  <1>2. object.body = call[c].body /\ object.fence = Seen(c).fence /\ Floor(Seen(c).fence)
    BY <1>1, SeenType DEF Object, SimInv, Seen
  <1> QED
    BY <1>1, <1>2 DEF Built, Prior, Fences

LEMMA AdmitUpdateBuilt ==
    ASSUME IInv, SimInv, NEW c \in Clients, AdmitUpdate(c),
           NEW object, object = [body |-> call[c].body,
                                 fence |-> [Seen(c).fence EXCEPT !.accepted = lease[c].fence]]
    PROVE  /\ Built([key |-> call[c].key, match |-> Seen(c), object |-> object], call[c].kind)
           /\ object.body = call[c].body /\ Seen(c).body = Prior(call[c])
           /\ call[c].kind = "update" /\ lease[c].fence = Seen(c).fence.owner
  <1>1. /\ pc[c] = "get" /\ call[c].kind = "update" /\ call[c].key \in Keys
        /\ call[c].body \in Bodies /\ Seen(c).body = call[c].expected
        /\ FenceOk(lease[c], Seen(c).fence) /\ lease[c] \in Lease
    BY DEF AdmitUpdate, UpdateAdmitted, In, IInv, CallOK, Writes, LeasesOK
  <1> DEFINE f == [Seen(c).fence EXCEPT !.accepted = lease[c].fence]
  <1>2. /\ Seen(c).fence \in Fence /\ Seen(c).fence.owner \in Nat /\ Floor(Seen(c).fence)
    BY <1>1, SeenType DEF SimInv, Seen
  <1>3. f.owner = Seen(c).fence.owner /\ f.accepted = Seen(c).fence.owner
    BY <1>1, <1>2, AcceptedRises
  <1>4. lease[c].fence = Seen(c).fence.owner
    BY <1>1 DEF FenceOk
  <1> HIDE DEF f
  <1>5. object.body = call[c].body /\ object.fence = f
    BY DEF f
  <1> QED
    BY <1>1, <1>2, <1>3, <1>4, <1>5 DEF Built, Prior, Fences, Floor

LEMMA PrepareFenceBuilt ==
    ASSUME IInv, SimInv, NEW c \in Clients, PrepareFence(c),
           NEW object, object = [Seen(c) EXCEPT !.fence = NewFence(c)]
    PROVE  /\ Built([key |-> call[c].key, match |-> Seen(c), object |-> object], call[c].kind)
           /\ call[c].kind \in Fences
  <1>1. /\ pc[c] = "get" /\ call[c].kind \in Fences /\ call[c].key \in Keys
        /\ call[c].token \in Nat /\ call[c].expiry \in Nat
    BY DEF PrepareFence, In, IInv, CallOK, Call
  <1>2. /\ Seen(c) \in Object /\ Seen(c).fence \in Fence /\ Floor(Seen(c).fence)
        /\ Seen(c).fence.owner \in Nat /\ Seen(c).fence.accepted \in Nat
    BY <1>1, SeenType DEF SimInv, Seen
  <1> DEFINE s == Seen(c).fence
             g == NewFence(c)
  <1>3. g \in Fence /\ g.accepted = s.accepted
        /\ g.owner = s.owner + (IF call[c].kind = "lock" THEN 1 ELSE 0)
    <2>1. CASE call[c].kind = "lock"
      <3>1. g = Advanced(s, call[c].token, call[c].expiry)
        BY <2>1 DEF NewFence
      <3>2. NextFence(s) = s.owner + 1
        BY <1>2 DEF NextFence, Floor
      <3> HIDE DEF g, s
      <3>3. s \in Fence
        BY <1>2 DEF s
      <3>4. g.owner = NextFence(s)
        <4> DEFINE h1 == [s EXCEPT !.token = call[c].token]
                   h2 == [h1 EXCEPT !.expiry = call[c].expiry]
        <4>1. h1 \in Fence
          BY <1>1, <3>3 DEF Fence
        <4> HIDE DEF h1
        <4>2. h2 \in Fence
          BY <1>1, <4>1 DEF Fence
        <4>3. g = [h2 EXCEPT !.owner = NextFence(s)]
          BY <3>1 DEF Advanced, h1
        <4> HIDE DEF h2
        <4> QED
          BY <4>2, <4>3 DEF Fence
      <3> QED
        BY <1>1, <2>1, <3>1, <3>2, <3>3, <3>4, AdvancedRises
    <2>2. CASE call[c].kind = "renew"
      <3>1. g = Renewed(s, call[c].expiry)
        BY <2>2 DEF NewFence
      <3> HIDE DEF g, s
      <3>2. s \in Fence /\ s.owner \in Nat
        BY <1>2 DEF s
      <3>3. g \in Fence /\ g.owner = s.owner /\ g.accepted = s.accepted
        BY <1>1, <3>1, <3>2, RenewedKeeps
      <3> QED
        BY <2>2, <3>2, <3>3
    <2> QED
      BY <1>1, <2>1, <2>2 DEF Fences
  <1> HIDE DEF g
  <1>4. object.body = Seen(c).body /\ object.fence = g
    BY <1>2 DEF g, Object
  <1>5. Floor(g)
    BY <1>1, <1>2, <1>3 DEF Floor, Fences
  <1>6. call[c].kind \notin Writes
    BY <1>1 DEF Fences, Writes
  <1> QED
    BY <1>1, <1>2, <1>3, <1>4, <1>5, <1>6 DEF Built

LEMMA PreparesSim ==
    ASSUME IInv, SimInv, Next, NEW c \in Clients, FillPhantom(c) \/ AdmitUpdate(c) \/ PrepareFence(c)
    PROVE  SimInv'
  <1>1. CASE FillPhantom(c)
    <2> DEFINE object == [Seen(c) EXCEPT !.body = call[c].body]
    <2>1. /\ pc[c] = "get" /\ Prepare(c, object, call[c].attempts + 1)
          /\ UNCHANGED <<leases, obj, late>>
      BY <1>1 DEF FillPhantom, In
    <2> HIDE DEF object
    <2>2. /\ Built([key |-> call[c].key, match |-> Seen(c), object |-> object], call[c].kind)
          /\ object.body = call[c].body /\ Seen(c).body = Prior(call[c])
          /\ call[c].kind = "create"
      BY <1>1, FillPhantomBuilt DEF object
    <2> QED
      BY <2>1, <2>2, PrepareSim
  <1>2. CASE AdmitUpdate(c)
    <2> DEFINE object == [body |-> call[c].body,
                          fence |-> [Seen(c).fence EXCEPT !.accepted = lease[c].fence]]
    <2>1. /\ pc[c] = "get" /\ Prepare(c, object, 0) /\ UNCHANGED <<leases, obj, late>>
      BY <1>2 DEF AdmitUpdate, In
    <2> HIDE DEF object
    <2>2. /\ Built([key |-> call[c].key, match |-> Seen(c), object |-> object], call[c].kind)
          /\ object.body = call[c].body /\ Seen(c).body = Prior(call[c])
          /\ call[c].kind = "update" /\ lease[c].fence = Seen(c).fence.owner
      BY <1>2, AdmitUpdateBuilt DEF object
    <2> QED
      BY <2>1, <2>2, PrepareSim
  <1>3. CASE PrepareFence(c)
    <2> DEFINE object == [Seen(c) EXCEPT !.fence = NewFence(c)]
    <2>1. /\ pc[c] = "get" /\ Prepare(c, object, call[c].attempts + 1)
          /\ UNCHANGED <<leases, obj, late>>
      BY <1>3 DEF PrepareFence, In
    <2> HIDE DEF object
    <2>2. /\ Built([key |-> call[c].key, match |-> Seen(c), object |-> object], call[c].kind)
          /\ call[c].kind \in Fences
      BY <1>3, PrepareFenceBuilt DEF object
    <2>3. call[c].kind \notin Writes
      BY <2>2 DEF Fences, Writes
    <2> QED
      BY <2>1, <2>2, <2>3, PrepareSim DEF Writes
  <1> QED
    BY <1>1, <1>2, <1>3

\* Steps that read, are refused or give up.
LEMMA ReadsSim ==
    ASSUME IInv, SimInv, Next, NEW c \in Clients,
           \/ ResolveCreate(c) \/ RefuseUpdate(c) \/ SettleReturns(c) \/ RenewSuperseded(c)
           \/ FenceGivesUp(c) \/ LoseFence(c) \/ SettlePolls(c) \/ RefusedRetries(c)
           \/ UpdateRefused(c)
    PROVE  SimInv'
  <1>1. UNCHANGED <<lease, obj, late>> /\ call[c] \in Call
    BY DEF leases, ResolveCreate, RefuseUpdate, SettleReturns, RenewSuperseded, FenceGivesUp,
           LoseFence, SettlePolls, RefusedRetries, UpdateRefused, IInv
  <1>2. \A k \in Keys : Floor(obj'[k].fence)
    BY <1>1 DEF SimInv
  <1>3. CASE Return(c)
    BY <1>1, <1>2, <1>3, ReturnSim
  <1>4. ASSUME NEW p \in {"get", "settle"}, NEW x, pc' = [pc EXCEPT ![c] = p],
               call' = [call EXCEPT ![c] = x], pc[c] # "idle",
               x.kind = call[c].kind, x.key = call[c].key, x.expected = call[c].expected
        PROVE  SimInv'
    <2>1. SendsOK(pc[c], call[c], lease[c])
      BY DEF SimInv
    <2>2. SendsOK(p, x, lease'[c])
      BY <1>1, <1>4, <2>1 DEF SendsOK, Prior
    <2> QED
      BY <1>1, <1>2, <1>4, <2>2, SimStep
  <1>5. CASE LoseFence(c)
    <2>1. pc' = [pc EXCEPT ![c] = "settle"] /\ call' = [call EXCEPT ![c] = call[c]] /\ pc[c] # "idle"
      BY <1>5 DEF LoseFence, Goto, In, IInv
    <2> QED
      BY <1>4, <2>1
  <1>6. CASE SettlePolls(c)
    <2> DEFINE x == [call[c] EXCEPT !.polls = call[c].polls + 1]
    <2>1. pc' = [pc EXCEPT ![c] = "settle"] /\ call' = [call EXCEPT ![c] = x] /\ pc[c] # "idle"
      BY <1>6 DEF SettlePolls, In, IInv
    <2>2. x.kind = call[c].kind /\ x.key = call[c].key /\ x.expected = call[c].expected
      BY <1>1 DEF Call
    <2> HIDE DEF x
    <2> QED
      BY <1>4, <2>1, <2>2
  <1>7. CASE RefusedRetries(c) \/ UpdateRefused(c)
    <2> DEFINE x == [call[c] EXCEPT !.put = NoPut]
    <2>1. PICK p \in {"get", "settle"} :
            pc' = [pc EXCEPT ![c] = p] /\ call' = [call EXCEPT ![c] = x] /\ pc[c] # "idle"
      BY <1>7 DEF RefusedRetries, UpdateRefused, Goto, In
    <2>2. x.kind = call[c].kind /\ x.key = call[c].key /\ x.expected = call[c].expected
      BY <1>1 DEF Call
    <2> HIDE DEF x
    <2> QED
      BY <1>4, <2>1, <2>2
  <1> QED
    BY <1>3, <1>5, <1>6, <1>7 DEF ResolveCreate, RefuseUpdate, SettleReturns, RenewSuperseded,
       FenceGivesUp

\* The PUT lands, or fails and may be late.
LEMMA AnsweredSim ==
    ASSUME IInv, SimInv, Next, NEW c \in Clients,
           WriteLands(c) \/ LockLands(c) \/ RenewLands(c) \/ WriteFails(c) \/ FenceFails(c)
    PROVE  SimInv'
  <1>1. pc[c] = "put" /\ Return(c) /\ PutOK(call[c].put) /\ Built(call[c].put, call[c].kind)
    BY SentPut DEF WriteLands, LockLands, RenewLands, WriteFails, FenceFails, In, SimInv, SendsOK
  <1>2. \A d \in Clients \ {c} : lease'[d] = lease[d]
    BY DEF WriteLands, LockLands, RenewLands, WriteFails, FenceFails, leases, Granted, IInv, LeasesOK
  <1>3. CASE WriteLands(c) \/ LockLands(c) \/ RenewLands(c)
    <2>1. Lands(call[c].put) /\ late' = late
      BY <1>3 DEF WriteLands, LockLands, RenewLands
    <2>2. \A k \in Keys : Floor(obj'[k].fence)
      BY <1>1, <2>1, FloorsStay
    <2> QED
      BY <1>1, <1>2, <2>1, <2>2, ReturnSim
  <1>4. CASE WriteFails(c) \/ FenceFails(c)
    <2>1. obj' = obj /\ \E phase \in {"connect", "send", "answer"} : Fails(c, phase)
      BY <1>4 DEF WriteFails, FenceFails
    <2>2. \A m \in late' : m \in late \/ (m.put = call[c].put /\ m.kind = call[c].kind)
      BY <2>1 DEF Fails
    <2>3. \A k \in Keys : Floor(obj'[k].fence)
      BY <2>1 DEF SimInv
    <2> QED
      BY <1>1, <1>2, <2>2, <2>3, ReturnSim
  <1> QED
    BY <1>3, <1>4

\* unlock(), the clock and stuttering.
LEMMA IdleSim == ASSUME SimInv, UNCHANGED <<lease, obj, pc, call, late>> PROVE SimInv'
  BY DEF SimInv

LEMMA LateLandsSim == ASSUME IInv, SimInv, Next, LateLands PROVE SimInv'
  <1>1. PICK m \in late : Lands(m.put) /\ late' = late \ {m}
    BY DEF LateLands
  <1>2. UNCHANGED <<lease, pc, call>>
    BY DEF LateLands, leases
  <1>3. PutOK(m.put) /\ Built(m.put, m.kind)
    BY DEF IInv, LateOK, SimInv
  <1>4. \A k \in Keys : Floor(obj'[k].fence)
    BY <1>1, <1>3, FloorsStay
  <1>5. \A d \in Clients : SendsOK(pc'[d], call'[d], lease'[d])
    BY <1>2 DEF SimInv
  <1>6. \A d \in Clients : pc'[d] = "put" => Old(call'[d].put, obj')
    BY <1>2, OldStays, PutsAre DEF SimInv
  <1>7. \A x \in late' : Built(x.put, x.kind) /\ Old(x.put, obj')
    BY <1>1, OldStays, PutsAre DEF SimInv
  <1> QED
    BY <1>4, <1>5, <1>6, <1>7 DEF SimInv

\* What a crash does to the clients of a process and to the PUTs.
LEMMA Crashed ==
    ASSUME IInv, NEW i \in Instances, Crash(i)
    PROVE  /\ obj' = obj
           /\ \A d \in Clients :
                /\ Caller(d) = i => pc'[d] = "idle" /\ call'[d] = NoCall /\ lease'[d] = NoLease
                /\ Caller(d) # i => pc'[d] = pc[d] /\ call'[d] = call[d] /\ lease'[d] = lease[d]
           /\ \A m \in late' : \/ m \in late
                               \/ \E c \in Clients : /\ Caller(c) = i /\ pc[c] = "put"
                                                     /\ m.put = call[c].put /\ m.kind = call[c].kind
  <1> DEFINE gone == {c \in Clients : Caller(c) = i}
  <1>1. /\ late' = late \cup {[put |-> call[c].put, kind |-> call[c].kind, told |-> "crash"] :
                              c \in {x \in gone : pc[x] = "put"}}
        /\ pc' = [c \in Clients |-> IF c \in gone THEN "idle" ELSE pc[c]]
        /\ call' = [c \in Clients |-> IF c \in gone THEN NoCall ELSE call[c]]
        /\ lease' = [c \in Clients |-> IF Caller(c) = i THEN NoLease ELSE lease[c]]
        /\ obj' = obj
    BY DEF Crash, Forgotten
  <1>2. ASSUME NEW m \in late', m \notin late
        PROVE  \E c \in Clients : /\ Caller(c) = i /\ pc[c] = "put"
                                  /\ m.put = call[c].put /\ m.kind = call[c].kind
    BY <1>1, <1>2
  <1> QED
    BY <1>1, <1>2

LEMMA CrashSim == ASSUME IInv, SimInv, NEW i \in Instances, Crash(i) PROVE SimInv'
  <1>1. /\ obj' = obj
        /\ \A d \in Clients :
             /\ Caller(d) = i => pc'[d] = "idle" /\ call'[d] = NoCall /\ lease'[d] = NoLease
             /\ Caller(d) # i => pc'[d] = pc[d] /\ call'[d] = call[d] /\ lease'[d] = lease[d]
        /\ \A m \in late' : \/ m \in late
                            \/ \E c \in Clients : /\ Caller(c) = i /\ pc[c] = "put"
                                                  /\ m.put = call[c].put /\ m.kind = call[c].kind
    BY Crashed
  <1>2. ASSUME NEW d \in Clients
        PROVE  SendsOK(pc'[d], call'[d], lease'[d]) /\ (pc'[d] = "put" => Old(call'[d].put, obj'))
    <2>1. CASE Caller(d) = i
      BY <1>1, <2>1 DEF SendsOK
    <2>2. CASE Caller(d) # i
      BY <1>1, <2>2 DEF SimInv
    <2> QED
      BY <2>1, <2>2
  <1>3. ASSUME NEW m \in late' PROVE Built(m.put, m.kind) /\ Old(m.put, obj')
    BY <1>1, <1>3 DEF SimInv, SendsOK
  <1> QED
    BY <1>1, <1>2, <1>3 DEF SimInv

LEMMA NextSim == ASSUME IInv, SimInv, [Next]_vars PROVE SimInv'
  <1>1. ASSUME Next, NEW c \in Clients, Begin(c) PROVE SimInv'
    <2>1. CASE Unlock(c)
      BY <2>1, IdleSim DEF Unlock, Released
    <2> QED
      BY <1>1, <2>1, BeginSim DEF Begin
  <1>2. ASSUME Next, NEW c \in Clients, Continue(c) PROVE SimInv'
    BY <1>2, PreparesSim, ReadsSim, AnsweredSim DEF Continue
  <1>3. ASSUME Tick \/ UNCHANGED vars PROVE SimInv'
    BY <1>3, IdleSim DEF Tick, vars, leases
  <1>4. CASE UNCHANGED vars
    BY <1>3, <1>4
  <1>5. CASE Next
    BY <1>1, <1>2, <1>3, <1>5, LateLandsSim, CrashSim DEF Next
  <1> QED
    BY <1>4, <1>5

LEMMA InitSim == ASSUME Init PROVE SimInv
  <1>1. /\ obj = [k \in Keys |-> NoObject] /\ late = {}
        /\ \A c \in Clients : pc[c] = "idle"
    BY DEF Init
  <1> QED
    BY <1>1 DEF SimInv, SendsOK, NoObject, NoFence, Floor

-----------------------------------------------------------------------------
(***************************************************************************)
(* Every step is a step of the contract, or none.                          *)
(***************************************************************************)
\* The client's write in the contract, while its PUT is on its way.
OpenWrite(c) == [key |-> call[c].key, body |-> call[c].body, prior |-> Prior(call[c]),
                 fenced |-> call[c].kind = "update"]

SameValues == \A k \in Keys : obj'[k].body = obj[k].body
SameFences == \A k \in Keys : obj'[k].fence.owner = obj[k].fence.owner
SameLeases == \A c \in Clients : lease'[c].key = lease[c].key /\ lease'[c].fence = lease[c].fence
SameOps    == \A c \in Clients : OpOf(c)' = OpOf(c)

LEMMA Dropped ==
    ASSUME SameValues, SameFences, SameLeases, SameOps, Orphans' \subseteq Orphans
    PROVE  Contract!OrphansAreDropped
  BY DEF SameValues, SameFences, SameLeases, SameOps, Contract!OrphansAreDropped

\* Only a client whose PUT is on its way has an open write.
LEMMA OpenOnly ==
    ASSUME NEW c
    PROVE  /\ In(c, "put", Writes) => OpOf(c) = [stage |-> "open", write |-> OpenWrite(c)]
           /\ ~In(c, "put", Writes) => OpOf(c) = [stage |-> "idle"]
  BY DEF OpOf, OpenWrite, Prior

LEMMA OthersOps ==
    ASSUME NEW c, pc'[c] = pc[c], call'[c] = call[c] PROVE OpOf(c)' = OpOf(c)
  BY DEF OpOf, In

\* A client that neither was nor is writing.
LEMMA NotWriting ==
    ASSUME NEW c \in Clients, ~In(c, "put", Writes), ~In(c, "put", Writes)',
           \A d \in Clients \ {c} : pc'[d] = pc[d] /\ call'[d] = call[d]
    PROVE  SameOps
  <1> SUFFICES ASSUME NEW d \in Clients PROVE OpOf(d)' = OpOf(d)
    BY DEF SameOps
  <1>1. CASE d = c
    BY <1>1 DEF OpOf
  <1>2. CASE d # c
    BY <1>2, OthersOps
  <1> QED
    BY <1>1, <1>2

\* Late writes become no more while the fences stay.
LEMMA OrphansStay ==
    ASSUME IInv, SameFences, \A m \in late' : m \in late \/ m.kind \notin Writes
    PROVE  Orphans' \subseteq Orphans
  <1> SUFFICES ASSUME NEW m \in late', m.kind \in Writes,
                      m.put.match.fence.owner = obj'[m.put.key].fence.owner
               PROVE  WriteOf(m.put, m.kind) \in Orphans
    BY DEF Orphans, WriteOf
  <1>1. m \in late /\ m.put.key \in Keys
    BY PutsAre DEF Put
  <1>2. m.put.match.fence.owner = obj[m.put.key].fence.owner
    BY <1>1 DEF SameFences
  <1> QED
    BY <1>1, <1>2 DEF Orphans

\* A lock() of key k takes the right to land from every late write of k.
LEMMA OrphansOutrun ==
    ASSUME IInv, SimInv, NEW k \in Keys, late' \subseteq late,
           \A j \in Keys : obj'[j].fence.owner = IF j = k THEN obj[k].fence.owner + 1
                                                 ELSE obj[j].fence.owner
    PROVE  Orphans' \subseteq {o \in Orphans : o.key # k}
  <1> SUFFICES ASSUME NEW o \in Orphans' PROVE o \in Orphans /\ o.key # k
    OBVIOUS
  <1>0. PICK m \in late' : /\ m.kind \in Writes /\ o = WriteOf(m.put, m.kind)
                          /\ m.put.match.fence.owner = obj'[m.put.key].fence.owner
    BY DEF Orphans, WriteOf
  <1>1. /\ m \in late /\ m.put.key \in Keys /\ m.put.match.fence.owner \in Nat
        /\ obj[m.put.key].fence.owner \in Nat /\ Old(m.put, obj)
    BY PutsAre DEF Put, SimInv, IInv, Object, Fence
  <1>2. m.put.key # k
    BY <1>0, <1>1 DEF Old
  <1>3. m.put.match.fence.owner = obj[m.put.key].fence.owner
    BY <1>0, <1>1, <1>2
  <1>4. o.key = m.put.key
    BY <1>0 DEF WriteOf
  <1> QED
    BY <1>0, <1>1, <1>2, <1>3, <1>4 DEF Orphans

\* The call of c, alone, becomes x at place p.
LEMMA OpBecomes ==
    ASSUME IInv, NEW c \in Clients, NEW p \in Labels, NEW x,
           pc' = [pc EXCEPT ![c] = p], call' = [call EXCEPT ![c] = x]
    PROVE  /\ pc'[c] = p /\ call'[c] = x
           /\ \A d \in Clients \ {c} : pc'[d] = pc[d] /\ call'[d] = call[d]
           /\ [d \in Clients |-> OpOf(d)]'
                = [[d \in Clients |-> OpOf(d)] EXCEPT ![c] = OpOf(c)']
  <1>1. /\ pc'[c] = p /\ call'[c] = x
        /\ \A d \in Clients \ {c} : pc'[d] = pc[d] /\ call'[d] = call[d]
    BY DEF IInv
  <1>2. \A d \in Clients : OpOf(d)' = IF d = c THEN OpOf(c)' ELSE OpOf(d)
    BY <1>1, OthersOps
  <1> QED
    BY <1>1, <1>2

\* The steps that change neither an envelope nor an open write.
LEMMA QuietImpl ==
    ASSUME IInv, NEW c \in Clients,
           \/ BeginUpdate(c) \/ BeginLock(c) \/ BeginRenew(c) \/ Unlock(c)
           \/ ResolveCreate(c) \/ RefuseUpdate(c) \/ LoseFence(c) \/ SettleReturns(c)
           \/ SettlePolls(c) \/ PrepareFence(c) \/ RenewSuperseded(c)
           \/ RefusedRetries(c) /\ call[c].kind \in Fences
           \/ FenceGivesUp(c) \/ FenceFails(c)
    PROVE  Contract!OrphansAreDropped
  <1>1. /\ ~In(c, "put", Writes)
        /\ obj' = obj /\ lease' = lease
    BY DEF BeginUpdate, BeginLock, BeginRenew, Unlock, Released, ResolveCreate, RefuseUpdate,
           LoseFence, SettleReturns, SettlePolls, PrepareFence, RenewSuperseded, RefusedRetries,
           FenceGivesUp, FenceFails, In, Writes, Fences, leases
  <1>2. ~In(c, "put", Writes)' /\ \A d \in Clients \ {c} : pc'[d] = pc[d] /\ call'[d] = call[d]
    <2>1. CASE BeginUpdate(c) \/ BeginLock(c) \/ BeginRenew(c)
      BY <2>1 DEF BeginUpdate, BeginLock, BeginRenew, Goto, In, IInv
    <2>2. CASE Unlock(c)
      BY <2>2 DEF Unlock, In
    <2>3. CASE Return(c)
      BY <2>3 DEF Return, Goto, In, IInv
    <2>4. CASE LoseFence(c) \/ SettlePolls(c) \/ RefusedRetries(c)
      BY <2>4 DEF LoseFence, SettlePolls, RefusedRetries, Goto, In, IInv
    <2>5. CASE PrepareFence(c)
      <3>1. PICK x : /\ call' = [call EXCEPT ![c] = x] /\ pc' = [pc EXCEPT ![c] = "put"]
                     /\ x.kind = call[c].kind
        <4>1. PICK object, attempts : Prepare(c, object, attempts)
          BY <2>5 DEF PrepareFence
        <4> QED
          BY <4>1, Prepared
      <3>2. call'[c] = x /\ x.kind \in Fences
        BY <2>5, <3>1 DEF PrepareFence, In, IInv
      <3> QED
        BY <3>1, <3>2 DEF In, Fences, Writes
    <2> QED
      BY <2>1, <2>2, <2>3, <2>4, <2>5 DEF ResolveCreate, RefuseUpdate, SettleReturns,
         RenewSuperseded, FenceGivesUp, FenceFails
  <1>3. \A m \in late' : m \in late \/ m.kind \notin Writes
    <2>1. CASE FenceFails(c)
      <3>1. call[c].kind \notin Writes
        BY <2>1 DEF FenceFails, In, Fences, Writes
      <3> QED
        BY <2>1, <3>1 DEF FenceFails, Fails
    <2>2. CASE ~FenceFails(c)
      <3>1. late' = late
        BY <2>2 DEF BeginUpdate, BeginLock, BeginRenew, Unlock, ResolveCreate, RefuseUpdate,
           LoseFence, SettleReturns, SettlePolls, PrepareFence, RenewSuperseded, RefusedRetries,
           FenceGivesUp
      <3> QED
        BY <3>1
    <2> QED
      BY <2>1, <2>2
  <1>4. SameValues /\ SameFences /\ SameLeases
    BY <1>1 DEF SameValues, SameFences, SameLeases
  <1> QED
    BY <1>1, <1>2, <1>3, <1>4, NotWriting, OrphansStay, Dropped

\* A write begins when its PUT is prepared.
LEMMA OpensWrite ==
    ASSUME IInv, SimInv, NEW c \in Clients, NEW x, ~In(c, "put", Writes),
           pc' = [pc EXCEPT ![c] = "put"], call' = [call EXCEPT ![c] = x],
           x.kind \in Writes, x.key \in Keys, x.body \in Bodies,
           Prior(x) \in Bodies \cup {Absent}, UNCHANGED <<leases, obj, late>>
    PROVE  Contract!BeginWrite(c)
  <1> DEFINE ops == [d \in Clients |-> OpOf(d)]
  <1>1. /\ pc'[c] = "put" /\ call'[c] = x /\ ops' = [ops EXCEPT ![c] = OpOf(c)']
    BY OpBecomes DEF Labels
  <1>2. PICK w : w = [key |-> x.key, body |-> x.body, prior |-> Prior(x),
                      fenced |-> x.kind = "update"]
    OBVIOUS
  <1>3. w \in Contract!Write
    BY <1>2 DEF Contract!Write
  <1>4. OpOf(c)' = Contract!Open(w) /\ ops[c] = Contract!Idle
    <2>1. In(c, "put", Writes)'
      BY <1>1 DEF In
    <2>2. OpOf(c)' = [stage |-> "open", write |-> w]
      BY <1>1, <1>2, <2>1 DEF OpOf, Prior
    <2> QED
      BY <2>2, OpenOnly DEF Contract!Open, Contract!Idle
  <1>5. lease' = lease /\ Orphans' = Orphans
    BY DEF leases, Orphans
  <1> QED
    BY <1>1, <1>3, <1>4, <1>5 DEF Contract!BeginWrite

LEMMA OpensImpl ==
    ASSUME IInv, SimInv, NEW c \in Clients, BeginCreate(c) \/ FillPhantom(c) \/ AdmitUpdate(c)
    PROVE  Contract!BeginWrite(c)
  <1>1. CASE BeginCreate(c)
    <2>1. PICK x : /\ call' = [call EXCEPT ![c] = x] /\ pc' = [pc EXCEPT ![c] = "put"]
                   /\ x.kind = "create" /\ x.key \in Keys /\ x.body \in Bodies
      BY <1>1, BegunCreate
    <2>2. ~In(c, "put", Writes) /\ UNCHANGED <<leases, obj, late>>
      BY <1>1 DEF BeginCreate, In
    <2> QED
      BY <2>1, <2>2, OpensWrite DEF Writes, Prior
  <1>2. CASE FillPhantom(c) \/ AdmitUpdate(c)
    <2>1. PICK x : /\ call' = [call EXCEPT ![c] = x] /\ pc' = [pc EXCEPT ![c] = "put"]
                   /\ x.kind = call[c].kind /\ x.key = call[c].key /\ x.body = call[c].body
                   /\ x.expected = call[c].expected
      <3>1. PICK object, attempts : Prepare(c, object, attempts)
        BY <1>2 DEF FillPhantom, AdmitUpdate
      <3> QED
        BY <3>1, Prepared
    <2>2. /\ pc[c] = "get" /\ call[c].kind \in Writes /\ UNCHANGED <<leases, obj, late>>
      BY <1>2 DEF FillPhantom, AdmitUpdate, In, Writes
    <2>3. /\ call[c].key \in Keys /\ call[c].body \in Bodies
          /\ Prior(call[c]) \in Bodies \cup {Absent}
      BY <2>2 DEF IInv, CallOK, SimInv, SendsOK
    <2>4. Prior(x) = Prior(call[c]) /\ ~In(c, "put", Writes)
      BY <2>1, <2>2 DEF Prior, In
    <2> QED
      BY <2>1, <2>2, <2>3, <2>4, OpensWrite
  <1> QED
    BY <1>1, <1>2

\* The open write of a client that puts.
LEMMA PutFacts ==
    ASSUME IInv, SimInv, NEW c \in Clients, In(c, "put", Writes)
    PROVE  LET put == call[c].put w == OpenWrite(c) IN
           /\ PutOK(put) /\ Built(put, call[c].kind) /\ w = WriteOf(put, call[c].kind)
           /\ put.key = w.key /\ put.object.body = w.body /\ put.match.body = w.prior
           /\ w \in Contract!Write
           /\ w.fenced => lease[c].key = w.key /\ lease[c].fence = put.match.fence.owner
  <1>1. /\ pc[c] = "put" /\ call[c].kind \in Writes /\ call[c].key \in Keys
        /\ call[c].body \in Bodies /\ PutOK(call[c].put)
        /\ SendsOK(pc[c], call[c], lease[c])
    BY DEF In, SimInv, IInv, CallOK
  <1> QED
    BY <1>1 DEF SendsOK, OpenWrite, WriteOf, Contract!Write, Prior

\* A client that returns has no open write.
LEMMA ReturnOps ==
    ASSUME IInv, NEW c \in Clients, Return(c)
    PROVE  [d \in Clients |-> OpOf(d)]'
             = [[d \in Clients |-> OpOf(d)] EXCEPT ![c] = [stage |-> "idle"]]
  <1>1. /\ pc'[c] = "idle"
        /\ [d \in Clients |-> OpOf(d)]' = [[d \in Clients |-> OpOf(d)] EXCEPT ![c] = OpOf(c)']
    BY OpBecomes DEF Return, Goto, Labels
  <1>2. OpOf(c)' = [stage |-> "idle"]
    BY <1>1 DEF OpOf, In
  <1> QED
    BY <1>1, <1>2

\* What a write that lands does to the values and the fences.
LEMMA LandedWrite ==
    ASSUME IInv, NEW put, NEW kind \in Writes, PutOK(put), Built(put, kind), Lands(put)
    PROVE  LET w == WriteOf(put, kind) IN
           /\ w.key \in Keys /\ obj[w.key].body = w.prior
           /\ [k \in Keys |-> obj[k].body]' = [[k \in Keys |-> obj[k].body] EXCEPT ![w.key] = w.body]
           /\ SameFences
  <1>1. /\ put.key \in Keys /\ obj[put.key] = put.match
        /\ \A k \in Keys : obj'[k] = IF k = put.key THEN put.object ELSE obj[k]
    BY DEF IInv, PutOK, Put, Lands, Matches
  <1>2. SameFences
    BY <1>1 DEF SameFences, Built
  <1> QED
    BY <1>1, <1>2 DEF WriteOf

LEMMA WriteLandsImpl ==
    ASSUME IInv, SimInv, NEW c \in Clients, WriteLands(c) PROVE Contract!Land(c)
  <1> DEFINE put == call[c].put
             w == OpenWrite(c)
             ops == [d \in Clients |-> OpOf(d)]
             vs == [k \in Keys |-> obj[k].body]
             fs == [k \in Keys |-> obj[k].fence.owner]
             ls == [d \in Clients |-> [key |-> lease[d].key, fence |-> lease[d].fence]]
  <1>1. In(c, "put", Writes) /\ Lands(put) /\ Return(c) /\ lease' = lease /\ late' = late
    BY DEF WriteLands, leases
  <1>2. ops[c] = [stage |-> "open", write |-> w] /\ ops' = [ops EXCEPT ![c] = [stage |-> "idle"]]
    BY <1>1, OpenOnly, ReturnOps
  <1>3. /\ PutOK(put) /\ Built(put, call[c].kind) /\ w = WriteOf(put, call[c].kind)
        /\ put.key = w.key
        /\ w.fenced => lease[c].key = w.key /\ lease[c].fence = put.match.fence.owner
    BY <1>1, PutFacts
  <1>4. call[c].kind \in Writes /\ obj[w.key] = put.match
    BY <1>1, <1>3 DEF In, Lands, Matches
  <1>5. /\ w.key \in Keys /\ vs[w.key] = w.prior
        /\ vs' = [vs EXCEPT ![w.key] = w.body] /\ SameFences
    <2>1. PICK q, kind : q = put /\ kind = call[c].kind
      OBVIOUS
    <2>2. PICK v : v = WriteOf(q, kind)
      OBVIOUS
    <2>3. PutOK(q) /\ Built(q, kind) /\ Lands(q) /\ kind \in Writes
      BY <1>1, <1>3, <1>4, <2>1
    <2>4. /\ v.key \in Keys /\ obj[v.key].body = v.prior
          /\ vs' = [vs EXCEPT ![v.key] = v.body] /\ SameFences
      BY <2>2, <2>3, LandedWrite
    <2> QED
      BY <1>3, <2>1, <2>2, <2>4
  <1>6. fs' = fs /\ ls' = ls
    BY <1>1, <1>5 DEF SameFences
  <1>7. w.fenced => ls[c] = [key |-> w.key, fence |-> fs[w.key]]
    BY <1>3, <1>4, <1>5
  <1>8. Orphans' \subseteq Orphans
    BY <1>1, <1>5, OrphansStay
  <1> HIDE DEF w
  <1>9. Contract!IsOpen(c) /\ Contract!FenceOk(c, w) /\ Contract!Outlive(w.key) = Orphans
    BY <1>2, <1>5, <1>7 DEF Contract!IsOpen, Contract!FenceOk, Contract!Outlive
  <1> QED
    BY <1>2, <1>5, <1>6, <1>8, <1>9 DEF Contract!Land, Contract!Idle

\* 412: the write is refused, whatever its caller does next.
LEMMA RefusedImpl ==
    ASSUME IInv, NEW c \in Clients,
           (RefusedRetries(c) /\ call[c].kind \notin Fences) \/ UpdateRefused(c)
    PROVE  Contract!Return(c)
  <1> DEFINE ops == [d \in Clients |-> OpOf(d)]
  <1>1. In(c, "put", Writes) /\ UNCHANGED <<obj, late, lease>>
    BY DEF RefusedRetries, UpdateRefused, In, Writes, Fences, leases
  <1>2. PICK p, x :
          p \in {"get", "settle"} /\ pc' = [pc EXCEPT ![c] = p] /\ call' = [call EXCEPT ![c] = x]
    BY DEF RefusedRetries, UpdateRefused, Goto
  <1>3. pc'[c] = p /\ ops' = [ops EXCEPT ![c] = OpOf(c)']
    BY <1>2, OpBecomes DEF Labels
  <1>4. OpOf(c)' = [stage |-> "idle"]
    BY <1>2, <1>3 DEF OpOf, In
  <1>5. ops[c] = [stage |-> "open", write |-> OpenWrite(c)]
    BY <1>1, OpenOnly
  <1>6. Orphans' = Orphans
    BY <1>1 DEF Orphans
  <1> QED
    BY <1>1, <1>3, <1>4, <1>5, <1>6 DEF Contract!Return, Contract!Idle

\* The PUT never arrives, or is late.
LEMMA WriteFailsImpl ==
    ASSUME IInv, SimInv, NEW c \in Clients, WriteFails(c) PROVE Contract!Abandon(c)
  <1> DEFINE ops == [d \in Clients |-> OpOf(d)]
             w == OpenWrite(c)
  <1>1. /\ In(c, "put", Writes) /\ Return(c) /\ obj' = obj /\ lease' = lease
        /\ \A m \in late' : m \in late \/ (m.put = call[c].put /\ m.kind = call[c].kind)
    BY DEF WriteFails, Fails, leases
  <1>2. /\ ops[c] = [stage |-> "open", write |-> w]
        /\ ops' = [ops EXCEPT ![c] = [stage |-> "idle"]]
    BY <1>1, OpenOnly, ReturnOps
  <1>3. w = WriteOf(call[c].put, call[c].kind)
    BY <1>1, PutFacts
  <1>4. Orphans' \subseteq Orphans \cup {w}
    BY <1>1, <1>3 DEF Orphans
  <1> HIDE DEF w
  <1> QED
    BY <1>1, <1>2, <1>4 DEF Contract!Abandon, Contract!IsOpen, Contract!Idle

\* A client that leaves lock() or renew() was writing neither before nor after.
LEMMA FencingReturns ==
    ASSUME IInv, NEW c \in Clients, In(c, "put", Fences), Return(c) PROVE SameOps
  <1>1. /\ ~In(c, "put", Writes) /\ ~In(c, "put", Writes)'
        /\ \A d \in Clients \ {c} : pc'[d] = pc[d] /\ call'[d] = call[d]
    BY DEF In, Writes, Fences, Return, Goto, IInv
  <1> QED
    BY <1>1, NotWriting

\* What lock() or renew() that lands does to the values and the fences.
LEMMA LandedFence ==
    ASSUME IInv, NEW put, NEW kind \in Fences, PutOK(put), Built(put, kind), Lands(put)
    PROVE  /\ put.key \in Keys /\ SameValues
           /\ put.object.fence.owner = obj[put.key].fence.owner + (IF kind = "lock" THEN 1 ELSE 0)
           /\ obj[put.key].fence.owner \in Nat
           /\ kind = "lock" => \A j \in Keys :
                obj'[j].fence.owner = IF j = put.key THEN obj[put.key].fence.owner + 1
                                      ELSE obj[j].fence.owner
           /\ kind = "renew" => SameFences
  <1>1. /\ put.key \in Keys /\ obj[put.key] = put.match /\ obj[put.key].fence.owner \in Nat
        /\ \A k \in Keys : obj'[k] = IF k = put.key THEN put.object ELSE obj[k]
    BY DEF IInv, PutOK, Put, Lands, Matches, Object, Fence
  <1> QED
    BY <1>1 DEF SameFences, SameValues, Built

LEMMA LockLandsImpl ==
    ASSUME IInv, SimInv, NEW c \in Clients, LockLands(c) PROVE Contract!Lock(c)
  <1> DEFINE fs == [j \in Keys |-> obj[j].fence.owner]
             vs == [j \in Keys |-> obj[j].body]
             ls == [d \in Clients |-> [key |-> lease[d].key, fence |-> lease[d].fence]]
             ops == [d \in Clients |-> OpOf(d)]
  <1>1. PICK put, k : put = call[c].put /\ k = call[c].key
    OBVIOUS
  <1>2. /\ In(c, "put", Fences) /\ call[c].kind = "lock" /\ Return(c) /\ Lands(put) /\ late' = late
        /\ lease' = [lease EXCEPT ![c] = [key |-> k, token |-> call[c].token,
                                          fence |-> put.object.fence.owner]]
    BY <1>1 DEF LockLands, Granted, In, Fences
  <1>3. PutOK(put) /\ put.key = k /\ Built(put, "lock") /\ "lock" \in Fences
    BY <1>1, <1>2, SentPut DEF In, SimInv, SendsOK, Fences
  <1>4. /\ k \in Keys /\ SameValues
        /\ put.object.fence.owner = obj[k].fence.owner + 1
        /\ \A j \in Keys : obj'[j].fence.owner = IF j = k THEN obj[k].fence.owner + 1
                                                 ELSE obj[j].fence.owner
    BY <1>2, <1>3, LandedFence
  <1>5. fs' = [fs EXCEPT ![k] = fs[k] + 1] /\ vs' = vs
    BY <1>4 DEF SameValues
  <1>6. ls' = [ls EXCEPT ![c] = [key |-> k, fence |-> fs[k] + 1]]
    <2>1. /\ lease'[c].key = k /\ lease'[c].fence = obj[k].fence.owner + 1
          /\ \A d \in Clients \ {c} : lease'[d] = lease[d]
      BY <1>2, <1>4 DEF IInv, LeasesOK
    <2> QED
      BY <1>4, <2>1
  <1>7. ops' = ops /\ ops[c] = [stage |-> "idle"]
    <2>1. SameOps
      BY <1>2, FencingReturns
    <2>2. ~In(c, "put", Writes)
      BY <1>2 DEF In, Fences, Writes
    <2> QED
      BY <2>1, <2>2, OpenOnly DEF SameOps
  <1>8. Orphans' \subseteq Contract!Outrun(k)
    BY <1>2, <1>4, OrphansOutrun DEF Contract!Outrun
  <1> QED
    BY <1>4, <1>5, <1>6, <1>7, <1>8 DEF Contract!Lock, Contract!Idle

LEMMA RenewLandsImpl ==
    ASSUME IInv, SimInv, NEW c \in Clients, RenewLands(c) PROVE Contract!OrphansAreDropped
  <1>1. PICK put : put = call[c].put
    OBVIOUS
  <1>2. /\ In(c, "put", Fences) /\ call[c].kind = "renew" /\ Return(c) /\ Lands(put)
        /\ UNCHANGED <<late, lease>>
    BY <1>1 DEF RenewLands, In, Fences
  <1>3. PutOK(put) /\ Built(put, "renew") /\ "renew" \in Fences
    BY <1>1, <1>2, SentPut DEF In, SimInv, SendsOK, Fences
  <1>4. SameValues /\ SameFences
    BY <1>2, <1>3, LandedFence
  <1>5. SameOps /\ SameLeases
    BY <1>2, FencingReturns DEF SameLeases
  <1>6. Orphans' \subseteq Orphans
    BY <1>2, <1>4, OrphansStay
  <1> QED
    BY <1>4, <1>5, <1>6, Dropped

\* A late PUT lands: a write of nobody, or a lock() or renew() of nobody.
LEMMA LateLandsImpl ==
    ASSUME IInv, SimInv, LateLands
    PROVE  Contract!OrphanLands \/ Contract!LockUnanswered \/ Contract!OrphansAreDropped
  <1> DEFINE fs == [j \in Keys |-> obj[j].fence.owner]
             vs == [j \in Keys |-> obj[j].body]
             ls == [d \in Clients |-> [key |-> lease[d].key, fence |-> lease[d].fence]]
             ops == [d \in Clients |-> OpOf(d)]
  <1>1. PICK m \in late : Lands(m.put) /\ late' = late \ {m}
    BY DEF LateLands
  <1>2. PutOK(m.put) /\ Built(m.put, m.kind) /\ m.kind \in Writes \cup Fences
    BY DEF IInv, LateOK, SimInv
  <1>3. ops' = ops /\ ls' = ls /\ SameOps /\ SameLeases
    BY OthersOps DEF LateLands, leases, SameOps, SameLeases
  <1>4. CASE m.kind \in Writes
    <2> DEFINE o == WriteOf(m.put, m.kind)
    <2>1. /\ o.key \in Keys /\ vs[o.key] = o.prior
          /\ vs' = [vs EXCEPT ![o.key] = o.body] /\ SameFences
      BY <1>1, <1>2, <1>4, LandedWrite
    <2>2. o \in Orphans
      BY <1>1, <1>4 DEF Orphans, Lands, Matches
    <2>3. Orphans' \subseteq Orphans
      BY <1>1, <2>1, OrphansStay
    <2>4. fs' = fs
      BY <2>1 DEF SameFences
    <2> HIDE DEF o
    <2>5. Contract!Outlive(o.key) = Orphans
      BY DEF Contract!Outlive
    <2> QED
      BY <1>3, <2>1, <2>2, <2>3, <2>4, <2>5 DEF Contract!OrphanLands
  <1>5. CASE m.kind = "lock"
    <2>1. PICK k : k = m.put.key
      OBVIOUS
    <2>2. /\ k \in Keys /\ SameValues
          /\ \A j \in Keys : obj'[j].fence.owner = IF j = k THEN obj[k].fence.owner + 1
                                                   ELSE obj[j].fence.owner
      BY <1>1, <1>2, <1>5, <2>1, LandedFence DEF Fences
    <2>3. fs' = [fs EXCEPT ![k] = fs[k] + 1] /\ vs' = vs
      BY <2>2 DEF SameValues
    <2>4. Orphans' \subseteq Contract!Outrun(k)
      BY <1>1, <2>2, OrphansOutrun DEF Contract!Outrun
    <2> QED
      BY <1>3, <2>2, <2>3, <2>4 DEF Contract!LockUnanswered
  <1>6. CASE m.kind = "renew"
    <2>1. SameValues /\ SameFences
      BY <1>1, <1>2, <1>6, LandedFence DEF Fences
    <2>2. Orphans' \subseteq Orphans
      BY <1>1, <2>1, OrphansStay
    <2> QED
      BY <1>3, <2>1, <2>2, Dropped
  <1> QED
    BY <1>2, <1>4, <1>5, <1>6 DEF Fences

\* A process dies: its open writes may land later, its leases are gone.
LEMMA CrashImpl ==
    ASSUME IInv, SimInv, NEW i \in Instances, Crash(i)
    PROVE  Contract!Crash \/ Contract!OrphansAreDropped
  <1> DEFINE dead == {c \in Clients : Caller(c) = i}
             ops == [d \in Clients |-> OpOf(d)]
             vs == [k \in Keys |-> obj[k].body]
             fs == [k \in Keys |-> obj[k].fence.owner]
             ls == [d \in Clients |-> [key |-> lease[d].key, fence |-> lease[d].fence]]
             lost == Orphans \cup {ops[c].write : c \in {x \in dead : ops[x].stage = "open"}}
  <1>1. /\ obj' = obj
        /\ \A d \in Clients :
             /\ d \in dead => pc'[d] = "idle" /\ call'[d] = NoCall /\ lease'[d] = NoLease
             /\ d \notin dead => pc'[d] = pc[d] /\ call'[d] = call[d] /\ lease'[d] = lease[d]
        /\ \A m \in late' : \/ m \in late
                            \/ \E c \in dead : /\ pc[c] = "put" /\ m.put = call[c].put
                                               /\ m.kind = call[c].kind
        /\ dead \in SUBSET Clients
    BY Crashed
  <1> HIDE DEF dead
  <1>2. ops' = [d \in Clients |-> IF d \in dead THEN [stage |-> "idle"] ELSE ops[d]]
    <2> SUFFICES ASSUME NEW d \in Clients
                 PROVE  OpOf(d)' = IF d \in dead THEN [stage |-> "idle"] ELSE OpOf(d)
      OBVIOUS
    <2>1. CASE d \in dead
      BY <1>1, <2>1 DEF OpOf, In
    <2>2. CASE d \notin dead
      BY <1>1, <2>2, OthersOps
    <2> QED
      BY <2>1, <2>2
  <1>3. ls' = [d \in Clients |-> IF d \in dead THEN [key |-> None, fence |-> 0] ELSE ls[d]]
    <2> SUFFICES ASSUME NEW d \in Clients
                 PROVE  [key |-> lease'[d].key, fence |-> lease'[d].fence]
                          = IF d \in dead THEN [key |-> None, fence |-> 0] ELSE ls[d]
      OBVIOUS
    <2>1. CASE d \in dead
      BY <1>1, <2>1 DEF NoLease
    <2>2. CASE d \notin dead
      BY <1>1, <2>2
    <2> QED
      BY <2>1, <2>2
  <1>4. Orphans' \subseteq lost
    <2> SUFFICES ASSUME NEW m \in late', m.kind \in Writes,
                        m.put.match.fence.owner = obj'[m.put.key].fence.owner
                 PROVE  WriteOf(m.put, m.kind) \in lost
      BY DEF Orphans, WriteOf
    <2>1. CASE m \in late
      BY <1>1, <2>1 DEF Orphans
    <2>2. CASE \E c \in dead : pc[c] = "put" /\ m.put = call[c].put /\ m.kind = call[c].kind
      <3>1. PICK c \in dead : pc[c] = "put" /\ m.put = call[c].put /\ m.kind = call[c].kind
        BY <2>2
      <3>2. In(c, "put", Writes) /\ c \in Clients
        BY <1>1, <3>1 DEF In
      <3>3. OpenWrite(c) = WriteOf(m.put, m.kind)
        BY <3>1, <3>2, PutFacts
      <3>4. ops[c] = [stage |-> "open", write |-> WriteOf(m.put, m.kind)]
        BY <3>2, <3>3, OpenOnly
      <3> QED
        BY <3>1, <3>4
    <2> QED
      BY <1>1, <2>1, <2>2
  <1>5. vs' = vs /\ fs' = fs
    BY <1>1
  <1>6. CASE dead = {}
    <2>1. SameOps /\ SameLeases /\ SameValues /\ SameFences
      BY <1>1, <1>6, OthersOps DEF SameOps, SameLeases, SameValues, SameFences
    <2>2. Orphans' \subseteq Orphans
      BY <1>4, <1>6
    <2> QED
      BY <2>1, <2>2, Dropped
  <1>7. CASE dead # {}
    <2>2. /\ {} \in SUBSET {w \in lost : vs[w.key] = w.prior}
          /\ \A w, x \in {} : w.key = x.key => w = x
          /\ vs' = Contract!Settled({})
      BY <1>5 DEF Contract!Settled
    <2> QED
      BY <1>1, <1>2, <1>3, <1>4, <1>5, <1>7, <2>2
      DEF Contract!Crash, Contract!IsOpen, Contract!Idle, Contract!NoLease
  <1> QED
    BY <1>6, <1>7

\* A PUT lands, is refused or is late, a process dies: the contract has a step
\* for it.
LEMMA NextImpl ==
    ASSUME IInv, SimInv, [Next]_vars PROVE [Contract!Next]_Contract!vars
  <1>1. ASSUME NEW c \in Clients, Begin(c) PROVE Contract!Next
    BY <1>1, QuietImpl, OpensImpl DEF Begin, Contract!Next
  <1>2. ASSUME NEW c \in Clients, Continue(c) PROVE Contract!Next
    <2>1. CASE \/ ResolveCreate(c) \/ RefuseUpdate(c) \/ LoseFence(c) \/ SettleReturns(c)
               \/ SettlePolls(c) \/ PrepareFence(c) \/ RenewSuperseded(c)
               \/ FenceGivesUp(c) \/ FenceFails(c)
      BY <2>1, QuietImpl DEF Contract!Next
    <2>2. CASE FillPhantom(c) \/ AdmitUpdate(c)
      BY <2>2, OpensImpl DEF Contract!Next
    <2>3. CASE RefusedRetries(c) \/ UpdateRefused(c)
      BY <2>3, QuietImpl, RefusedImpl DEF Contract!Next
    <2>4. CASE WriteLands(c)
      BY <2>4, WriteLandsImpl DEF Contract!Next
    <2>5. CASE WriteFails(c)
      BY <2>5, WriteFailsImpl DEF Contract!Next
    <2>6. CASE LockLands(c)
      BY <2>6, LockLandsImpl DEF Contract!Next
    <2>7. CASE RenewLands(c)
      BY <2>7, RenewLandsImpl DEF Contract!Next
    <2> QED
      BY <1>2, <2>1, <2>2, <2>3, <2>4, <2>5, <2>6, <2>7 DEF Continue
  <1>3. ASSUME Tick \/ UNCHANGED vars PROVE Contract!OrphansAreDropped
    <2>1. UNCHANGED <<lease, obj, pc, call, late>>
      BY <1>3 DEF Tick, vars, leases
    <2>2. SameValues /\ SameFences /\ SameLeases /\ SameOps
      BY <2>1, OthersOps DEF SameValues, SameFences, SameLeases, SameOps
    <2>3. Orphans' \subseteq Orphans
      BY <2>1, <2>2, OrphansStay
    <2> QED
      BY <2>2, <2>3, Dropped
  <1>4. CASE LateLands
    BY <1>4, LateLandsImpl DEF Contract!Next
  <1>5. ASSUME NEW i \in Instances, Crash(i) PROVE Contract!Next
    BY <1>5, CrashImpl DEF Contract!Next
  <1> QED
    BY <1>1, <1>2, <1>3, <1>4, <1>5 DEF Next, Contract!Next

LEMMA InitImpl == ASSUME Init PROVE Contract!Init
  <1>1. /\ obj = [k \in Keys |-> NoObject] /\ late = {}
        /\ \A c \in Clients : pc[c] = "idle" /\ lease[c] = NoLease
    BY DEF Init, LeasesInit
  <1>2. \A k \in Keys : obj[k].body = Absent /\ obj[k].fence.owner = 0
    BY <1>1 DEF NoObject, NoFence
  <1>3. \A c \in Clients : OpOf(c) = [stage |-> "idle"]
    BY <1>1 DEF OpOf, In
  <1>4. \A c \in Clients : lease[c].key = None /\ lease[c].fence = 0
    BY <1>1 DEF NoLease
  <1>5. Orphans = {}
    BY <1>1 DEF Orphans
  <1> QED
    BY <1>2, <1>3, <1>4, <1>5 DEF Contract!Init, Contract!Idle, Contract!NoLease

\* ObjectStoreBackend implements the store contract, for any processes, keys,
\* bodies and ttls and any PUTs that fail or land late: a write() lands at once, on
\* the value and under the fence it names, or never, or, after its caller has
\* given up, late, on that value and under that fence still; lock() ends the right
\* of late writes to land.
THEOREM RefinesContract == Spec => ImplementsContract
  <1>1. Init => IInv /\ SimInv /\ Contract!Init
    BY InitIInv, InitSim, InitImpl
  <1>2. IInv /\ SimInv /\ [Next]_vars => IInv' /\ SimInv' /\ [Contract!Next]_Contract!vars
    BY NextIInv, StutterIInv, NextSim, NextImpl
  <1> QED
    BY <1>1, <1>2, PTL DEF Spec, ImplementsContract, Contract!Spec

=============================================================================
