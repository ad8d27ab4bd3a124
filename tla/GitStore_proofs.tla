--------------------------- MODULE GitStore_proofs ---------------------------
(***************************************************************************)
(* Proofs about GitStore, for any processes, keys and bodies, and pushes   *)
(* and processes that fail as they like.  What a client has decided on is  *)
(* the tree of the head it captured; a push lands only if the tip is still *)
(* that head (HeadOK), so the decision still stands.                       *)
(***************************************************************************)
EXTENDS GitStoreRefinement, TLAPS

-----------------------------------------------------------------------------
(***************************************************************************)
(* The registries of leases: what lock(), renew(), unlock() and the death  *)
(* of a process do to their types, and what the fence record promises.     *)
(***************************************************************************)
\* A client's instance has a registry.
LEMMA CallerType == ASSUME NEW c \in Clients PROVE Caller(c) \in Instances
  BY ShapeAssumption DEF Caller

LEMMA MutexType ==
    ASSUME LeasesOK, NEW c \in Clients, TakeMutex(c) \/ ReleaseMutex(c)
    PROVE  mutex' \in [Instances -> Clients \cup {None}]
  BY DEF LeasesOK, TakeMutex, ReleaseMutex

LEMMA EntryType ==
    ASSUME LeasesOK, NEW c \in Clients, NEW k \in Keys, NEW token \in Nat, NEW expiry \in Nat,
           SetEntry(c, k, token, expiry)
    PROVE  registry' \in [Instances -> [Keys -> Entry]]
  <1>1. [token |-> token, expiry |-> expiry] \in Entry
    BY DEF Entry
  <1> DEFINE e == [token |-> token, expiry |-> expiry]
  <1>2. registry' = [registry EXCEPT ![Caller(c)][k] = e]
    BY DEF SetEntry
  <1> HIDE DEF e
  <1>3. [registry[Caller(c)] EXCEPT ![k] = e] \in [Keys -> Entry]
    BY <1>1, CallerType DEF LeasesOK, e
  <1> QED
    BY <1>2, <1>3, CallerType DEF LeasesOK

\* The grant of a lease, its release, and the death of a process.
LEMMA GrantedType ==
    ASSUME LeasesOK, NEW c \in Clients, NEW k \in Keys, NEW token \in Nat, NEW expiry \in Nat,
           NEW f \in Nat, Granted(c, k, token, expiry, f), now' = now
    PROVE  LeasesOK'
  <1>1. registry' \in [Instances -> [Keys -> Entry]]
    BY EntryType DEF Granted
  <1>2. mutex' \in [Instances -> Clients \cup {None}]
    BY MutexType DEF Granted
  <1>3. lease' \in [Clients -> Lease]
    BY DEF Granted, LeasesOK, Lease
  <1> QED
    BY <1>1, <1>2, <1>3 DEF Granted, LeasesOK

LEMMA ReleasedType == ASSUME LeasesOK, NEW c \in Clients, Released(c) PROVE LeasesOK'
  <1>1. lease[c].key \in Keys
    BY DEF Released, OwnsEntry
  <1>2. registry' \in [Instances -> [Keys -> Entry]]
    BY <1>1, EntryType DEF Released
  <1> QED
    BY <1>2 DEF Released, LeasesOK

LEMMA ForgottenType == ASSUME LeasesOK, NEW i \in Instances, Forgotten(i) PROVE LeasesOK'
  <1>1. NoEntry \in Entry /\ NoLease \in Lease
    BY DEF NoEntry, Entry, NoLease, Lease
  <1> QED
    BY <1>1 DEF Forgotten, LeasesOK

\* Nothing is held at first.
LEMMA InitType == LeasesInit => LeasesOK
  <1>1. NoEntry \in Entry /\ NoLease \in Lease
    BY DEF NoEntry, Entry, NoLease, Lease
  <1> QED
    BY <1>1 DEF LeasesInit, LeasesOK

\* lock() allocates a fence above the owner's and above the accepted one;
\* renew() changes neither.
LEMMA AdvancedRises ==
    ASSUME NEW f \in Fence, NEW token \in Nat, NEW expiry \in Nat
    PROVE  /\ Advanced(f, token, expiry) \in Fence
           /\ Advanced(f, token, expiry).owner > f.owner
           /\ Advanced(f, token, expiry).accepted = f.accepted
  <1>1. /\ f.owner \in Nat /\ f.accepted \in Nat
        /\ NextFence(f) \in Nat /\ NextFence(f) > f.owner
    BY DEF Fence, NextFence
  <1> DEFINE g == [f EXCEPT !.token = token]
             h == [g EXCEPT !.expiry = expiry]
  <1>2. g \in Fence /\ g.owner = f.owner /\ g.accepted = f.accepted
    BY DEF Fence
  <1> HIDE DEF g
  <1>3. h \in Fence /\ h.owner = f.owner /\ h.accepted = f.accepted
    BY <1>2 DEF Fence
  <1>4. Advanced(f, token, expiry) = [h EXCEPT !.owner = NextFence(f)]
    BY DEF Advanced, g
  <1> HIDE DEF h
  <1> QED
    BY <1>1, <1>3, <1>4 DEF Fence

LEMMA RenewedKeeps ==
    ASSUME NEW f \in Fence, NEW expiry \in Nat
    PROVE  /\ Renewed(f, expiry) \in Fence
           /\ Renewed(f, expiry).owner = f.owner
           /\ Renewed(f, expiry).accepted = f.accepted
  BY DEF Renewed, Fence

\* The fence a write is accepted under is the owner's, at or above the floor.
LEMMA AcceptedRises ==
    ASSUME NEW f \in Fence, NEW l \in Lease, FenceOk(l, f)
    PROVE  /\ [f EXCEPT !.accepted = l.fence] \in Fence
           /\ [f EXCEPT !.accepted = l.fence].owner = f.owner
           /\ [f EXCEPT !.accepted = l.fence].accepted = f.owner
           /\ f.owner >= f.accepted
  BY DEF FenceOk, Fence, Lease

\* The owner lock() puts into the record.
LEMMA AdvancedOwner ==
    ASSUME NEW f \in Fence, NEW token \in Nat, NEW expiry \in Nat
    PROVE  /\ Advanced(f, token, expiry).token = token
           /\ Advanced(f, token, expiry).expiry = expiry
  <1>1. f.owner \in Nat /\ f.accepted \in Nat /\ NextFence(f) \in Nat
    BY DEF Fence, NextFence
  <1> DEFINE g == [f EXCEPT !.token = token]
             h == [g EXCEPT !.expiry = expiry]
  <1>2. g \in Fence /\ g.token = token
    BY DEF Fence
  <1> HIDE DEF g
  <1>3. h \in Fence /\ h.token = token /\ h.expiry = expiry
    BY <1>2 DEF Fence
  <1>4. Advanced(f, token, expiry) = [h EXCEPT !.owner = NextFence(f)]
    BY DEF Advanced, g
  <1> HIDE DEF h
  <1> QED
    BY <1>1, <1>3, <1>4 DEF Fence
-----------------------------------------------------------------------------
(***************************************************************************)
(* How long an entry lasts: what the proofs about it share.                *)
(***************************************************************************)
\* Every caller asks for the same ttl_s.
OneTTL == \A s, t \in TTLs : s = t

\* An expiry that a call made by now asked for.
Early(e) == \A t \in TTLs : e <= now + t

\* No lease and no entry has this token.
Unheld(token) ==
    /\ token # 0
    /\ \A c \in Clients : lease[c].token # token
    /\ \A i \in Instances, k \in Keys : registry[i][k].token # token

\* The tokens that are held were drawn, and two leases never share one.
HeldOK ==
    /\ \A i \in Instances, k \in Keys :
        registry[i][k].token <= tokens /\ (registry[i][k].token = 0 => registry[i][k].expiry = 0)
    /\ \A c \in Clients : lease[c].token <= tokens
    /\ \A c, d \in Clients : c # d /\ lease[c].token # 0 => lease[c].token # lease[d].token

\* What an entry becomes.
LEMMA EntryBecomes ==
    ASSUME LeasesOK, NEW c \in Clients, NEW k \in Keys, NEW token, NEW expiry,
           SetEntry(c, k, token, expiry)
    PROVE  \A i \in Instances, j \in Keys :
             registry'[i][j] = IF i = Caller(c) /\ j = k THEN [token |-> token, expiry |-> expiry]
                               ELSE registry[i][j]
  BY CallerType DEF LeasesOK, SetEntry

-----------------------------------------------------------------------------
(***************************************************************************)
(* The invariant.                                                          *)
(***************************************************************************)
Labels == {"idle", "decide", "push"}

\* An update carries the fence that owned the key in tree t.
CarriesFence(m, t) ==
    m.body # None /\ m.sidecar # NoSidecar => m.sidecar.accepted = t.fence[m.key].owner

\* A captured head is of the past, or it is the tip.
HeadOK(x, t) == x.head.id =< t.id /\ (x.head.id = t.id => x.head = t)

\* A client at place p of call x, while the tip is t.
CallOK(p, x, t) ==
    /\ x \in Call /\ HeadOK(x, t)
    /\ p # "idle" => x.kind # "none" /\ x.key \in Keys
    /\ p = "decide" /\ x.kind \in {"lock", "renew"} => x.attempts < MaxAttempts
    /\ p = "push" => /\ x.commit \in Commit /\ x.commit.base = x.head.id
                     /\ CarriesFence(x.commit, x.head)

TipOK(t) == t \in Tip /\ (t.id = 0 => t = EmptyTip)

\* A late push was built on the tip as it is.
LateOK(m, t) ==
    /\ m.commit \in Commit /\ m.told \in {"NETWORK", "raised", "BUSY", "crash"}
    /\ m.commit.base = t.id /\ CarriesFence(m.commit, t)

IInv ==
    /\ LeasesOK /\ TipOK(tip) /\ failures \in Nat
    /\ pc \in [Clients -> Labels] /\ call \in [Clients -> Call]
    /\ \A c \in Clients : CallOK(pc[c], call[c], tip)
    /\ \A m \in late : LateOK(m, tip)

LEMMA InvTypeOK == IInv => TypeOK
  BY DEF IInv, TypeOK, TipOK, CallOK, LateOK, Labels

\* A client outside a call has captured nothing.
LEMMA EmptyTypes == EmptyTip \in Tip /\ NoCall \in Call /\ NoCall.head = EmptyTip
  <1>1. NoFence \in Fence
    BY DEF NoFence, Fence
  <1>2. EmptyTip \in Tip
    BY <1>1 DEF EmptyTip, Tip
  <1> QED
    BY <1>2, GitAssumption DEF NoCall, Call

LEMMA IdleOK == ASSUME NEW t, TipOK(t) PROVE CallOK("idle", NoCall, t)
  BY EmptyTypes DEF TipOK, CallOK, HeadOK, EmptyTip, Tip

LEMMA InitIInv == Init => IInv
  <1> SUFFICES ASSUME Init PROVE IInv
    OBVIOUS
  <1>1. TipOK(tip)
    BY EmptyTypes DEF Init, TipOK
  <1>2. \A c \in Clients : CallOK(pc[c], call[c], tip)
    BY <1>1, IdleOK DEF Init
  <1> QED
    BY <1>1, <1>2, InitType, EmptyTypes DEF Init, IInv, Labels

-----------------------------------------------------------------------------
(***************************************************************************)
(* Steps of a client, by what they do to the tip.                          *)
(***************************************************************************)
\* The tip stays: the client's call and the registries change.
LEMMA TipStays ==
    ASSUME IInv, NEW c \in Clients, NEW p \in Labels, NEW x, CallOK(p, x, tip),
           pc' = [pc EXCEPT ![c] = p], call' = [call EXCEPT ![c] = x],
           tip' = tip, LeasesOK', failures' \in Nat,
           \A m \in late' : LateOK(m, tip)
    PROVE  IInv'
  <1>1. x \in Call
    BY DEF CallOK
  <1>2. pc' \in [Clients -> Labels] /\ call' \in [Clients -> Call]
    BY <1>1 DEF IInv
  <1>3. ASSUME NEW d \in Clients PROVE CallOK(pc'[d], call'[d], tip)
    BY DEF IInv
  <1> QED
    BY <1>2, <1>3 DEF IInv

\* The call returns.
LEMMA Returns ==
    ASSUME IInv, NEW c \in Clients, Return(c), tip' = tip, LeasesOK', failures' \in Nat,
           \A m \in late' : LateOK(m, tip)
    PROVE  IInv'
  BY TipStays, IdleOK DEF Return, Goto, IInv, Labels

\* A push lands: the heads of the others are of the past.
LEMMA TipMoves ==
    ASSUME IInv, NEW m \in Commit, Lands(m)
    PROVE  /\ TipOK(tip') /\ tip'.made = m /\ late' = {}
           /\ \A c \in Clients : CallOK(pc[c], call[c], tip')
  <1>1. tip \in Tip /\ tip.id \in Nat /\ tip.id = m.base /\ tip' = Applied(m) /\ late' = {}
    BY DEF IInv, TipOK, Lands, Tip
  <1>2. Applied(m) \in Tip
    <2>1. /\ m.key \in Keys /\ m.body \in Bodies \cup {None}
          /\ m.sidecar \in Fence \cup {NoSidecar} /\ m.base + 1 \in Nat
      BY <1>1 DEF Commit
    <2>2. Applied(m).blob \in [Keys -> Bodies \cup {Absent}]
      BY <1>1, <2>1 DEF Applied, Tip
    <2>3. Applied(m).fence \in [Keys -> Fence]
      BY <1>1, <2>1 DEF Applied, Tip
    <2> QED
      BY <2>1, <2>2, <2>3 DEF Applied, Tip
  <1>3. tip'.id = tip.id + 1 /\ tip'.made = m
    BY <1>1 DEF Applied
  <1>4. ASSUME NEW c \in Clients PROVE CallOK(pc[c], call[c], tip')
    <2>1. CallOK(pc[c], call[c], tip) /\ call[c].head.id \in Nat
      BY DEF IInv, CallOK, Call, Tip
    <2>2. HeadOK(call[c], tip')
      BY <1>1, <1>3, <2>1 DEF CallOK, HeadOK
    <2> QED
      BY <2>1, <2>2 DEF CallOK
  <1> QED
    BY <1>1, <1>2, <1>3, <1>4 DEF TipOK

\* A call returns after its push, which landed or was up to date.
LEMMA PushReturns ==
    ASSUME IInv, NEW c \in Clients, pc[c] = "push", Pushed(call[c].commit), Return(c),
           LeasesOK', failures' = failures
    PROVE  IInv'
  <1>1. call[c].commit \in Commit
    BY DEF IInv, CallOK
  <1>2. CASE UpToDate(call[c].commit)
    BY <1>2, Returns DEF UpToDate, IInv
  <1>3. CASE Lands(call[c].commit)
    <2>1. TipOK(tip') /\ late' = {} /\ \A d \in Clients : CallOK(pc[d], call[d], tip')
      BY <1>1, <1>3, TipMoves
    <2>2. CallOK("idle", NoCall, tip')
      BY <2>1, IdleOK
    <2>3. pc' = [pc EXCEPT ![c] = "idle"] /\ call' = [call EXCEPT ![c] = NoCall]
      BY DEF Return, Goto
    <2>4. pc' \in [Clients -> Labels] /\ call' \in [Clients -> Call]
      BY <2>3, EmptyTypes DEF IInv, Labels
    <2>5. ASSUME NEW d \in Clients PROVE CallOK(pc'[d], call'[d], tip')
      BY <2>1, <2>2, <2>3 DEF IInv
    <2> QED
      BY <2>1, <2>4, <2>5 DEF IInv
  <1> QED
    BY <1>2, <1>3 DEF Pushed

-----------------------------------------------------------------------------
(***************************************************************************)
(* write().                                                                *)
(***************************************************************************)
LEMMA BeginWriteStep ==
    ASSUME IInv, NEW c \in Clients, NEW kind \in {"create", "update"}, NEW k \in Keys,
           NEW b \in Bodies, NEW e \in Bodies \cup {None}, BeginWrite(c, kind, k, b, e)
    PROVE  IInv'
  <1> DEFINE x1 == [NoCall EXCEPT !.kind = kind]
             x2 == [x1 EXCEPT !.key = k]
             x3 == [x2 EXCEPT !.body = b]
             x4 == [x3 EXCEPT !.expected = e]
             x  == [x4 EXCEPT !.head = tip]
  <1>1. x1 \in Call /\ x1.kind = kind
    BY EmptyTypes DEF Call
  <1> HIDE DEF x1
  <1>2. x2 \in Call /\ x2.kind = kind /\ x2.key = k
    BY <1>1 DEF Call
  <1> HIDE DEF x2
  <1>3. x3 \in Call /\ x3.kind = kind /\ x3.key = k
    BY <1>2 DEF Call
  <1> HIDE DEF x3
  <1>4. x4 \in Call /\ x4.kind = kind /\ x4.key = k
    BY <1>3 DEF Call
  <1> HIDE DEF x4
  <1>5. x \in Call /\ x.kind = kind /\ x.key = k /\ x.head = tip
    BY <1>4 DEF Call, IInv, TipOK
  <1>6. call' = [call EXCEPT ![c] = x] /\ pc' = [pc EXCEPT ![c] = "decide"]
    BY DEF BeginWrite, Goto, x1, x2, x3, x4
  <1> HIDE DEF x
  <1>7. CallOK("decide", x, tip)
    <2>1. tip.id \in Nat
      BY DEF IInv, TipOK, Tip
    <2> QED
      BY <1>5, <2>1 DEF CallOK, HeadOK
  <1>8. LeasesOK' /\ tip' = tip /\ failures' = failures /\ late' = late
    BY DEF BeginWrite, leases, IInv, LeasesOK
  <1> QED
    BY <1>6, <1>7, <1>8, TipStays DEF IInv, Labels

LEMMA BeginWritesStep ==
    ASSUME IInv, NEW c \in Clients, BeginCreate(c) \/ BeginUpdate(c) PROVE IInv'
  BY BeginWriteStep DEF BeginCreate, BeginUpdate

\* The commit of an update accepts the fence that owns the key at the head.
LEMMA BuildWriteStep == ASSUME IInv, NEW c \in Clients, BuildWrite(c) PROVE IInv'
  <1>1. CallOK("decide", call[c], tip) /\ pc[c] = "decide"
    BY DEF IInv, BuildWrite, Writing
  <1>2. /\ call[c] \in Call /\ call[c].key \in Keys /\ call[c].head \in Tip
        /\ call[c].body \in Bodies \cup {None} /\ call[c].head.id \in Nat
        /\ Sidecar(c) \in Fence /\ call[c].kind \in {"create", "update"}
    BY <1>1 DEF CallOK, Call, Tip, Sidecar, BuildWrite, Writing
  <1> DEFINE m == WriteCommit(c)
             x == [call[c] EXCEPT !.commit = m]
  <1>3. m \in Commit /\ m.base = call[c].head.id /\ CarriesFence(m, call[c].head)
    <2>1. CASE call[c].kind = "create"
      BY <1>2, <2>1 DEF WriteCommit, Commit, CarriesFence
    <2>2. CASE call[c].kind # "create"
      <3>1. FenceOk(lease[c], Sidecar(c)) /\ lease[c] \in Lease
        BY <2>2 DEF BuildWrite, CreateAdmitted, UpdateAdmitted, IInv, LeasesOK
      <3>2. /\ [Sidecar(c) EXCEPT !.accepted = lease[c].fence] \in Fence
            /\ [Sidecar(c) EXCEPT !.accepted = lease[c].fence].accepted = Sidecar(c).owner
        BY <1>2, <3>1, AcceptedRises
      <3> DEFINE sidecar == [Sidecar(c) EXCEPT !.accepted = lease[c].fence]
      <3>3. m = [base |-> call[c].head.id, key |-> call[c].key, body |-> call[c].body,
                 sidecar |-> sidecar]
        BY <2>2 DEF WriteCommit
      <3> HIDE DEF sidecar, m
      <3>4. m \in Commit /\ m.base = call[c].head.id /\ m.key = call[c].key /\ m.sidecar = sidecar
        BY <1>2, <3>2, <3>3 DEF Commit, sidecar
      <3>5. sidecar.accepted = call[c].head.fence[call[c].key].owner
        BY <3>2 DEF sidecar, Sidecar
      <3> QED
        BY <3>4, <3>5 DEF CarriesFence
    <2> QED
      BY <2>1, <2>2
  <1>4. call' = [call EXCEPT ![c] = x] /\ pc' = [pc EXCEPT ![c] = "push"]
    BY DEF BuildWrite, Goto, IInv
  <1> HIDE DEF m
  <1>5. /\ x \in Call /\ x.commit = m /\ x.head = call[c].head /\ x.kind = call[c].kind
        /\ x.key = call[c].key
    BY <1>2, <1>3 DEF Call
  <1> HIDE DEF x
  <1>6. CallOK("push", x, tip)
    BY <1>1, <1>2, <1>3, <1>5 DEF CallOK, HeadOK
  <1>7. LeasesOK' /\ tip' = tip /\ failures' = failures /\ late' = late
    BY DEF BuildWrite, leases, IInv, LeasesOK
  <1> QED
    BY <1>4, <1>6, <1>7, TipStays DEF IInv, Labels

LEMMA WriteEnds ==
    ASSUME IInv, NEW c \in Clients, RefuseWrite(c) \/ PushWriteRejected(c) \/ PushWrite(c)
    PROVE  IInv'
  <1>1. LeasesOK'
    BY DEF RefuseWrite, PushWriteRejected, PushWrite, leases, IInv, LeasesOK
  <1>2. CASE RefuseWrite(c) \/ PushWriteRejected(c)
    BY <1>1, <1>2, Returns DEF RefuseWrite, PushWriteRejected, IInv
  <1>3. CASE PushWrite(c)
    BY <1>1, <1>3, PushReturns DEF PushWrite, Writing
  <1> QED
    BY <1>2, <1>3

\* A push whose client gives up is late only if the tip is still its head.
LEMMA LateIsCurrent ==
    ASSUME IInv, NEW c \in Clients, pc[c] = "push", ~Rejected(call[c].commit)
    PROVE  /\ call[c].commit.base = tip.id /\ call[c].commit \in Commit
           /\ call[c].head = tip /\ CarriesFence(call[c].commit, tip)
  BY DEF IInv, CallOK, HeadOK, Rejected

LEMMA GiveUpKeepsLate ==
    ASSUME IInv, NEW c \in Clients, pc[c] = "push",
           NEW told \in {"NETWORK", "raised", "BUSY"}, GiveUp(c, told)
    PROVE  failures' \in Nat /\ \A m \in late' : LateOK(m, tip)
  <1>1. failures' \in Nat
    BY DEF GiveUp, IInv
  <1>2. ASSUME NEW m \in late' PROVE LateOK(m, tip)
    <2>1. m \in late \/ (m = [commit |-> call[c].commit, told |-> told] /\ ~Rejected(m.commit))
      BY DEF GiveUp
    <2>2. CASE m \in late
      BY <2>2 DEF IInv
    <2>3. CASE m = [commit |-> call[c].commit, told |-> told] /\ ~Rejected(m.commit)
      BY <2>3, LateIsCurrent DEF LateOK
    <2> QED
      BY <2>1, <2>2, <2>3
  <1> QED
    BY <1>1, <1>2

LEMMA PushWriteFailsStep == ASSUME IInv, NEW c \in Clients, PushWriteFails(c) PROVE IInv'
  <1>1. pc[c] = "push" /\ Return(c) /\ tip' = tip /\ LeasesOK'
    BY DEF PushWriteFails, Writing, leases, IInv, LeasesOK
  <1>2. failures' \in Nat /\ \A m \in late' : LateOK(m, tip)
    BY <1>1, GiveUpKeepsLate DEF PushWriteFails
  <1> QED
    BY <1>1, <1>2, Returns

-----------------------------------------------------------------------------
(***************************************************************************)
(* lock() and renew().                                                     *)
(***************************************************************************)
\* One that begins has captured nothing and tried nothing.
LEMMA FenceCall ==
    ASSUME NEW t, TipOK(t), NEW kind \in {"lock", "renew"}, NEW k \in Keys,
           NEW token \in Nat, NEW expiry \in Nat
    PROVE  CallOK("decide", [NoCall EXCEPT !.kind = kind, !.key = k, !.token = token,
                                           !.expiry = expiry], t)
  <1> DEFINE x1 == [NoCall EXCEPT !.kind = kind]
             x2 == [x1 EXCEPT !.key = k]
             x3 == [x2 EXCEPT !.token = token]
             x  == [x3 EXCEPT !.expiry = expiry]
  <1>1. x1 \in Call /\ x1.kind = kind /\ x1.head = EmptyTip /\ x1.attempts = 0
    BY EmptyTypes DEF Call, NoCall
  <1> HIDE DEF x1
  <1>2. x2 \in Call /\ x2.kind = kind /\ x2.key = k /\ x2.head = EmptyTip /\ x2.attempts = 0
    BY <1>1 DEF Call
  <1> HIDE DEF x2
  <1>3. x3 \in Call /\ x3.kind = kind /\ x3.key = k /\ x3.head = EmptyTip /\ x3.attempts = 0
    BY <1>2 DEF Call
  <1> HIDE DEF x3
  <1>4. x \in Call /\ x.kind = kind /\ x.key = k /\ x.head = EmptyTip /\ x.attempts = 0
    BY <1>3 DEF Call
  <1>5. x = [NoCall EXCEPT !.kind = kind, !.key = k, !.token = token, !.expiry = expiry]
    BY DEF x1, x2, x3
  <1> HIDE DEF x
  <1>6. HeadOK(x, t)
    BY <1>4 DEF TipOK, HeadOK, EmptyTip, Tip
  <1>7. CallOK("decide", x, t)
    BY <1>4, <1>6, GitAssumption DEF CallOK
  <1> QED
    BY <1>5, <1>7

LEMMA BeginLockStep == ASSUME IInv, NEW c \in Clients, BeginLock(c) PROVE IInv'
  <1>1. PICK k \in Keys, ttl \in TTLs :
          /\ TakeMutex(c) /\ tokens' = tokens + 1
          /\ call' = [call EXCEPT ![c] = [NoCall EXCEPT !.kind = "lock", !.key = k,
                          !.token = tokens + 1, !.expiry = now + ttl]]
          /\ pc' = [pc EXCEPT ![c] = "decide"]
          /\ UNCHANGED <<now, registry, lease, tip, late, failures>>
    BY DEF BeginLock, Goto
  <1>2. tokens + 1 \in Nat /\ now + ttl \in Nat /\ TipOK(tip)
    BY ShapeAssumption DEF IInv, LeasesOK
  <1>3. LeasesOK'
    BY <1>1, <1>2, MutexType DEF IInv, LeasesOK
  <1> DEFINE x == [NoCall EXCEPT !.kind = "lock", !.key = k, !.token = tokens + 1,
                                 !.expiry = now + ttl]
  <1>4. CallOK("decide", x, tip)
    BY <1>2, FenceCall
  <1>5. call' = [call EXCEPT ![c] = x]
    BY <1>1
  <1>6. /\ pc' = [pc EXCEPT ![c] = "decide"] /\ tip' = tip
        /\ failures' \in Nat /\ \A m \in late' : LateOK(m, tip)
    BY <1>1 DEF IInv
  <1> HIDE DEF x
  <1> QED
    BY <1>3, <1>4, <1>5, <1>6, TipStays DEF Labels

LEMMA BeginRenewStep == ASSUME IInv, NEW c \in Clients, BeginRenew(c) PROVE IInv'
  <1>1. PICK ttl \in TTLs :
          /\ lease[c].key \in Keys /\ TakeMutex(c)
          /\ call' = [call EXCEPT ![c] = [NoCall EXCEPT !.kind = "renew", !.key = lease[c].key,
                          !.token = lease[c].token, !.expiry = now + ttl]]
          /\ pc' = [pc EXCEPT ![c] = "decide"]
          /\ UNCHANGED <<now, tokens, registry, lease, tip, late, failures>>
    BY DEF BeginRenew, Goto, OwnsEntry
  <1>2. lease[c].token \in Nat /\ now + ttl \in Nat /\ TipOK(tip)
    BY ShapeAssumption DEF IInv, LeasesOK, Lease
  <1>3. LeasesOK'
    BY <1>1, MutexType DEF IInv, LeasesOK
  <1> DEFINE x == [NoCall EXCEPT !.kind = "renew", !.key = lease[c].key,
                                 !.token = lease[c].token, !.expiry = now + ttl]
  <1>4. CallOK("decide", x, tip)
    BY <1>1, <1>2, FenceCall
  <1>5. call' = [call EXCEPT ![c] = x]
    BY <1>1
  <1>6. /\ pc' = [pc EXCEPT ![c] = "decide"] /\ tip' = tip
        /\ failures' \in Nat /\ \A m \in late' : LateOK(m, tip)
    BY <1>1 DEF IInv
  <1> HIDE DEF x
  <1> QED
    BY <1>3, <1>4, <1>5, <1>6, TipStays DEF Labels

\* The commit brings no body; the head is captured again.
LEMMA BuildFenceStep == ASSUME IInv, NEW c \in Clients, BuildFence(c) PROVE IInv'
  <1>1. /\ pc[c] = "decide" /\ call[c] \in Call /\ call[c].key \in Keys
        /\ call[c].kind \in {"lock", "renew"} /\ call[c].attempts < MaxAttempts
    BY DEF IInv, CallOK, BuildFence, Fencing
  <1>2. /\ call[c].token \in Nat /\ call[c].expiry \in Nat /\ call[c].attempts \in 0..MaxAttempts
        /\ tip \in Tip /\ tip.id \in Nat /\ tip.fence[call[c].key] \in Fence
    BY <1>1 DEF Call, IInv, TipOK, Tip
  <1> DEFINE m  == FenceCommit(c, tip)
             x1 == [call[c] EXCEPT !.head = tip]
             x2 == [x1 EXCEPT !.commit = m]
             x  == [x2 EXCEPT !.attempts = call[c].attempts + 1]
  <1>3. m.sidecar \in Fence
    BY <1>1, <1>2, AdvancedRises, RenewedKeeps DEF FenceCommit
  <1>4. m \in Commit /\ m.base = tip.id /\ m.body = None
    BY <1>1, <1>2, <1>3 DEF FenceCommit, Commit
  <1>5. call' = [call EXCEPT ![c] = x] /\ pc' = [pc EXCEPT ![c] = "push"]
    <2> DEFINE y == [call[c] EXCEPT !.head = tip, !.commit = m, !.attempts = call[c].attempts + 1]
    <2>1. call' = [call EXCEPT ![c] = y] /\ pc' = [pc EXCEPT ![c] = "push"]
      BY DEF BuildFence, Goto
    <2> HIDE DEF m
    <2>2. x = y
      OBVIOUS
    <2> HIDE DEF x, y
    <2> QED
      BY <2>1, <2>2
  <1> HIDE DEF m
  <1>6. /\ x1 \in Call /\ x1.head = tip /\ x1.kind = call[c].kind /\ x1.key = call[c].key
        /\ x1.attempts = call[c].attempts
    BY <1>1, <1>2 DEF Call
  <1> HIDE DEF x1
  <1>7. /\ x2 \in Call /\ x2.head = tip /\ x2.kind = call[c].kind /\ x2.key = call[c].key
        /\ x2.attempts = call[c].attempts /\ x2.commit = m
    BY <1>4, <1>6 DEF Call
  <1> HIDE DEF x2
  <1>8. call[c].attempts + 1 \in 0..MaxAttempts
    BY <1>1, <1>2, GitAssumption
  <1>9. /\ x \in Call /\ x.head = tip /\ x.kind = call[c].kind /\ x.key = call[c].key
        /\ x.commit = m
    BY <1>7, <1>8 DEF Call
  <1> HIDE DEF x
  <1>10. CallOK("push", x, tip)
    BY <1>1, <1>2, <1>4, <1>9 DEF CallOK, HeadOK, CarriesFence
  <1>11. LeasesOK' /\ tip' = tip /\ failures' = failures /\ late' = late
    BY DEF BuildFence, leases, IInv, LeasesOK
  <1> QED
    BY <1>5, <1>10, <1>11, TipStays DEF IInv, Labels

LEMMA PushLockStep == ASSUME IInv, NEW c \in Clients, PushLock(c) PROVE IInv'
  <1>1. /\ pc[c] = "push" /\ call[c] \in Call /\ call[c].key \in Keys
        /\ call[c].commit \in Commit
    BY DEF IInv, CallOK, PushLock, Fencing
  <1>2. /\ call[c].token \in Nat /\ call[c].expiry \in Nat
        /\ call[c].commit.sidecar.owner \in Nat
    BY <1>1 DEF Call, Commit, Fence, NoSidecar, NoFence
  <1>3. LeasesOK'
    BY <1>1, <1>2, GrantedType DEF PushLock, IInv
  <1> QED
    BY <1>1, <1>3, PushReturns DEF PushLock

LEMMA PushRenewStep == ASSUME IInv, NEW c \in Clients, PushRenew(c) PROVE IInv'
  <1>1. /\ pc[c] = "push" /\ call[c] \in Call /\ call[c].key \in Keys
    BY DEF IInv, CallOK, PushRenew, Fencing
  <1>2. call[c].token \in Nat /\ call[c].expiry \in Nat /\ LeasesOK
    BY <1>1 DEF Call, IInv
  <1>3. registry' \in [Instances -> [Keys -> Entry]]
    BY <1>1, <1>2, EntryType DEF PushRenew
  <1>4. mutex' \in [Instances -> Clients \cup {None}]
    BY <1>2, MutexType DEF PushRenew
  <1>5. LeasesOK'
    BY <1>2, <1>3, <1>4 DEF PushRenew, LeasesOK
  <1> QED
    BY <1>1, <1>5, PushReturns DEF PushRenew

\* The ends of a call that changes the mutex only.
LEMMA FenceEnds ==
    ASSUME IInv, NEW c \in Clients,
           RenewSuperseded(c) \/ GiveUpFence(c) \/ PushFenceFails(c)
    PROVE  IInv'
  <1>1. Return(c) /\ ReleaseMutex(c) /\ UNCHANGED <<now, tokens, registry, lease, tip>>
    BY DEF RenewSuperseded, GiveUpFence, PushFenceFails
  <1>2. LeasesOK'
    BY <1>1, MutexType DEF IInv, LeasesOK
  <1>3. failures' \in Nat /\ \A m \in late' : LateOK(m, tip)
    <2>1. CASE RenewSuperseded(c) \/ GiveUpFence(c)
      BY <2>1 DEF RenewSuperseded, GiveUpFence, IInv
    <2>2. CASE PushFenceFails(c)
      BY <2>2, GiveUpKeepsLate DEF PushFenceFails, Fencing
    <2> QED
      BY <2>1, <2>2 DEF RenewSuperseded, GiveUpFence, PushFenceFails
  <1> QED
    BY <1>1, <1>2, <1>3, Returns

LEMMA RetryFenceStep == ASSUME IInv, NEW c \in Clients, RetryFence(c) PROVE IInv'
  <1>1. pc[c] = "push" /\ CallOK("push", call[c], tip) /\ call[c].attempts < MaxAttempts
    BY DEF IInv, RetryFence, Fencing
  <1>2. CallOK("decide", call[c], tip)
    BY <1>1 DEF CallOK
  <1>3. call' = [call EXCEPT ![c] = call[c]] /\ pc' = [pc EXCEPT ![c] = "decide"]
    BY DEF RetryFence, Goto, IInv
  <1>4. LeasesOK' /\ tip' = tip /\ failures' = failures /\ late' = late
    BY DEF RetryFence, leases, IInv, LeasesOK
  <1> QED
    BY <1>2, <1>3, <1>4, TipStays DEF IInv, Labels

-----------------------------------------------------------------------------
(***************************************************************************)
(* unlock(), the network and the processes.                                *)
(***************************************************************************)
LEMMA UnlockStep == ASSUME IInv, NEW c \in Clients, Unlock(c) PROVE IInv'
  <1>1. LeasesOK'
    BY ReleasedType DEF Unlock, IInv
  <1> QED
    BY <1>1 DEF Unlock, IInv

LEMMA LateLandsStep == ASSUME IInv, LateLands PROVE IInv'
  <1>1. PICK m \in late : Lands(m.commit)
    BY DEF LateLands
  <1>2. m.commit \in Commit
    BY DEF IInv, LateOK
  <1>3. TipOK(tip') /\ late' = {} /\ \A c \in Clients : CallOK(pc[c], call[c], tip')
    BY <1>1, <1>2, TipMoves
  <1>4. LeasesOK' /\ UNCHANGED <<pc, call, failures>>
    BY DEF LateLands, leases, IInv, LeasesOK
  <1> QED
    BY <1>3, <1>4 DEF IInv

LEMMA CrashStep == ASSUME IInv, NEW i \in Instances, Crash(i) PROVE IInv'
  <1>1. LeasesOK' /\ tip' = tip /\ failures' \in Nat
    BY ForgottenType DEF Crash, IInv
  <1> DEFINE gone == {c \in Clients : Caller(c) = i}
  <1>2. /\ pc' = [c \in Clients |-> IF c \in gone THEN "idle" ELSE pc[c]]
        /\ call' = [c \in Clients |-> IF c \in gone THEN NoCall ELSE call[c]]
    BY DEF Crash
  <1> HIDE DEF gone
  <1>3. pc' \in [Clients -> Labels] /\ call' \in [Clients -> Call]
    BY <1>2, EmptyTypes DEF IInv, Labels
  <1>4. \A c \in Clients : CallOK(pc'[c], call'[c], tip)
    BY <1>2, IdleOK DEF IInv
  <1>5. ASSUME NEW m \in late' PROVE LateOK(m, tip)
    <2>1. \/ m \in late
          \/ \E c \in Clients : /\ m = [commit |-> call[c].commit, told |-> "crash"]
                                /\ pc[c] = "push" /\ ~Rejected(call[c].commit)
      BY <1>1 DEF Crash
    <2>2. CASE m \in late
      BY <2>2 DEF IInv
    <2>3. ASSUME NEW c \in Clients, m = [commit |-> call[c].commit, told |-> "crash"],
                 pc[c] = "push", ~Rejected(call[c].commit)
          PROVE  LateOK(m, tip)
      BY <2>3, LateIsCurrent DEF LateOK
    <2> QED
      BY <2>1, <2>2, <2>3
  <1> QED
    BY <1>1, <1>3, <1>4, <1>5 DEF IInv

LEMMA TickStep == ASSUME IInv, Tick PROVE IInv'
  BY DEF Tick, leases, IInv, LeasesOK

-----------------------------------------------------------------------------
(***************************************************************************)
(* The theorems.                                                           *)
(***************************************************************************)
LEMMA NextIInv == ASSUME IInv, Next PROVE IInv'
  <1>1. ASSUME NEW c \in Clients, Begin(c) PROVE IInv'
    BY <1>1, BeginWritesStep, BeginLockStep, BeginRenewStep, UnlockStep DEF Begin
  <1>2. ASSUME NEW c \in Clients, Continue(c) PROVE IInv'
    BY <1>2, BuildWriteStep, WriteEnds, PushWriteFailsStep, BuildFenceStep, PushLockStep,
       PushRenewStep, FenceEnds, RetryFenceStep
       DEF Continue
  <1> QED
    BY <1>1, <1>2, LateLandsStep, CrashStep, TickStep DEF Next

LEMMA StutterIInv == ASSUME IInv, UNCHANGED vars PROVE IInv'
  BY DEF vars, leases, IInv, LeasesOK

\* What a client has decided on is the tree of the head it captured, and that is
\* the tip for as long as its push can land.
THEOREM InductiveInvariant == Spec => []IInv
  <1>1. IInv /\ [Next]_vars => IInv'
    BY NextIInv, StutterIInv
  <1> QED
    BY InitIInv, <1>1, PTL DEF Spec

\* Every reachable state is well typed.
THEOREM TypeCorrect == Spec => []TypeOK
  BY InductiveInvariant, InvTypeOK, PTL

\* What makes the tip of a step is the commit of a client or a late one, and it
\* was built on the tip.
LEMMA LandedCommit ==
    ASSUME IInv, Next, tip' # tip
    PROVE  \/ \E c \in Clients : pc[c] = "push" /\ Lands(call[c].commit)
           \/ \E m \in late : Lands(m.commit)
  <1>1. ASSUME NEW c \in Clients, Begin(c) PROVE FALSE
    BY <1>1 DEF Begin, BeginCreate, BeginUpdate, BeginWrite, BeginLock, BeginRenew, Unlock
  <1>2. ASSUME NEW c \in Clients, Continue(c) PROVE pc[c] = "push" /\ Lands(call[c].commit)
    <2>1. PushWrite(c) \/ PushLock(c) \/ PushRenew(c)
      BY <1>2 DEF Continue, BuildWrite, RefuseWrite, PushWriteRejected, PushWriteFails,
                  BuildFence, RenewSuperseded, RetryFence, GiveUpFence, PushFenceFails
    <2> QED
      BY <2>1 DEF PushWrite, PushLock, PushRenew, Writing, Fencing, Pushed, UpToDate
  <1> QED
    BY <1>1, <1>2 DEF Next, LateLands, Crash, Tick

LEMMA LandingIsFenced ==
    ASSUME IInv, Next, tip' # tip, tip'.made.body # None, tip'.made.sidecar # NoSidecar
    PROVE  tip'.made.sidecar.accepted = tip.fence[tip'.made.key].owner
  <1>1. ASSUME NEW c \in Clients, pc[c] = "push", Lands(call[c].commit)
        PROVE  CarriesFence(call[c].commit, tip) /\ tip'.made = call[c].commit
    BY <1>1, LateIsCurrent, TipMoves DEF Lands, Rejected
  <1>2. ASSUME NEW m \in late, Lands(m.commit)
        PROVE  CarriesFence(m.commit, tip) /\ tip'.made = m.commit
    BY <1>2, TipMoves DEF IInv, LateOK
  <1> QED
    BY <1>1, <1>2, LandedCommit DEF CarriesFence

\* A CAS-update lands, even late, only under the fence that owns its key at the
\* tip it lands on.
THEOREM NoOvertaking == Spec => LandsUnderCurrentFence
  <1>1. IInv /\ [Next]_vars =>
          [LET m == tip'.made IN
           tip' # tip /\ m.body # None /\ m.sidecar # NoSidecar
           => m.sidecar.accepted = tip.fence[m.key].owner]_vars
    BY LandingIsFenced
  <1> QED
    BY InductiveInvariant, <1>1, PTL DEF Spec, LandsUnderCurrentFence

-----------------------------------------------------------------------------
(***************************************************************************)
(* How long an entry lasts.  Only a commit on the tip can land, and when   *)
(* one does the others no longer can (Live): so the tokens of the sidecars *)
(* that are stored or may land are those of the past, and a lock() in      *)
(* progress has one nobody has seen; a late lock() never enters its token  *)
(* anywhere.  A commit that keeps the token it found does not shorten its  *)
(* lease, because every caller asks for the same ttl_s.                    *)
(***************************************************************************)
Live(c) == pc[c] = "push" /\ call[c].commit.base = tip.id

\* A sidecar that is stored, or that a commit other than c's own may bring.
Elsewhere(c, f) ==
    \/ \E k \in Keys : f = tip.fence[k]
    \/ \E m \in late : f = m.commit.sidecar
    \/ \E d \in Clients : d # c /\ Live(d) /\ f = call[d].commit.sidecar
Somewhere(f) == Elsewhere(None, f)

AfloatOK == \A f : Somewhere(f) => f.token <= tokens /\ Early(f.expiry)

Fences == {"lock", "renew"}
InFence(c) == pc[c] # "idle" /\ call[c].kind \in Fences

\* The token of a lock() in progress is its own; nothing that has the token of a
\* renew() in progress lasts longer than that renew() asks for.
FenceCallOK(c) ==
    InFence(c) =>
        /\ call[c].token # 0 /\ call[c].token <= tokens /\ Early(call[c].expiry)
        /\ call[c].kind = "lock" =>
            /\ Unheld(call[c].token)
            /\ \A f : Elsewhere(c, f) => f.token # call[c].token
            /\ \A d \in Clients : d # c /\ InFence(d) => call[d].token # call[c].token
        /\ call[c].kind = "renew" =>
            /\ lease[c].token = call[c].token
            /\ \A f : Somewhere(f) /\ f.token = call[c].token => f.expiry <= call[c].expiry

\* The sidecar of a commit that is no lock()'s has the token stored at the tip,
\* for no less time.
Copied(m) ==
    m.sidecar # NoSidecar => /\ m.sidecar.token = tip.fence[m.key].token
                             /\ m.sidecar.expiry >= tip.fence[m.key].expiry

\* The commit of a call x.
SentOK(x) ==
    /\ x.commit.base = tip.id /\ x.kind # "lock" => Copied(x.commit)
    /\ x.kind \in Fences => /\ x.commit.key = x.key
                            /\ x.commit.sidecar.token = x.token
                            /\ x.commit.sidecar.expiry = x.expiry

CommitsOK == \A c \in Clients : pc[c] = "push" => SentOK(call[c])

LatesOK == \A m \in late : Copied(m.commit) \/ Unheld(m.commit.sidecar.token)

\* The commit at the tip brought the sidecar that is there.
MadeOK == tip.made.sidecar # NoSidecar => tip.fence[tip.made.key] = tip.made.sidecar

DurInv ==
    /\ HeldOK /\ AfloatOK /\ CommitsOK /\ LatesOK /\ MadeOK
    /\ \A c \in Clients : FenceCallOK(c)

\* What the records of a state hold.
LEMMA SidecarType ==
    ASSUME NEW m \in Commit
    PROVE  /\ m.sidecar.token \in Int /\ m.sidecar.expiry \in Nat /\ m.key \in Keys
           /\ m.base \in Nat
           /\ m.sidecar # NoSidecar => m.sidecar.token \in Nat
  BY DEF Commit, Fence, NoSidecar, NoFence

LEMMA Records ==
    ASSUME IInv
    PROVE  /\ now \in Nat /\ tokens \in Nat /\ None \notin Clients
           /\ tip \in Tip /\ tip.id \in Nat
           /\ \A c \in Clients : /\ call[c] \in Call /\ call[c].token \in Nat
                                 /\ call[c].expiry \in Nat /\ lease[c].token \in Nat
                                 /\ Caller(c) \in Instances
           /\ \A i \in Instances, k \in Keys : /\ registry[i][k].token \in Nat
                                               /\ registry[i][k].expiry \in Nat
           /\ \A k \in Keys : /\ tip.fence[k] \in Fence
                              /\ tip.fence[k].token \in Nat /\ tip.fence[k].expiry \in Nat
           /\ \A c \in Clients : pc[c] = "push" => /\ call[c].commit.sidecar.token \in Int
                                                   /\ call[c].commit.sidecar.expiry \in Nat
                                                   /\ call[c].commit \in Commit
           /\ \A m \in late : /\ m.commit.sidecar.token \in Int
                              /\ m.commit.sidecar.expiry \in Nat
                              /\ m.commit \in Commit
  <1>1. now \in Nat /\ tokens \in Nat /\ None \notin Clients
    BY SentinelAssumption DEF IInv, LeasesOK
  <1>2. \A c \in Clients : /\ call[c] \in Call /\ call[c].token \in Nat /\ call[c].expiry \in Nat
                           /\ lease[c].token \in Nat /\ Caller(c) \in Instances
    BY CallerType DEF IInv, LeasesOK, Lease, Call
  <1>3. \A i \in Instances, k \in Keys : /\ registry[i][k].token \in Nat
                                         /\ registry[i][k].expiry \in Nat
    BY DEF IInv, LeasesOK, Entry
  <1>4. tip \in Tip /\ tip.id \in Nat
    BY DEF IInv, TipOK, Tip
  <1>5. \A k \in Keys : /\ tip.fence[k] \in Fence
                        /\ tip.fence[k].token \in Nat /\ tip.fence[k].expiry \in Nat
    BY <1>4 DEF Tip, Fence
  <1>6. \A c \in Clients : pc[c] = "push" => call[c].commit \in Commit
    BY DEF IInv, CallOK
  <1>7. \A m \in late : m.commit \in Commit
    BY DEF IInv, LateOK
  <1> QED
    BY <1>1, <1>2, <1>3, <1>4, <1>5, <1>6, <1>7, SidecarType

\* What a push that lands leaves stored, and that it is the last on this tip.
LEMMA LandsOn ==
    ASSUME IInv, NEW m \in Commit, Lands(m)
    PROVE  /\ late' = {} /\ tip.id = m.base /\ tip'.made = m
           /\ \A k \in Keys : tip'.fence[k] = IF m.sidecar # NoSidecar /\ k = m.key THEN m.sidecar
                                              ELSE tip.fence[k]
           /\ \A c \in Clients : pc[c] = "push" => call[c].commit.base # tip'.id
  <1>1. tip' = Applied(m) /\ tip.id = m.base /\ late' = {} /\ tip \in Tip /\ tip.id \in Nat
    BY Records DEF Lands
  <1>2. tip'.id = tip.id + 1 /\ tip'.made = m
    BY <1>1 DEF Applied
  <1>3. tip'.fence = IF m.sidecar = NoSidecar THEN tip.fence
                     ELSE [tip.fence EXCEPT ![m.key] = m.sidecar]
    BY <1>1 DEF Applied
  <1>4. tip.fence \in [Keys -> Fence]
    BY <1>1 DEF Tip
  <1>5. ASSUME NEW c \in Clients, pc[c] = "push" PROVE call[c].commit.base # tip'.id
    <2>1. call[c].commit.base = call[c].head.id /\ call[c].head.id =< tip.id
      BY <1>5 DEF IInv, CallOK, HeadOK
    <2>2. call[c].commit.base \in Nat
      BY <1>5, Records, SidecarType
    <2> QED
      BY <1>1, <1>2, <2>1, <2>2
  <1> QED
    BY <1>1, <1>2, <1>3, <1>4, <1>5

-----------------------------------------------------------------------------
\* A client's commit lands, is late or is dropped; or it had none.
Sinks(c) ==
    /\ \E p \in Labels \ {"push"} : \E x : pc' = [pc EXCEPT ![c] = p] /\ call' = [call EXCEPT ![c] = x]
    /\ \/ /\ tip' = tip
          /\ \A m \in late' : m \in late \/ (Live(c) /\ m.commit = call[c].commit)
       \/ pc[c] = "push" /\ Lands(call[c].commit)
    /\ now' = now

\* lock() or renew() enters its token; unlock() takes one out.
Enters(c) ==
    /\ tokens' \in Nat /\ tokens' >= tokens
    /\ \A i \in Instances, k \in Keys :
        \/ registry'[i][k] \in {registry[i][k], NoEntry}
        \/ InFence(c) /\ registry'[i][k].token = call[c].token
    /\ \A d \in Clients : d # c => lease'[d] = lease[d]
    /\ \/ lease'[c].token = lease[c].token
       \/ InFence(c) /\ call[c].kind = "lock" /\ lease'[c].token = call[c].token
    /\ late' \subseteq late \/ UNCHANGED <<registry, lease>>

LEMMA NothingNew ==
    ASSUME IInv, NEW c \in Clients, Sinks(c)
    PROVE  \A d \in Clients \cup {None} : \A f : d # c /\ Elsewhere(d, f)' => Elsewhere(d, f)
  <1> SUFFICES ASSUME NEW d \in Clients \cup {None}, NEW f, d # c, Elsewhere(d, f)'
               PROVE  Elsewhere(d, f)
    OBVIOUS
  <1>1. \A e \in Clients : pc'[e] = "push" => e # c /\ pc[e] = "push" /\ call'[e] = call[e]
    BY DEF Sinks, IInv
  <1>2. CASE /\ tip' = tip
             /\ \A m \in late' : m \in late \/ (Live(c) /\ m.commit = call[c].commit)
    BY <1>1, <1>2 DEF Elsewhere, Live
  <1>3. CASE pc[c] = "push" /\ Lands(call[c].commit)
    <2>1. call[c].commit \in Commit
      BY <1>3, Records
    <2>2. /\ late' = {} /\ Live(c)
          /\ \A k \in Keys : tip'.fence[k] \in {tip.fence[k], call[c].commit.sidecar}
          /\ \A e \in Clients : pc[e] = "push" => call[e].commit.base # tip'.id
      BY <1>3, <2>1, LandsOn DEF Live
    <2>3. \A e \in Clients : ~Live(e)'
      BY <1>1, <2>2 DEF Live
    <2> QED
      BY <2>2, <2>3 DEF Elsewhere
  <1> QED
    BY <1>2, <1>3 DEF Sinks

\* A token that neither the client nor its call has is held by nobody after it.
LEMMA StaysUnheld ==
    ASSUME IInv, NEW c \in Clients, Enters(c), NEW token, Unheld(token),
           InFence(c) => token # call[c].token
    PROVE  Unheld(token)'
  <1>1. \A d \in Clients : lease'[d].token # token
    BY DEF Enters, Unheld
  <1>2. \A i \in Instances, k \in Keys : registry'[i][k].token # token
    BY DEF Enters, Unheld, NoEntry
  <1> QED
    BY <1>1, <1>2 DEF Unheld

LEMMA SinkStep ==
    ASSUME IInv, DurInv, NEW c \in Clients, Sinks(c), Enters(c), FenceCallOK(c)'
    PROVE  DurInv'
  <1>0. /\ now' = now /\ tokens' \in Nat /\ tokens' >= tokens /\ tokens \in Nat
        /\ \A t : t \in Int /\ t <= tokens => t <= tokens'
    BY Records DEF Sinks, Enters
  <1>1. \A d \in Clients : d # c => pc'[d] = pc[d] /\ call'[d] = call[d]
    BY DEF Sinks, IInv
  <1>2. pc'[c] # "push"
    BY DEF Sinks, IInv
  <1>3. FenceCallOK(c) /\ HeldOK /\ AfloatOK /\ CommitsOK /\ LatesOK /\ MadeOK
    BY DEF DurInv
  <1>4. InFence(c) => call[c].token # 0 /\ call[c].token <= tokens
    BY <1>3 DEF FenceCallOK
  <1>5. HeldOK'
    <2>1. ASSUME NEW i \in Instances, NEW k \in Keys
          PROVE  /\ registry'[i][k].token <= tokens'
                 /\ registry'[i][k].token = 0 => registry'[i][k].expiry = 0
      BY <1>0, <1>3, <1>4, Records DEF Enters, HeldOK, NoEntry
    <2>2. ASSUME NEW d \in Clients PROVE lease'[d].token <= tokens'
      BY <1>0, <1>3, <1>4, Records DEF Enters, HeldOK
    <2>3. ASSUME NEW a \in Clients, NEW b \in Clients, a # b, lease'[a].token # 0
          PROVE  lease'[a].token # lease'[b].token
      <3>1. InFence(c) /\ call[c].kind = "lock" => \A d \in Clients : lease[d].token # call[c].token
        BY <1>3 DEF FenceCallOK, Unheld
      <3> QED
        BY <1>3, <2>3, <3>1 DEF Enters, HeldOK
    <2> QED
      BY <2>1, <2>2, <2>3 DEF HeldOK
  <1>6. AfloatOK'
    <2> SUFFICES ASSUME NEW f, Somewhere(f)' PROVE f.token <= tokens' /\ Early(f.expiry)'
      BY DEF AfloatOK
    <2>1. Somewhere(f)
      BY NothingNew, Records DEF Somewhere
    <2>2. f.token \in Int
      BY <2>1, Records DEF Somewhere, Elsewhere, Live
    <2> QED
      BY <1>0, <1>3, <2>1, <2>2 DEF AfloatOK, Early
  <1>7. ASSUME NEW d \in Clients PROVE FenceCallOK(d)'
    <2>1. CASE d = c
      BY <2>1
    <2>2. CASE d # c
      <3> SUFFICES ASSUME InFence(d)' PROVE FenceCallOK(d)'
        BY DEF FenceCallOK
      <3>1. InFence(d) /\ call'[d] = call[d] /\ FenceCallOK(d)
        BY <1>1, <2>2 DEF InFence, DurInv
      <3>2. call[d].token # 0 /\ call[d].token <= tokens' /\ Early(call[d].expiry)'
        BY <1>0, <3>1, Records DEF FenceCallOK, Early
      <3>3. CASE call[d].kind = "lock"
        <4>1. Unheld(call[d].token)'
          <5>1. Unheld(call[d].token) /\ (InFence(c) => call[d].token # call[c].token)
            BY <2>2, <3>1, <3>3 DEF FenceCallOK
          <5> DEFINE t == call[d].token
          <5>2. PICK u : u = t
            OBVIOUS
          <5>3. Unheld(u)'
            BY <5>1, <5>2, StaysUnheld
          <5> QED
            BY <3>1, <5>2, <5>3 DEF Unheld
        <4>2. \A f : Elsewhere(d, f)' => f.token # call[d].token
          BY <2>2, <3>1, <3>3, NothingNew DEF FenceCallOK
        <4>3. ASSUME NEW e \in Clients, e # d, InFence(e)' PROVE call'[e].token # call[d].token
          <5>1. CASE e = c
            <6>1. CASE call'[c].kind = "lock"
              BY <2>2, <3>1, <4>3, <5>1, <6>1 DEF FenceCallOK, InFence
            <6>2. CASE call'[c].kind = "renew"
              <7>1. lease'[c].token = call'[c].token
                BY <4>3, <5>1, <6>2 DEF FenceCallOK
              <7> QED
                BY <3>1, <4>1, <5>1, <7>1 DEF Unheld
            <6> QED
              BY <4>3, <5>1, <6>1, <6>2 DEF InFence, Fences
          <5>2. CASE e # c
            BY <1>1, <3>1, <3>3, <4>3, <5>2 DEF FenceCallOK, InFence
          <5> QED
            BY <5>1, <5>2
        <4> QED
          BY <3>1, <3>2, <3>3, <4>1, <4>2, <4>3 DEF FenceCallOK
      <3>4. CASE call[d].kind = "renew"
        <4>1. lease'[d].token = call[d].token
          BY <2>2, <3>1, <3>4 DEF FenceCallOK, Enters
        <4>2. \A f : Somewhere(f)' /\ f.token = call[d].token => f.expiry <= call[d].expiry
          BY <3>1, <3>4, NothingNew, Records DEF FenceCallOK, Somewhere
        <4> QED
          BY <3>1, <3>2, <3>4, <4>1, <4>2 DEF FenceCallOK
      <3> QED
        BY <3>1, <3>3, <3>4 DEF InFence, Fences
    <2> QED
      BY <2>1, <2>2
  <1>8. CASE pc[c] = "push" /\ Lands(call[c].commit)
    <2>1. call[c].commit \in Commit
      BY <1>8, Records
    <2>2. late' = {} /\ tip'.made = call[c].commit
      BY <1>8, <2>1, LandsOn
    <2>3. CommitsOK'
      <3>1. \A d \in Clients : pc[d] = "push" => call[d].commit.base # tip'.id
        BY <1>8, <2>1, LandsOn
      <3> QED
        BY <1>1, <1>2, <1>3, <3>1 DEF CommitsOK, SentOK
    <2>4. MadeOK'
      BY <1>8, <2>1, <2>2, LandsOn, SidecarType DEF MadeOK
    <2> QED
      BY <1>5, <1>6, <1>7, <2>2, <2>3, <2>4 DEF DurInv, LatesOK
  <1>9. CASE /\ tip' = tip
             /\ \A m \in late' : m \in late \/ (Live(c) /\ m.commit = call[c].commit)
    <2>1. CommitsOK' /\ MadeOK'
      BY <1>1, <1>2, <1>3, <1>9 DEF CommitsOK, SentOK, Copied, MadeOK
    <2>2. ASSUME NEW m \in late' PROVE Copied(m.commit)' \/ Unheld(m.commit.sidecar.token)'
      <3>0. Copied(m.commit) => Copied(m.commit)'
        BY <1>9 DEF Copied
      <3>1. CASE m \in late
        <4>1. Copied(m.commit) \/ Unheld(m.commit.sidecar.token)
          BY <1>3, <3>1 DEF LatesOK
        <4>2. Unheld(m.commit.sidecar.token) /\ InFence(c) => m.commit.sidecar.token # call[c].token
          <5>1. Elsewhere(c, m.commit.sidecar)
            BY <3>1 DEF Elsewhere
          <5>2. CASE call[c].kind = "lock"
            BY <1>3, <5>1, <5>2 DEF FenceCallOK
          <5>3. CASE call[c].kind = "renew"
            BY <1>3, <5>3 DEF FenceCallOK, Unheld
          <5> QED
            BY <5>2, <5>3 DEF InFence, Fences
        <4> QED
          BY <3>0, <4>1, <4>2, StaysUnheld
      <3>2. CASE m \notin late
        <4>1. Live(c) /\ m.commit = call[c].commit /\ UNCHANGED <<registry, lease>>
          BY <1>9, <3>2 DEF Enters
        <4>2. SentOK(call[c])
          BY <1>3, <4>1 DEF CommitsOK, Live
        <4>3. Copied(m.commit) \/ Unheld(m.commit.sidecar.token)
          BY <1>3, <4>1, <4>2 DEF SentOK, Live, FenceCallOK, InFence, Fences
        <4> QED
          BY <3>0, <4>1, <4>3 DEF Unheld
      <3> QED
        BY <3>1, <3>2
    <2> QED
      BY <1>5, <1>6, <1>7, <2>1, <2>2 DEF DurInv, LatesOK
  <1> QED
    BY <1>8, <1>9 DEF Sinks

\* A sidecar that c may send: not from the future, and no surprise to the others.
Fits(c, g) ==
    /\ g.token <= tokens /\ Early(g.expiry)
    /\ \A d \in Clients :
        d # c /\ InFence(d) =>
          /\ call[d].kind = "lock" => g.token # call[d].token
          /\ call[d].kind = "renew" => (g.token = call[d].token => g.expiry <= call[d].expiry)

\* A client builds a commit; one on an old head may carry what it likes.
LEMMA RiseStep ==
    ASSUME IInv, DurInv, NEW c \in Clients, NEW x, UNCHANGED <<now, leases, tip, late>>,
           pc' = [pc EXCEPT ![c] = "push"], call' = [call EXCEPT ![c] = x], SentOK(x),
           x.kind \in Fences => /\ InFence(c) /\ x.kind = call[c].kind
                                /\ x.token = call[c].token /\ x.expiry = call[c].expiry,
           x.commit.base = tip.id => Fits(c, x.commit.sidecar)
    PROVE  DurInv'
  <1> DEFINE g == x.commit.sidecar
             live == x.commit.base = tip.id
  <1>f. live => /\ g.token <= tokens /\ Early(g.expiry)
                /\ \A d \in Clients :
                    d # c /\ InFence(d) =>
                      /\ call[d].kind = "lock" => g.token # call[d].token
                      /\ call[d].kind = "renew" => (g.token = call[d].token => g.expiry <= call[d].expiry)
    BY DEF Fits
  <1>0. /\ UNCHANGED <<now, tokens, registry, mutex, lease, tip, late>>
        /\ \A d \in Clients : d # c => pc'[d] = pc[d] /\ call'[d] = call[d]
        /\ pc'[c] = "push" /\ call'[c] = x
        /\ None \notin Clients
    BY Records DEF leases, IInv
  <1>1. HeldOK /\ AfloatOK /\ CommitsOK /\ LatesOK /\ MadeOK /\ \A d \in Clients : FenceCallOK(d)
    BY DEF DurInv
  <1>2. HeldOK' /\ LatesOK' /\ MadeOK'
    BY <1>0, <1>1 DEF HeldOK, LatesOK, Unheld, Copied, MadeOK
  <1>3. \A d \in Clients \cup {None} : \A f :
          Elsewhere(d, f)' => Elsewhere(d, f) \/ (d # c /\ live /\ f = g)
    BY <1>0 DEF Elsewhere, Live
  <1>x. x.kind \in Fences => g.token = x.token /\ g.expiry = x.expiry
    BY DEF SentOK
  <1>5. CommitsOK'
    BY <1>0, <1>1 DEF CommitsOK, SentOK, Copied
  <1> HIDE DEF g, live
  <1>4. AfloatOK'
    <2> SUFFICES ASSUME NEW f, Somewhere(f)' PROVE f.token <= tokens' /\ Early(f.expiry)'
      BY DEF AfloatOK
    <2>1. Somewhere(f) \/ (live /\ f = g)
      BY <1>3 DEF Somewhere
    <2> QED
      BY <1>0, <1>1, <1>f, <2>1 DEF AfloatOK, Early
  <1>6. ASSUME NEW d \in Clients, InFence(d)'
        PROVE  InFence(d) /\ call'[d].kind = call[d].kind /\ call'[d].token = call[d].token
               /\ call'[d].expiry = call[d].expiry
    BY <1>0, <1>6 DEF InFence
  <1>7. ASSUME NEW d \in Clients PROVE FenceCallOK(d)'
    <2> SUFFICES ASSUME InFence(d)' PROVE FenceCallOK(d)'
      BY DEF FenceCallOK
    <2>1. InFence(d) /\ call'[d].kind = call[d].kind /\ call'[d].token = call[d].token
          /\ call'[d].expiry = call[d].expiry /\ FenceCallOK(d)
      BY <1>1, <1>6
    <2>2. call'[d].token # 0 /\ call'[d].token <= tokens' /\ Early(call[d].expiry)'
      BY <1>0, <2>1 DEF FenceCallOK, Early
    <2>3. ASSUME call'[d].kind = "lock"
          PROVE  /\ Unheld(call[d].token)'
                 /\ \A f : Elsewhere(d, f)' => f.token # call'[d].token
                 /\ \A e \in Clients : e # d /\ InFence(e)' => call'[e].token # call'[d].token
      <3>1. Unheld(call[d].token)'
        BY <1>0, <2>1, <2>3 DEF FenceCallOK, Unheld
      <3>2. \A f : Elsewhere(d, f)' => f.token # call'[d].token
        BY <1>3, <1>f, <2>1, <2>3 DEF FenceCallOK
      <3>3. \A e \in Clients : e # d /\ InFence(e)' => call'[e].token # call'[d].token
        BY <1>6, <2>1, <2>3 DEF FenceCallOK
      <3> QED
        BY <3>1, <3>2, <3>3
    <2>4. ASSUME call'[d].kind = "renew"
          PROVE  /\ lease'[d].token = call'[d].token
                 /\ \A f : Somewhere(f)' /\ f.token = call'[d].token => f.expiry <= call'[d].expiry
      <3>1. lease'[d].token = call'[d].token
        BY <1>0, <2>1, <2>4 DEF FenceCallOK
      <3>2. ASSUME NEW f, Somewhere(f)', f.token = call'[d].token
            PROVE  f.expiry <= call'[d].expiry
        <4>1. Somewhere(f) \/ (live /\ f = g)
          BY <1>3, <3>2 DEF Somewhere
        <4>2. CASE d = c
          <5>1. x.kind \in Fences /\ g.expiry = x.expiry /\ x.expiry = call[d].expiry
            BY <1>0, <1>x, <2>1, <2>4, <4>2 DEF Fences
          <5>2. call[d].expiry \in Nat
            BY Records
          <5> QED
            BY <2>1, <2>4, <3>2, <4>1, <5>1, <5>2 DEF FenceCallOK
        <4>3. CASE d # c
          BY <1>f, <2>1, <2>4, <3>2, <4>1, <4>3 DEF FenceCallOK
        <4> QED
          BY <4>2, <4>3
      <3> QED
        BY <3>1, <3>2
    <2>5. FenceCallOK(d)'
      BY <2>2, <2>3, <2>4 DEF FenceCallOK
    <2> QED
      BY <2>5
  <1> QED
    BY <1>2, <1>4, <1>5, <1>7 DEF DurInv

\* A step that builds and sends nothing: the client goes on, with the same call or
\* without one.
LEMMA QuietStep ==
    ASSUME IInv, DurInv, NEW c \in Clients, NEW p \in Labels \ {"push"}, NEW x,
           UNCHANGED <<now, tokens, registry, lease, tip>>, late' = late,
           pc' = [pc EXCEPT ![c] = p], call' = [call EXCEPT ![c] = x],
           p = "idle" \/ x.kind \notin Fences \/ (pc[c] # "idle" /\ x = call[c])
    PROVE  DurInv'
  <1>1. Sinks(c)
    BY DEF Sinks
  <1>2. Enters(c)
    BY Records DEF Enters
  <1>3. FenceCallOK(c)'
    <2>1. pc'[c] = p /\ call'[c] = x /\ FenceCallOK(c) /\ None \notin Clients
      BY Records DEF IInv, DurInv
    <2>2. CASE p = "idle" \/ x.kind \notin Fences
      BY <2>1, <2>2 DEF FenceCallOK, InFence
    <2>3. CASE InFence(c) /\ x = call[c]
      <3>1. \A f : Somewhere(f)' => Somewhere(f)
        BY <1>1, <2>1, NothingNew DEF Somewhere
      <3>2. \A d \in Clients : d # c => pc'[d] = pc[d] /\ call'[d] = call[d]
        BY DEF IInv
      <3>3. \A f : Elsewhere(c, f)' => Elsewhere(c, f)
        BY <3>2 DEF Elsewhere, Live
      <3>4. /\ x.token # 0 /\ x.token <= tokens' /\ Early(x.expiry)'
        BY <2>1, <2>3 DEF FenceCallOK, Early
      <3>5. x.kind = "lock" => /\ Unheld(x.token)'
                               /\ \A f : Elsewhere(c, f)' => f.token # x.token
                               /\ \A d \in Clients : d # c /\ InFence(d)' => call'[d].token # x.token
        <4>1. x.kind = "lock" => Unheld(x.token)'
          BY <2>1, <2>3 DEF FenceCallOK, Unheld
        <4>2. x.kind = "lock" => \A f : Elsewhere(c, f)' => f.token # x.token
          BY <2>1, <2>3, <3>3 DEF FenceCallOK
        <4>3. x.kind = "lock" => \A d \in Clients : d # c /\ InFence(d)' => call'[d].token # x.token
          BY <2>1, <2>3, <3>2 DEF FenceCallOK, InFence
        <4> QED
          BY <4>1, <4>2, <4>3
      <3>6. x.kind = "renew" => /\ lease'[c].token = x.token
                                /\ \A f : Somewhere(f)' /\ f.token = x.token => f.expiry <= x.expiry
        BY <2>1, <2>3, <3>1 DEF FenceCallOK
      <3> QED
        BY <2>1, <3>4, <3>5, <3>6 DEF FenceCallOK
    <2> QED
      BY <2>2, <2>3 DEF InFence
  <1> QED
    BY <1>1, <1>2, <1>3, SinkStep

\* The client returns; its commit has landed or is late.
LEMMA ReturnStep ==
    ASSUME IInv, DurInv, NEW c \in Clients, Return(c), now' = now, Enters(c),
           \/ /\ tip' = tip
              /\ \A m \in late' : m \in late \/ (Live(c) /\ m.commit = call[c].commit)
           \/ pc[c] = "push" /\ Lands(call[c].commit)
    PROVE  DurInv'
  <1>1. pc' = [pc EXCEPT ![c] = "idle"] /\ call' = [call EXCEPT ![c] = NoCall] /\ pc'[c] = "idle"
    BY DEF Return, Goto, IInv
  <1>2. Sinks(c) /\ FenceCallOK(c)'
    BY <1>1 DEF Sinks, Labels, FenceCallOK, InFence
  <1> QED
    BY <1>2, SinkStep

-----------------------------------------------------------------------------
\* The steps of write().
LEMMA BeginWritesDur ==
    ASSUME IInv, DurInv, NEW c \in Clients, BeginCreate(c) \/ BeginUpdate(c) PROVE DurInv'
  <1>1. PICK kind \in {"create", "update"}, k \in Keys, b \in Bodies, e \in Bodies \cup {None} :
          BeginWrite(c, kind, k, b, e)
    BY DEF BeginCreate, BeginUpdate
  <1> DEFINE x == [NoCall EXCEPT !.kind = kind, !.key = k, !.body = b, !.expected = e, !.head = tip]
  <1>2. x.kind \notin Fences
    BY DEF NoCall, Fences
  <1>3. /\ call' = [call EXCEPT ![c] = x] /\ pc' = [pc EXCEPT ![c] = "decide"]
        /\ "decide" \in Labels \ {"push"}
    BY <1>1 DEF BeginWrite, Goto, Labels
  <1> HIDE DEF x
  <1>4. UNCHANGED <<now, tokens, registry, lease, tip>> /\ late' = late
    BY <1>1 DEF BeginWrite, leases
  <1> QED
    BY <1>2, <1>3, <1>4, QuietStep

\* Steps that read, go back or give up.
LEMMA QuietDur ==
    ASSUME IInv, DurInv, NEW c \in Clients,
           \/ RefuseWrite(c) \/ PushWriteRejected(c) \/ RenewSuperseded(c) \/ GiveUpFence(c)
           \/ RetryFence(c)
    PROVE  DurInv'
  <1>1. UNCHANGED <<now, tokens, registry, lease, tip>> /\ late' = late
    BY DEF leases, RefuseWrite, PushWriteRejected, RenewSuperseded, GiveUpFence, RetryFence
  <1>2. CASE Return(c)
    <2>1. pc' = [pc EXCEPT ![c] = "idle"] /\ call' = [call EXCEPT ![c] = NoCall]
          /\ "idle" \in Labels \ {"push"}
      BY <1>2 DEF Return, Goto, Labels
    <2> QED
      BY <1>1, <2>1, QuietStep
  <1>3. CASE RetryFence(c)
    <2>1. /\ pc' = [pc EXCEPT ![c] = "decide"] /\ call' = [call EXCEPT ![c] = call[c]]
          /\ "decide" \in Labels \ {"push"} /\ pc[c] # "idle"
      BY <1>3 DEF RetryFence, Fencing, Goto, Labels, IInv
    <2> QED
      BY <1>1, <2>1, QuietStep
  <1> QED
    BY <1>2, <1>3 DEF RefuseWrite, PushWriteRejected, RenewSuperseded, GiveUpFence

\* A write's commit, if it may land at all, keeps the token and the time stored.
LEMMA BuildWriteDur == ASSUME IInv, DurInv, NEW c \in Clients, BuildWrite(c) PROVE DurInv'
  <1>1. CallOK("decide", call[c], tip) /\ pc[c] = "decide"
    BY DEF IInv, BuildWrite, Writing
  <1>2. /\ call[c] \in Call /\ call[c].key \in Keys /\ call[c].head \in Tip
        /\ Sidecar(c) \in Fence /\ call[c].kind \in {"create", "update"}
    BY <1>1 DEF CallOK, Call, Tip, Sidecar, BuildWrite, Writing
  <1> DEFINE m == WriteCommit(c)
             x == [call[c] EXCEPT !.commit = m]
             s == tip.fence[call[c].key]
  <1>3. call' = [call EXCEPT ![c] = x] /\ pc' = [pc EXCEPT ![c] = "push"]
    BY DEF BuildWrite, Goto, IInv
  <1>4. m.base = call[c].head.id /\ m.key = call[c].key
    BY DEF WriteCommit
  <1>5. m.base = tip.id => /\ m.sidecar = NoSidecar \/ m.sidecar.token = s.token
                           /\ m.sidecar = NoSidecar \/ m.sidecar.expiry = s.expiry
    <2>1. CASE call[c].kind = "create"
      BY <2>1 DEF WriteCommit
    <2>2. CASE call[c].kind # "create"
      <3>1. m.sidecar = [Sidecar(c) EXCEPT !.accepted = lease[c].fence]
        BY <2>2 DEF WriteCommit
      <3>2. m.sidecar.token = Sidecar(c).token /\ m.sidecar.expiry = Sidecar(c).expiry
        BY <1>2, <3>1 DEF Fence
      <3>3. m.base = tip.id => Sidecar(c) = s
        BY <1>1, <1>4 DEF CallOK, HeadOK, Sidecar
      <3> QED
        BY <3>2, <3>3
    <2> QED
      BY <2>1, <2>2
  <1> HIDE DEF m
  <1>6. x.commit = m /\ x.kind = call[c].kind /\ x.kind \notin Fences
    BY <1>2 DEF Call, Fences
  <1> HIDE DEF x
  <1>7. s.token \in Nat /\ s.expiry \in Nat /\ \A d \in Clients \cup {None} : Elsewhere(d, s)
    BY <1>2, Records DEF Elsewhere
  <1>8. SentOK(x)
    BY <1>2, <1>4, <1>5, <1>6, <1>7 DEF SentOK, Copied
  <1>9. Fits(c, s)
    BY <1>7 DEF Fits, DurInv, AfloatOK, Somewhere, FenceCallOK
  <1>10. Fits(c, NoSidecar)
    <2>1. NoSidecar.token = -1 /\ NoSidecar.expiry = 0
      BY DEF NoSidecar, NoFence
    <2>2. NoSidecar.token <= tokens /\ Early(NoSidecar.expiry)
      BY <2>1, Records, ShapeAssumption DEF Early
    <2> QED
      BY <2>1, <2>2, Records DEF Fits
  <1>11. m.base = tip.id => Fits(c, m.sidecar)
    BY <1>5, <1>9, <1>10 DEF Fits
  <1>12. UNCHANGED <<now, leases, tip, late>>
    BY DEF BuildWrite
  <1>13. x.commit.base = tip.id => Fits(c, x.commit.sidecar)
    BY <1>6, <1>11
  <1> QED
    BY <1>3, <1>6, <1>8, <1>12, <1>13, RiseStep

-----------------------------------------------------------------------------
\* The steps of lock() and renew(): the token is new, or that of the client's lease.
LEMMA BeginLockDur ==
    ASSUME OneTTL, IInv, DurInv, NEW c \in Clients, BeginLock(c) PROVE DurInv'
  <1>1. PICK k \in Keys, ttl \in TTLs :
          /\ tokens' = tokens + 1
          /\ call' = [call EXCEPT ![c] = [NoCall EXCEPT !.kind = "lock", !.key = k,
                          !.token = tokens + 1, !.expiry = now + ttl]]
          /\ pc' = [pc EXCEPT ![c] = "decide"]
          /\ UNCHANGED <<now, registry, lease, tip, late, failures>>
    BY DEF BeginLock, Goto
  <1>2. Sinks(c)
    BY <1>1 DEF Sinks, Labels
  <1>3. Enters(c)
    BY <1>1, Records DEF Enters
  <1>4. PICK n \in Nat : n = tokens + 1
    BY Records
  <1>5. /\ call'[c].kind = "lock" /\ call'[c].token = n /\ call'[c].expiry = now + ttl
        /\ \A d \in Clients : d # c => pc'[d] = pc[d] /\ call'[d] = call[d]
    <2>1. call'[c].kind = "lock" /\ call'[c].token = tokens + 1 /\ call'[c].expiry = now + ttl
      <3> DEFINE x == [NoCall EXCEPT !.kind = "lock", !.key = k, !.token = tokens + 1,
                                     !.expiry = now + ttl]
      <3>1. x.kind = "lock" /\ x.token = tokens + 1 /\ x.expiry = now + ttl
        BY DEF NoCall
      <3>2. call' = [call EXCEPT ![c] = x]
        BY <1>1
      <3> HIDE DEF x
      <3> QED
        BY <3>1, <3>2 DEF IInv
    <2> QED
      BY <1>1, <1>4, <2>1 DEF IInv
  <1>6. HeldOK /\ AfloatOK /\ \A d \in Clients : FenceCallOK(d)
    BY DEF DurInv
  <1>7. n # 0 /\ n <= tokens' /\ (now + ttl <= now + ttl) /\ Early(now + ttl)'
    BY <1>1, <1>4, Records, ShapeAssumption DEF OneTTL, Early
  <1>8. Unheld(n)'
    BY <1>1, <1>4, <1>6, Records DEF Unheld, HeldOK
  <1>9. ASSUME NEW f, Elsewhere(c, f)' PROVE f.token # n
    <2>1. Somewhere(f)
      BY <1>1, <1>5, <1>9, Records DEF Elsewhere, Somewhere, Live
    <2>2. f.token \in Int
      BY <2>1, Records DEF Somewhere, Elsewhere, Live
    <2> QED
      BY <1>4, <1>6, <2>1, <2>2, Records DEF AfloatOK
  <1>10. ASSUME NEW d \in Clients, d # c, InFence(d)' PROVE call'[d].token # n
    <2>1. InFence(d) /\ call'[d].token = call[d].token
      BY <1>5, <1>10 DEF InFence
    <2> QED
      BY <1>4, <1>6, <2>1, Records DEF FenceCallOK
  <1>11. UNCHANGED <<registry, lease>>
    BY <1>1
  <1>12. FenceCallOK(c)'
    <2>1. /\ call'[c].token # 0 /\ call'[c].token <= tokens' /\ Early(call[c].expiry)'
      BY <1>1, <1>5, <1>7 DEF Early
    <2>2. Unheld(call[c].token)'
      BY <1>5, <1>8 DEF Unheld
    <2> QED
      BY <1>5, <1>9, <1>10, <2>1, <2>2 DEF FenceCallOK
  <1> QED
    BY <1>2, <1>3, <1>12, SinkStep

LEMMA BeginRenewDur ==
    ASSUME OneTTL, IInv, DurInv, NEW c \in Clients, BeginRenew(c) PROVE DurInv'
  <1>1. PICK ttl \in TTLs :
          /\ OwnsEntry(c)
          /\ call' = [call EXCEPT ![c] = [NoCall EXCEPT !.kind = "renew", !.key = lease[c].key,
                          !.token = lease[c].token, !.expiry = now + ttl]]
          /\ pc' = [pc EXCEPT ![c] = "decide"]
          /\ UNCHANGED <<now, tokens, registry, lease, tip, late, failures>>
    BY DEF BeginRenew, Goto
  <1>2. Sinks(c)
    BY <1>1 DEF Sinks, Labels
  <1>3. Enters(c)
    BY <1>1, Records DEF Enters
  <1>4. /\ call'[c].kind = "renew" /\ call'[c].token = lease[c].token
        /\ call'[c].expiry = now + ttl
    <2> DEFINE x == [NoCall EXCEPT !.kind = "renew", !.key = lease[c].key,
                                   !.token = lease[c].token, !.expiry = now + ttl]
    <2>1. x.kind = "renew" /\ x.token = lease[c].token /\ x.expiry = now + ttl
      BY DEF NoCall
    <2>2. call' = [call EXCEPT ![c] = x]
      BY <1>1
    <2> HIDE DEF x
    <2> QED
      BY <2>1, <2>2 DEF IInv
  <1>5. HeldOK /\ AfloatOK
    BY DEF DurInv
  <1>6. lease[c].token # 0 /\ lease[c].token <= tokens'
    BY <1>1, <1>5, Records DEF OwnsEntry, HeldOK
  <1>7. Early(call[c].expiry)'
    BY <1>1, <1>4, Records, ShapeAssumption DEF OneTTL, Early
  <1>8. ASSUME NEW f, Somewhere(f)' PROVE f.expiry <= now + ttl
    <2>1. Somewhere(f)
      BY <1>2, <1>8, NothingNew, Records DEF Somewhere
    <2> QED
      BY <1>5, <2>1 DEF AfloatOK, Early
  <1>9. FenceCallOK(c)'
    BY <1>1, <1>4, <1>6, <1>7, <1>8 DEF FenceCallOK
  <1> QED
    BY <1>2, <1>3, <1>9, SinkStep

\* The commit is built on the tip: a lock()'s token is nobody's, a renew()'s is the
\* one at the tip, and asks for more time.
LEMMA BuildFenceDur == ASSUME IInv, DurInv, NEW c \in Clients, BuildFence(c) PROVE DurInv'
  <1>1. /\ InFence(c) /\ call[c] \in Call /\ call[c].key \in Keys /\ FenceCallOK(c)
        /\ call[c].token \in Nat /\ call[c].expiry \in Nat
        /\ call[c].kind \in Fences
    BY Records DEF IInv, CallOK, BuildFence, Fencing, InFence, Fences, DurInv
  <1> DEFINE m == FenceCommit(c, tip)
             g == m.sidecar
             s == tip.fence[call[c].key]
             x == [call[c] EXCEPT !.head = tip, !.commit = m, !.attempts = call[c].attempts + 1]
  <1>2. call' = [call EXCEPT ![c] = x] /\ pc' = [pc EXCEPT ![c] = "push"]
    BY DEF BuildFence, Goto
  <1>3. m.base = tip.id /\ m.key = call[c].key
    BY DEF FenceCommit
  <1>4. g.token = call[c].token /\ g.expiry = call[c].expiry
    <2>1. s \in Fence
      BY <1>1, Records
    <2>2. CASE call[c].kind = "lock"
      <3>1. g = Advanced(s, call[c].token, call[c].expiry)
        BY <2>2 DEF FenceCommit
      <3> HIDE DEF g, s
      <3> QED
        BY <1>1, <2>1, <3>1, AdvancedOwner
    <2>3. CASE call[c].kind = "renew"
      <3>1. g = Renewed(s, call[c].expiry) /\ s.token = call[c].token
        BY <2>3 DEF FenceCommit, BuildFence
      <3> HIDE DEF g, s
      <3> QED
        BY <2>1, <3>1 DEF Renewed, Fence
    <2> QED
      BY <1>1, <2>2, <2>3 DEF Fences
  <1> HIDE DEF m
  <1>5. /\ x.commit = m /\ x.kind = call[c].kind /\ x.key = call[c].key
        /\ x.token = call[c].token /\ x.expiry = call[c].expiry
    <2> DEFINE y == [call[c] EXCEPT !.head = tip]
               z == [y EXCEPT !.commit = m]
    <2>1. /\ y.kind = call[c].kind /\ y.key = call[c].key
          /\ y.token = call[c].token /\ y.expiry = call[c].expiry
          /\ DOMAIN y = DOMAIN call[c]
      BY <1>1 DEF Call
    <2>2. DOMAIN call[c] = DOMAIN NoCall
      BY <1>1 DEF Call, NoCall
    <2>3. x = [z EXCEPT !.attempts = call[c].attempts + 1]
      OBVIOUS
    <2> HIDE DEF y, x
    <2>4. /\ z.commit = m /\ z.kind = call[c].kind /\ z.key = call[c].key
          /\ z.token = call[c].token /\ z.expiry = call[c].expiry
          /\ DOMAIN z = DOMAIN NoCall
      BY <2>1, <2>2 DEF NoCall
    <2> HIDE DEF z
    <2> QED
      BY <2>3, <2>4 DEF NoCall
  <1> HIDE DEF x
  <1>6. Somewhere(s) /\ s.expiry \in Nat
    BY <1>1, Records DEF Somewhere, Elsewhere
  <1>7. call[c].kind = "renew" => s.token = g.token /\ s.expiry <= g.expiry
    BY <1>1, <1>4, <1>6 DEF BuildFence, FenceCallOK
  <1>8. SentOK(x)
    BY <1>1, <1>3, <1>4, <1>5, <1>6, <1>7 DEF SentOK, Copied, Fences
  <1>9. g.token # 0 /\ g.token <= tokens /\ Early(g.expiry)
    BY <1>1, <1>4 DEF FenceCallOK
  <1>10. ASSUME NEW d \in Clients, d # c, InFence(d) PROVE g.token # call[d].token
    <2>1. FenceCallOK(d)
      BY DEF DurInv
    <2>2. CASE call[d].kind = "lock"
      BY <1>1, <1>4, <1>10, <2>1, <2>2 DEF FenceCallOK
    <2>3. CASE call[c].kind = "lock"
      BY <1>1, <1>4, <1>10, <2>3 DEF FenceCallOK
    <2>4. CASE call[d].kind = "renew" /\ call[c].kind = "renew"
      <3>1. lease[d].token = call[d].token /\ lease[c].token = call[c].token
        BY <1>1, <1>10, <2>1, <2>4 DEF FenceCallOK
      <3> QED
        BY <1>4, <1>9, <1>10, <3>1 DEF DurInv, HeldOK
    <2> QED
      BY <1>1, <1>10, <2>2, <2>3, <2>4 DEF InFence, Fences
  <1>11. Fits(c, x.commit.sidecar)
    BY <1>5, <1>9, <1>10 DEF Fits
  <1>12. UNCHANGED <<now, leases, tip, late>>
    BY DEF BuildFence
  <1> QED
    BY <1>1, <1>2, <1>5, <1>8, <1>11, <1>12, RiseStep

\* A commit with a token nobody has seen is not the one at the tip.
LEMMA LockIsNew ==
    ASSUME IInv, DurInv, NEW c \in Clients, pc[c] = "push", call[c].kind = "lock",
           UpToDate(call[c].commit)
    PROVE  FALSE
  <1> DEFINE m == call[c].commit
  <1>1. InFence(c) /\ FenceCallOK(c) /\ SentOK(call[c]) /\ m \in Commit /\ call[c].token \in Nat
    BY Records DEF InFence, Fences, DurInv, CommitsOK
  <1>2. m.sidecar.token = call[c].token
    BY <1>1 DEF SentOK, Fences
  <1>3. m.sidecar # NoSidecar
    BY <1>1, <1>2 DEF NoSidecar, NoFence
  <1>4. Elsewhere(c, m.sidecar)
    BY <1>1, <1>3, SidecarType DEF UpToDate, DurInv, MadeOK, Elsewhere
  <1> QED
    BY <1>1, <1>2, <1>4 DEF FenceCallOK

\* The answers to a push.
LEMMA PushesDur ==
    ASSUME IInv, DurInv, NEW c \in Clients, PushWrite(c) \/ PushLock(c) \/ PushRenew(c)
    PROVE  DurInv'
  <1>1. /\ pc[c] = "push" /\ Return(c) /\ now' = now /\ tokens' = tokens
        /\ Pushed(call[c].commit)
    BY DEF PushWrite, PushLock, PushRenew, Writing, Fencing, leases, Granted
  <1>2. \/ tip' = tip /\ late' = late
        \/ Lands(call[c].commit)
    BY <1>1 DEF Pushed, UpToDate
  <1>3. late' \subseteq late
    BY <1>2 DEF Lands
  <1>4. Enters(c)
    <2>1. CASE PushWrite(c)
      BY <1>1, <1>3, <2>1, Records DEF PushWrite, leases, Enters
    <2>2. CASE PushLock(c) \/ PushRenew(c)
      <3>1. /\ InFence(c) /\ call[c].key \in Keys
            /\ SetEntry(c, call[c].key, call[c].token, call[c].expiry)
        BY <1>1, <2>2 DEF PushLock, PushRenew, Granted, Fencing, InFence, Fences, IInv, CallOK
      <3>2. \A i \in Instances, k \in Keys :
              registry'[i][k] = registry[i][k] \/ registry'[i][k].token = call[c].token
        <4>1. \A i \in Instances, k \in Keys :
                registry'[i][k] = IF i = Caller(c) /\ k = call[c].key
                                  THEN [token |-> call[c].token, expiry |-> call[c].expiry]
                                  ELSE registry[i][k]
          BY <3>1, EntryBecomes DEF IInv
        <4> QED
          BY <4>1
      <3>3. CASE PushLock(c)
        <4>1. call[c].kind = "lock"
              /\ lease' = [lease EXCEPT ![c] = [key |-> call[c].key, token |-> call[c].token,
                                                fence |-> call[c].commit.sidecar.owner]]
          BY <3>3 DEF PushLock, Granted
        <4>2. /\ \A d \in Clients : d # c => lease'[d] = lease[d]
              /\ lease'[c].token = call[c].token
          BY <4>1 DEF IInv, LeasesOK
        <4> QED
          BY <1>1, <1>3, <3>1, <3>2, <4>1, <4>2, Records DEF Enters
      <3>4. CASE PushRenew(c)
        BY <1>1, <1>3, <3>1, <3>2, <3>4, Records DEF Enters, PushRenew
      <3> QED
        BY <2>2, <3>3, <3>4
    <2> QED
      BY <2>1, <2>2
  <1> QED
    BY <1>1, <1>2, <1>4, ReturnStep

LEMMA FailsDur ==
    ASSUME IInv, DurInv, NEW c \in Clients, PushWriteFails(c) \/ PushFenceFails(c) PROVE DurInv'
  <1>1. /\ pc[c] = "push" /\ Return(c) /\ UNCHANGED <<now, tokens, registry, lease, tip>>
        /\ \E told : GiveUp(c, told)
    BY DEF PushWriteFails, PushFenceFails, Writing, Fencing, leases
  <1>2. \A m \in late' : m \in late \/ (Live(c) /\ m.commit = call[c].commit)
    BY <1>1 DEF GiveUp, Rejected, Live
  <1>3. Enters(c)
    BY <1>1, Records DEF Enters
  <1> QED
    BY <1>1, <1>2, <1>3, ReturnStep

-----------------------------------------------------------------------------
\* unlock(), the network, the processes and the clock.
LEMMA UnlockDur == ASSUME IInv, DurInv, NEW c \in Clients, Unlock(c) PROVE DurInv'
  <1>1. /\ pc[c] = "idle" /\ UNCHANGED <<now, tokens, lease, tip, pc, call, late>>
        /\ lease[c].key \in Keys /\ SetEntry(c, lease[c].key, 0, 0)
    BY DEF Unlock, Released, OwnsEntry
  <1>2. \A i \in Instances, k \in Keys :
          registry'[i][k] = IF i = Caller(c) /\ k = lease[c].key THEN [token |-> 0, expiry |-> 0]
                            ELSE registry[i][k]
    BY <1>1, EntryBecomes DEF IInv
  <1>3. Enters(c)
    BY <1>1, <1>2, Records DEF Enters, NoEntry
  <1>4. Sinks(c)
    <2>1. pc' = [pc EXCEPT ![c] = "idle"] /\ call' = [call EXCEPT ![c] = call[c]]
          /\ "idle" \in Labels \ {"push"}
      BY <1>1 DEF IInv, Labels
    <2> QED
      BY <1>1, <2>1 DEF Sinks
  <1>5. FenceCallOK(c)'
    BY <1>1 DEF FenceCallOK, InFence
  <1> QED
    BY <1>3, <1>4, <1>5, SinkStep

\* Nothing changes but the clock and what is stored, and that was on its way.
LEMMA FewerAfloat ==
    ASSUME IInv, DurInv, NEW t \in Nat, now' = now + t,
           UNCHANGED <<tokens, registry, lease, pc, call>>,
           UNCHANGED <<tip, late>> \/ \E m \in late : Lands(m.commit)
    PROVE  DurInv'
  <1>1. \A d \in Clients \cup {None} : \A f : Elsewhere(d, f)' => Elsewhere(d, f)
    <2>1. CASE UNCHANGED <<tip, late>>
      BY <2>1 DEF Elsewhere, Live
    <2>2. CASE \E m \in late : Lands(m.commit)
      <3>1. PICK m \in late : Lands(m.commit)
        BY <2>2
      <3>2. /\ late' = {}
            /\ \A k \in Keys : tip'.fence[k] \in {tip.fence[k], m.commit.sidecar}
            /\ \A d \in Clients : ~Live(d)'
        BY <3>1, LandsOn, Records DEF Live
      <3> QED
        BY <3>2 DEF Elsewhere
    <2> QED
      BY <2>1, <2>2
  <1>2. ASSUME NEW e \in Nat, Early(e) PROVE Early(e)'
    <2>1. ASSUME NEW s \in TTLs PROVE e <= now' + s
      <3>1. s \in Nat /\ now \in Nat /\ e <= now + s
        BY <1>2, Records, ShapeAssumption DEF Early
      <3> QED
        BY <3>1
    <2> QED
      BY <2>1 DEF Early
  <1>3. HeldOK /\ AfloatOK /\ CommitsOK /\ LatesOK /\ MadeOK /\ \A d \in Clients : FenceCallOK(d)
    BY DEF DurInv
  <1>4. HeldOK' /\ CommitsOK' /\ LatesOK' /\ MadeOK'
    <2>1. CASE UNCHANGED <<tip, late>>
      BY <1>3, <2>1 DEF HeldOK, CommitsOK, SentOK, LatesOK, MadeOK, Unheld, Copied
    <2>2. CASE \E m \in late : Lands(m.commit)
      <3>1. PICK m \in late : Lands(m.commit)
        BY <2>2
      <3>2. m.commit \in Commit /\ m.commit.key \in Keys
        BY Records, SidecarType
      <3>3. /\ late' = {} /\ tip'.made = m.commit
            /\ m.commit.sidecar # NoSidecar => tip'.fence[m.commit.key] = m.commit.sidecar
            /\ \A c \in Clients : pc[c] = "push" => call[c].commit.base # tip'.id
        BY <3>1, <3>2, LandsOn
      <3> QED
        BY <1>3, <3>3 DEF HeldOK, CommitsOK, SentOK, LatesOK, MadeOK
    <2> QED
      BY <2>1, <2>2
  <1>5. AfloatOK'
    <2> SUFFICES ASSUME NEW f, Somewhere(f)' PROVE f.token <= tokens' /\ Early(f.expiry)'
      BY DEF AfloatOK
    <2>1. Somewhere(f)
      BY <1>1 DEF Somewhere
    <2>2. f.expiry \in Nat
      BY <2>1, Records DEF Somewhere, Elsewhere, Live
    <2>3. PICK e : e = f.expiry
      OBVIOUS
    <2>4. Early(e)'
      BY <1>2, <1>3, <2>1, <2>2, <2>3 DEF AfloatOK
    <2> QED
      BY <1>3, <2>1, <2>3, <2>4 DEF AfloatOK
  <1>6. ASSUME NEW d \in Clients PROVE FenceCallOK(d)'
    <2>1. InFence(d)' = InFence(d) /\ FenceCallOK(d) /\ call[d].expiry \in Nat
      BY <1>3, Records DEF InFence
    <2>2. \A token : Unheld(token)' = Unheld(token)
      BY DEF Unheld
    <2>3. PICK expiry : expiry = call[d].expiry
      OBVIOUS
    <2>4. InFence(d) => Early(expiry)'
      BY <1>2, <2>1, <2>3 DEF FenceCallOK
    <2>5. InFence(d) => Early(call[d].expiry)'
      BY <2>3, <2>4 DEF Early
    <2>6. InFence(d) /\ call[d].kind = "lock" =>
            /\ Unheld(call[d].token)'
            /\ \A f : Elsewhere(d, f)' => f.token # call[d].token
            /\ \A e \in Clients : e # d /\ InFence(e)' => call[e].token # call[d].token
      BY <1>1, <2>1 DEF FenceCallOK, InFence, Unheld
    <2>7. InFence(d) /\ call[d].kind = "renew" =>
            \A f : Somewhere(f)' /\ f.token = call[d].token => f.expiry <= call[d].expiry
      BY <1>1, <2>1 DEF FenceCallOK, Somewhere
    <2> QED
      BY <2>1, <2>5, <2>6, <2>7 DEF FenceCallOK
  <1> QED
    BY <1>4, <1>5, <1>6 DEF DurInv

LEMMA LateLandsDur == ASSUME IInv, DurInv, LateLands PROVE DurInv'
  <1>1. /\ UNCHANGED <<now, tokens, registry, lease, pc, call>>
        /\ \E m \in late : Lands(m.commit)
    BY DEF LateLands, leases
  <1>2. now' = now + 0
    BY <1>1, Records
  <1> QED
    BY <1>1, <1>2, FewerAfloat

LEMMA TickDur == ASSUME IInv, DurInv, Tick PROVE DurInv'
  BY FewerAfloat DEF Tick, leases

LEMMA CrashDur == ASSUME IInv, DurInv, NEW i \in Instances, Crash(i) PROVE DurInv'
  <1> DEFINE gone == {c \in Clients : Caller(c) = i}
  <1>1. /\ pc' = [c \in Clients |-> IF c \in gone THEN "idle" ELSE pc[c]]
        /\ call' = [c \in Clients |-> IF c \in gone THEN NoCall ELSE call[c]]
        /\ registry' = [registry EXCEPT ![i] = [k \in Keys |-> NoEntry]]
        /\ lease' = [c \in Clients |-> IF Caller(c) = i THEN NoLease ELSE lease[c]]
        /\ UNCHANGED <<now, tokens, tip>>
    BY DEF Crash, Forgotten
  <1>2. late' = late \cup {[commit |-> call[c].commit, told |-> "crash"] :
                           c \in {x \in gone : pc[x] = "push" /\ ~Rejected(call[x].commit)}}
    BY DEF Crash
  <1>g. gone \subseteq Clients
    OBVIOUS
  <1>3. ASSUME NEW m \in late', m \notin late
        PROVE  \E c \in gone : Live(c) /\ m.commit = call[c].commit
    BY <1>2, <1>3 DEF Live, Rejected
  <1> HIDE DEF gone
  <1>4. /\ \A c \in Clients : InFence(c)' => InFence(c) /\ call'[c] = call[c] /\ lease'[c] = lease[c]
        /\ \A c \in Clients : pc'[c] = "push" => pc[c] = "push" /\ call'[c] = call[c]
        /\ \A c \in gone : ~InFence(c)'
    BY <1>1, <1>g DEF InFence, gone
  <1>5. HeldOK /\ AfloatOK /\ CommitsOK /\ LatesOK /\ MadeOK /\ \A d \in Clients : FenceCallOK(d)
    BY DEF DurInv
  <1>6. /\ \A c \in Clients : lease'[c] \in {lease[c], NoLease}
        /\ \A j \in Instances, k \in Keys : registry'[j][k] \in {registry[j][k], NoEntry}
        /\ NoLease.token = 0 /\ NoEntry.token = 0 /\ NoEntry.expiry = 0
    BY <1>1 DEF IInv, LeasesOK, NoLease, NoEntry
  <1>7. HeldOK'
    BY <1>1, <1>5, <1>6, Records DEF HeldOK
  <1>8. \A token : Unheld(token) => Unheld(token)'
    BY <1>6 DEF Unheld
  <1>9. CommitsOK' /\ MadeOK'
    BY <1>1, <1>4, <1>5 DEF CommitsOK, SentOK, Copied, MadeOK
  <1>10. LatesOK'
    <2> SUFFICES ASSUME NEW m \in late'
                 PROVE  Copied(m.commit)' \/ Unheld(m.commit.sidecar.token)'
      BY DEF LatesOK
    <2>1. Copied(m.commit) => Copied(m.commit)'
      BY <1>1 DEF Copied
    <2>2. Copied(m.commit) \/ Unheld(m.commit.sidecar.token)
      <3>1. CASE m \in late
        BY <1>5, <3>1 DEF LatesOK
      <3>2. CASE m \notin late
        <4>1. PICK c \in gone : Live(c) /\ m.commit = call[c].commit
          BY <1>3, <3>2
        <4>2. c \in Clients /\ SentOK(call[c]) /\ FenceCallOK(c)
          BY <1>5, <1>g, <4>1 DEF CommitsOK, Live
        <4> QED
          BY <4>1, <4>2 DEF SentOK, Live, FenceCallOK, InFence, Fences
      <3> QED
        BY <3>1, <3>2
    <2> QED
      BY <1>8, <2>1, <2>2
  <1>11. \A d \in Clients \cup {None} : \A f :
            Elsewhere(d, f)' => Elsewhere(d, f) \/ (d \in Clients /\ ~InFence(d)')
    <2> SUFFICES ASSUME NEW d \in Clients \cup {None}, NEW f, Elsewhere(d, f)', ~Elsewhere(d, f)
                 PROVE  d \in Clients /\ ~InFence(d)'
      OBVIOUS
    <2>1. PICK m \in late' : f = m.commit.sidecar /\ m \notin late
      BY <1>1, <1>4 DEF Elsewhere, Live
    <2>2. PICK c \in gone : Live(c) /\ m.commit = call[c].commit
      BY <1>3, <2>1
    <2>3. d = c
      BY <1>g, <2>1, <2>2 DEF Elsewhere
    <2> QED
      BY <1>4, <1>g, <2>3
  <1>12. \A f : Somewhere(f)' => Somewhere(f)
    BY <1>11, Records DEF Somewhere
  <1>13. AfloatOK'
    BY <1>1, <1>5, <1>12 DEF AfloatOK, Early
  <1>14. ASSUME NEW d \in Clients PROVE FenceCallOK(d)'
    <2> SUFFICES ASSUME InFence(d)' PROVE FenceCallOK(d)'
      BY DEF FenceCallOK
    <2>1. InFence(d) /\ call'[d] = call[d] /\ lease'[d] = lease[d] /\ FenceCallOK(d)
      BY <1>4, <1>5
    <2>2. call[d].token # 0 /\ call[d].token <= tokens' /\ Early(call[d].expiry)'
      BY <1>1, <2>1 DEF FenceCallOK, Early
    <2>3. call[d].kind = "lock" =>
            /\ Unheld(call[d].token)'
            /\ \A f : Elsewhere(d, f)' => f.token # call[d].token
            /\ \A e \in Clients : e # d /\ InFence(e)' => call'[e].token # call[d].token
      <3> SUFFICES ASSUME call[d].kind = "lock"
                   PROVE  /\ Unheld(call[d].token)'
                          /\ \A f : Elsewhere(d, f)' => f.token # call[d].token
                          /\ \A e \in Clients : e # d /\ InFence(e)' => call'[e].token # call[d].token
        OBVIOUS
      <3>1. PICK t : t = call[d].token
        OBVIOUS
      <3>2. Unheld(t)'
        BY <1>8, <2>1, <3>1 DEF FenceCallOK
      <3>3. Unheld(call[d].token)'
        BY <2>1, <3>1, <3>2 DEF Unheld
      <3> QED
        BY <1>4, <1>11, <2>1, <3>3 DEF FenceCallOK
    <2>4. call[d].kind = "renew" =>
            /\ lease'[d].token = call[d].token
            /\ \A f : Somewhere(f)' /\ f.token = call[d].token => f.expiry <= call[d].expiry
      BY <1>12, <2>1 DEF FenceCallOK
    <2> QED
      BY <2>1, <2>2, <2>3, <2>4 DEF FenceCallOK
  <1> QED
    BY <1>7, <1>9, <1>10, <1>13, <1>14 DEF DurInv

-----------------------------------------------------------------------------
\* Every step keeps it.
LEMMA NextDur == ASSUME OneTTL, IInv, DurInv, [Next]_vars PROVE DurInv'
  <1>1. ASSUME NEW c \in Clients, Begin(c) PROVE DurInv'
    BY <1>1, BeginWritesDur, BeginLockDur, BeginRenewDur, UnlockDur DEF Begin
  <1>2. ASSUME NEW c \in Clients, Continue(c) PROVE DurInv'
    BY <1>2, BuildWriteDur, QuietDur, PushesDur, FailsDur, BuildFenceDur DEF Continue
  <1>3. CASE UNCHANGED vars
    <2>1. UNCHANGED <<now, tokens, registry, lease, tip, pc, call, late>>
      BY <1>3 DEF vars, leases
    <2>2. now' = now + 0
      BY <2>1, Records
    <2> QED
      BY <2>1, <2>2, FewerAfloat
  <1> QED
    BY <1>1, <1>2, <1>3, LateLandsDur, CrashDur, TickDur DEF Next

LEMMA InitDur == ASSUME Init PROVE DurInv /\ EntryIsDurable
  <1>1. /\ now = 0 /\ tokens = 0 /\ late = {}
        /\ \A c \in Clients : pc[c] = "idle" /\ lease[c].token = 0
        /\ \A i \in Instances, k \in Keys : registry[i][k].token = 0 /\ registry[i][k].expiry = 0
        /\ \A k \in Keys : tip.fence[k] = NoFence
        /\ tip.made.sidecar = NoSidecar
        /\ NoFence.token = 0 /\ NoFence.expiry = 0
    BY DEF Init, LeasesInit, NoEntry, NoLease, EmptyTip, NoCommit, NoFence
  <1>2. HeldOK /\ CommitsOK /\ LatesOK /\ MadeOK /\ \A c \in Clients : FenceCallOK(c)
    BY <1>1 DEF HeldOK, CommitsOK, LatesOK, MadeOK, FenceCallOK, InFence
  <1>3. AfloatOK
    BY <1>1, ShapeAssumption DEF AfloatOK, Somewhere, Elsewhere, Early, Live
  <1> QED
    BY <1>1, <1>2, <1>3 DEF DurInv, EntryIsDurable

\* A commit that lands keeps the entries of its token covered.
LEMMA LandingCovers ==
    ASSUME IInv, DurInv, EntryIsDurable, NEW m \in Commit, Lands(m),
           Copied(m) \/ Unheld(m.sidecar.token),
           NEW i \in Instances, NEW k \in Keys,
           registry[i][k].token # 0, registry[i][k].token = tip'.fence[k].token
    PROVE  registry[i][k].expiry <= tip'.fence[k].expiry
  <1>1. tip'.fence[k] = IF m.sidecar # NoSidecar /\ k = m.key THEN m.sidecar ELSE tip.fence[k]
    BY LandsOn
  <1>2. CASE ~(m.sidecar # NoSidecar /\ k = m.key)
    BY <1>1, <1>2 DEF EntryIsDurable
  <1>3. CASE m.sidecar # NoSidecar /\ k = m.key /\ Unheld(m.sidecar.token)
    BY <1>1, <1>3 DEF Unheld
  <1>4. CASE m.sidecar # NoSidecar /\ k = m.key /\ Copied(m)
    <2>1. registry[i][k].expiry <= tip.fence[k].expiry /\ tip.fence[k].expiry <= m.sidecar.expiry
      BY <1>1, <1>4, Records, SidecarType DEF EntryIsDurable, Copied
    <2>2. /\ registry[i][k].expiry \in Nat /\ tip.fence[k].expiry \in Nat
          /\ m.sidecar.expiry \in Nat
      BY Records, SidecarType
    <2> QED
      BY <1>1, <1>4, <2>1, <2>2
  <1> QED
    BY <1>2, <1>3, <1>4

\* The steps that push.
LEMMA PushesDurable ==
    ASSUME IInv, DurInv, EntryIsDurable, NEW c \in Clients,
           PushWrite(c) \/ PushLock(c) \/ PushRenew(c)
    PROVE  EntryIsDurable'
  <1> DEFINE m == call[c].commit
  <1>1. pc[c] = "push" /\ m \in Commit /\ Pushed(m) /\ SentOK(call[c])
    BY Records DEF PushWrite, PushLock, PushRenew, Writing, Fencing, DurInv, CommitsOK
  <1> SUFFICES ASSUME NEW i \in Instances, NEW k \in Keys,
                      registry'[i][k].token # 0, registry'[i][k].token = tip'.fence[k].token
               PROVE  registry'[i][k].expiry <= tip'.fence[k].expiry
    BY DEF EntryIsDurable
  <1>2. Lands(m) => Copied(m) \/ Unheld(m.sidecar.token)
    BY <1>1 DEF Lands, SentOK, DurInv, FenceCallOK, InFence, Fences
  <1> HIDE DEF m
  <1>3. CASE registry'[i][k] = registry[i][k] /\ Lands(m)
    BY <1>1, <1>2, <1>3, LandingCovers
  <1>4. CASE registry'[i][k] = registry[i][k] /\ UpToDate(m)
    BY <1>4 DEF UpToDate, EntryIsDurable
  <1>5. CASE registry'[i][k] # registry[i][k]
    <2>1. /\ call[c].kind \in Fences /\ call[c].key \in Keys
          /\ SetEntry(c, call[c].key, call[c].token, call[c].expiry)
      BY <1>1, <1>5 DEF PushWrite, PushLock, PushRenew, Fencing, Fences, leases, Granted, IInv, CallOK
    <2>2. registry'[i][k] = IF i = Caller(c) /\ k = call[c].key
                            THEN [token |-> call[c].token, expiry |-> call[c].expiry]
                            ELSE registry[i][k]
      BY <2>1, EntryBecomes DEF IInv
    <2>3. k = call[c].key /\ registry'[i][k].expiry = call[c].expiry
      BY <1>5, <2>2
    <2>4. /\ m.key = k /\ m.sidecar.token = call[c].token /\ m.sidecar.expiry = call[c].expiry
          /\ call[c].token \in Nat /\ call[c].expiry \in Nat
      BY <1>1, <2>1, <2>3, Records DEF SentOK, m
    <2>5. m.sidecar # NoSidecar
      BY <2>4 DEF NoSidecar, NoFence
    <2>6. tip'.fence[k] = m.sidecar
      <3>1. CASE Lands(m)
        BY <1>1, <2>4, <2>5, <3>1, LandsOn
      <3>2. CASE UpToDate(m)
        BY <2>4, <2>5, <3>2 DEF UpToDate, DurInv, MadeOK
      <3> QED
        BY <1>1, <3>1, <3>2 DEF Pushed
    <2> QED
      BY <2>3, <2>4, <2>6
  <1> QED
    BY <1>1, <1>3, <1>4, <1>5 DEF Pushed

LEMMA NextDurable ==
    ASSUME IInv, DurInv, EntryIsDurable, [Next]_vars PROVE EntryIsDurable'
  <1>1. ASSUME UNCHANGED tip,
               \A i \in Instances, k \in Keys : registry'[i][k] \in {registry[i][k], NoEntry}
        PROVE  EntryIsDurable'
    BY <1>1 DEF EntryIsDurable, NoEntry
  <1>2. ASSUME NEW c \in Clients, Begin(c) PROVE EntryIsDurable'
    <2>1. CASE Unlock(c)
      <3>1. UNCHANGED tip /\ lease[c].key \in Keys /\ SetEntry(c, lease[c].key, 0, 0)
        BY <2>1 DEF Unlock, Released, OwnsEntry
      <3>2. \A i \in Instances, k \in Keys :
              registry'[i][k] = IF i = Caller(c) /\ k = lease[c].key
                                THEN [token |-> 0, expiry |-> 0] ELSE registry[i][k]
        BY <3>1, EntryBecomes DEF IInv
      <3> QED
        BY <1>1, <3>1, <3>2 DEF NoEntry
    <2>2. CASE ~Unlock(c)
      BY <1>1, <1>2, <2>2 DEF Begin, BeginCreate, BeginUpdate, BeginWrite, BeginLock, BeginRenew,
                              leases
    <2> QED
      BY <2>1, <2>2
  <1>3. ASSUME NEW c \in Clients, Continue(c) PROVE EntryIsDurable'
    <2>1. CASE PushWrite(c) \/ PushLock(c) \/ PushRenew(c)
      BY <2>1, PushesDurable
    <2>2. CASE ~(PushWrite(c) \/ PushLock(c) \/ PushRenew(c))
      <3>1. UNCHANGED <<tip, registry>>
        BY <1>3, <2>2
           DEF Continue, BuildWrite, RefuseWrite, PushWriteRejected, PushWriteFails, BuildFence,
               RenewSuperseded, RetryFence, GiveUpFence, PushFenceFails, leases
      <3> QED
        BY <1>1, <3>1
    <2> QED
      BY <2>1, <2>2
  <1>4. CASE LateLands
    <2>1. PICK m \in late : Lands(m.commit)
      BY <1>4 DEF LateLands
    <2>2. /\ m.commit \in Commit /\ registry' = registry
          /\ Copied(m.commit) \/ Unheld(m.commit.sidecar.token)
      BY <1>4, Records DEF DurInv, LatesOK, LateLands, leases
    <2> QED
      BY <2>1, <2>2, LandingCovers DEF EntryIsDurable
  <1>5. ASSUME NEW i \in Instances, Crash(i) PROVE EntryIsDurable'
    <2>1. UNCHANGED tip /\ registry' = [registry EXCEPT ![i] = [k \in Keys |-> NoEntry]]
      BY <1>5 DEF Crash, Forgotten
    <2>2. \A j \in Instances, k \in Keys : registry'[j][k] \in {registry[j][k], NoEntry}
      BY <2>1 DEF IInv, LeasesOK
    <2> QED
      BY <1>1, <2>1, <2>2
  <1>6. CASE Tick \/ UNCHANGED vars
    BY <1>1, <1>6 DEF Tick, leases, vars
  <1> QED
    BY <1>2, <1>3, <1>4, <1>5, <1>6 DEF Next

\* Where every lock() and renew() asks for the same time, an entry lasts no longer
\* than the durable lease of its token: no push, late or not, shortens the lease a
\* process still keeps others BUSY for.
THEOREM EntriesAreDurable == ASSUME OneTTL PROVE Spec => []EntryIsDurable
  <1>1. Init => DurInv /\ EntryIsDurable
    BY InitDur
  <1>2. IInv /\ DurInv /\ EntryIsDurable /\ [Next]_vars => (DurInv /\ EntryIsDurable)'
    BY NextDur, NextDurable
  <1> QED
    BY InductiveInvariant, <1>1, <1>2, PTL DEF Spec

-----------------------------------------------------------------------------
(***************************************************************************)
(* The store contract.  A client that is pushing a write has it open; what *)
(* it has found at its head is what the contract compares, because a commit *)
(* lands only on the head it was built on.  A push that lands while its    *)
(* client believes it did not (UpToDate) can only be a write's: a lock() in *)
(* progress has a token that is stored nowhere (DrawnOK).                  *)
(***************************************************************************)
\* A client that has drawn a token for a lock().
Locking(c) == pc[c] # "idle" /\ call[c].kind = "lock"

\* The token t is in the lease, the call or the commit of client d.
Knows(d, t) ==
    \/ lease[d].token = t
    \/ pc[d] # "idle" /\ call[d].kind \in {"lock", "renew"} /\ call[d].token = t
    \/ pc[d] = "push" /\ call[d].commit.sidecar.token = t

\* The token t is on the branch, or on its way.
Stored(t) ==
    \/ \E k \in Keys : tip.fence[k].token = t
    \/ tip.made.sidecar.token = t
    \/ \E m \in late : m.commit.sidecar.token = t

\* A lock() in progress has a token nobody else has.
DrawnOK ==
    /\ \A t \in Nat \ {0} : Stored(t) \/ (\E d \in Clients : Knows(d, t)) => t <= tokens
    /\ \A c \in Clients :
        Locking(c) => /\ call[c].token # 0
                      /\ ~Stored(call[c].token) /\ lease[c].token # call[c].token
                      /\ \A d \in Clients \ {c} : ~Knows(d, call[c].token)
                      /\ pc[c] = "push" => call[c].commit.sidecar.token = call[c].token

\* In tree t no write was accepted under a fence that was never allocated.
FloorOK(t) == \A k \in Keys : t.fence[k].accepted <= t.fence[k].owner

\* Commit m, built on tree t: a write leaves the owner's fence, and a change of
\* the fence record allocates at most the next one.
Built(m, t) ==
    /\ m.sidecar # NoSidecar => /\ m.sidecar.accepted <= m.sidecar.owner
                                /\ \/ m.sidecar.owner = t.fence[m.key].owner
                                   \/ m.body = None /\ m.sidecar.owner = t.fence[m.key].owner + 1
    /\ m.body = None => m.sidecar # NoSidecar

\* The value a write of call x must find.
Prior(x) == IF x.kind = "create" THEN Absent ELSE x.expected

\* A call x at place p, of a client with lease l: what it pushes.
SendsOK(p, x, l) ==
    /\ FloorOK(x.head)
    /\ p # "idle" /\ x.kind \in {"create", "update"} =>
        /\ x.body \in Bodies /\ Prior(x) \in Bodies \cup {Absent}
        /\ x.kind = "update" => l.key = x.key
    /\ p = "push" => x.commit.key = x.key /\ Built(x.commit, x.head)
    /\ p = "push" /\ x.kind \in {"create", "update"} =>
        /\ x.commit.body = x.body /\ x.head.blob[x.key] = Prior(x)
        /\ x.kind = "create" <=> x.commit.sidecar = NoSidecar
        /\ x.kind = "update" => l.fence = x.head.fence[x.key].owner
    /\ p = "push" /\ x.kind \in {"lock", "renew"} =>
        /\ x.commit.body = None
        /\ x.commit.sidecar.owner = x.head.fence[x.key].owner + (IF x.kind = "lock" THEN 1 ELSE 0)

SimInv ==
    /\ DrawnOK /\ FloorOK(tip)
    /\ \A c \in Clients : SendsOK(pc[c], call[c], lease[c])
    /\ \A m \in late : Built(m.commit, tip)

LEMMA InitSim == ASSUME Init PROVE SimInv
  <1>1. IInv
    BY InitIInv
  <1>2. /\ tokens = 0 /\ tip = EmptyTip /\ late = {}
        /\ \A c \in Clients : pc[c] = "idle" /\ call[c] = NoCall /\ lease[c] = NoLease
    BY DEF Init, LeasesInit
  <1>3. \A k \in Keys : EmptyTip.fence[k] = NoFence
    BY DEF EmptyTip
  <1>4. FloorOK(EmptyTip)
    <2>1. NoFence.accepted <= NoFence.owner
      BY DEF NoFence
    <2> QED
      BY <1>3, <2>1 DEF FloorOK
  <1>5. DrawnOK
    <2>1. EmptyTip.made.sidecar.token = -1
      BY DEF EmptyTip, NoCommit, NoSidecar, NoFence
    <2>2. \A t \in Nat \ {0} : ~Stored(t)
      BY <1>2, <1>3, <2>1 DEF Stored, NoFence
    <2>3. \A t \in Nat \ {0} : \A d \in Clients : ~Knows(d, t)
      BY <1>2 DEF Knows, NoLease
    <2> QED
      BY <1>2, <2>2, <2>3 DEF DrawnOK, Locking
  <1>6. \A c \in Clients : SendsOK(pc[c], call[c], lease[c])
    BY <1>2, <1>4 DEF SendsOK, NoCall
  <1> QED
    BY <1>2, <1>4, <1>5, <1>6 DEF SimInv

-----------------------------------------------------------------------------
\* Nothing but a draw makes a token appear: a commit that lands or is late is one
\* of a client whose call ends.
LEMMA DrawnKept ==
    ASSUME IInv, DrawnOK, tokens' = tokens, NEW gone \in SUBSET Clients,
           \A t \in Nat \ {0} : Stored(t)' => Stored(t) \/ \E c \in gone : Knows(c, t),
           \A d \in Clients, t \in Nat \ {0} : Knows(d, t)' => Stored(t) \/ Knows(d, t),
           \A d \in Clients :
             Locking(d)' =>
               /\ Locking(d) /\ d \notin gone
               /\ call'[d].token = call[d].token /\ lease'[d].token = lease[d].token
               /\ pc'[d] = "push" => call'[d].commit.sidecar.token = call[d].token
    PROVE  DrawnOK'
  <1>1. ASSUME NEW t \in Nat \ {0}, Stored(t)' \/ (\E d \in Clients : Knows(d, t)')
        PROVE  t <= tokens'
    BY <1>1 DEF DrawnOK
  <1>2. ASSUME NEW c \in Clients, Locking(c)'
        PROVE  /\ call'[c].token # 0
               /\ ~Stored(call[c].token)' /\ lease'[c].token # call'[c].token
               /\ \A d \in Clients \ {c} : ~Knows(d, call[c].token)'
               /\ pc'[c] = "push" => call'[c].commit.sidecar.token = call'[c].token
    <2>1. PICK t \in Nat \ {0} : t = call[c].token
      BY <1>2, Records DEF DrawnOK
    <2>2. /\ ~Stored(t) /\ lease[c].token # t /\ \A d \in Clients \ {c} : ~Knows(d, t)
      BY <1>2, <2>1 DEF DrawnOK
    <2>3. c \notin gone /\ call'[c].token = t
      BY <1>2, <2>1
    <2>4. ~Stored(t)'
      BY <2>2, <2>3
    <2>5. \A d \in Clients \ {c} : ~Knows(d, t)'
      BY <2>2
    <2> QED
      BY <1>2, <2>1, <2>2, <2>3, <2>4, <2>5
  <1> QED
    BY <1>1, <1>2 DEF DrawnOK

-----------------------------------------------------------------------------
(***************************************************************************)
(* A step of client c.                                                     *)
(***************************************************************************)
\* What the commit of a client is built on when it lands or is late.
LEMMA BuiltOnTip ==
    ASSUME IInv, SimInv, NEW c \in Clients, pc[c] = "push", call[c].commit.base = tip.id
    PROVE  call[c].head = tip /\ Built(call[c].commit, tip)
  BY LateIsCurrent DEF Rejected, SimInv, SendsOK

LEMMA FloorStays ==
    ASSUME IInv, NEW m \in Commit, Built(m, tip), FloorOK(tip), Lands(m)
    PROVE  FloorOK(tip')
  <1>1. \A k \in Keys : tip'.fence[k] = IF m.sidecar # NoSidecar /\ k = m.key THEN m.sidecar
                                        ELSE tip.fence[k]
    BY LandsOn
  <1> QED
    BY <1>1 DEF FloorOK, Built

\* Its commit lands, is late or is dropped; or it had none.
Ships(c) ==
    \/ /\ tip' = tip
       /\ \A m \in late' : m \in late \/ (Live(c) /\ m.commit = call[c].commit)
    \/ pc[c] = "push" /\ Lands(call[c].commit)

\* Its call goes on or ends; it draws no token.
Moves(c) ==
    /\ \A d \in Clients \ {c} : pc'[d] = pc[d] /\ call'[d] = call[d] /\ lease'[d] = lease[d]
    /\ tokens' = tokens
    /\ SendsOK(pc'[c], call'[c], lease'[c])
    /\ \A t \in Nat \ {0} : Knows(c, t)' => Stored(t) \/ Knows(c, t)
    /\ Locking(c)' => /\ Locking(c) /\ UNCHANGED <<tip, late>>
                      /\ call'[c].token = call[c].token /\ lease'[c].token = lease[c].token
                      /\ pc'[c] = "push" => call'[c].commit.sidecar.token = call[c].token

LEMMA ShipsStored ==
    ASSUME IInv, NEW c \in Clients, Ships(c), NEW t \in Nat \ {0}, Stored(t)'
    PROVE  Stored(t) \/ (Knows(c, t) /\ ~UNCHANGED <<tip, late>>)
  <1>1. CASE UNCHANGED <<tip, late>>
    BY <1>1 DEF Stored
  <1>2. CASE /\ ~UNCHANGED <<tip, late>> /\ tip' = tip
             /\ \A m \in late' : m \in late \/ (Live(c) /\ m.commit = call[c].commit)
    BY <1>2 DEF Stored, Live, Knows
  <1>3. CASE ~UNCHANGED <<tip, late>> /\ pc[c] = "push" /\ Lands(call[c].commit)
    <2> DEFINE m == call[c].commit
    <2>1. m \in Commit
      BY <1>3, Records
    <2>2. /\ late' = {} /\ tip'.made = m
          /\ \A k \in Keys : tip'.fence[k] \in {tip.fence[k], m.sidecar}
      BY <1>3, <2>1, LandsOn
    <2> QED
      BY <1>3, <2>2 DEF Stored, Knows
  <1> QED
    BY <1>1, <1>2, <1>3 DEF Ships

LEMMA SimStep ==
    ASSUME IInv, SimInv, NEW c \in Clients, Ships(c), Moves(c)
    PROVE  SimInv'
  <1>1. DrawnOK'
    <2> DEFINE gone == IF UNCHANGED <<tip, late>> THEN {} ELSE {c}
    <2>1. gone \in SUBSET Clients /\ DrawnOK /\ tokens' = tokens
      BY DEF SimInv, Moves
    <2>2. \A t \in Nat \ {0} : Stored(t)' => Stored(t) \/ \E d \in gone : Knows(d, t)
      BY ShipsStored
    <2>3. \A d \in Clients, t \in Nat \ {0} : Knows(d, t)' => Stored(t) \/ Knows(d, t)
      <3> SUFFICES ASSUME NEW d \in Clients, NEW t \in Nat \ {0}, Knows(d, t)'
                   PROVE  Stored(t) \/ Knows(d, t)
        OBVIOUS
      <3>1. CASE d = c
        BY <3>1 DEF Moves
      <3>2. CASE d # c
        BY <3>2 DEF Moves, Knows
      <3> QED
        BY <3>1, <3>2
    <2>4. ASSUME NEW d \in Clients, Locking(d)'
          PROVE  /\ Locking(d) /\ d \notin gone
                 /\ call'[d].token = call[d].token /\ lease'[d].token = lease[d].token
                 /\ pc'[d] = "push" => call'[d].commit.sidecar.token = call[d].token
      <3>1. CASE d = c
        BY <2>4, <3>1 DEF Moves
      <3>2. CASE d # c
        BY <2>4, <3>2 DEF Moves, Locking, SimInv, DrawnOK
      <3> QED
        BY <3>1, <3>2
    <2> HIDE DEF gone
    <2> QED
      BY <2>1, <2>2, <2>3, <2>4, DrawnKept
  <1>2. \A d \in Clients : SendsOK(pc'[d], call'[d], lease'[d])
    <2> SUFFICES ASSUME NEW d \in Clients PROVE SendsOK(pc'[d], call'[d], lease'[d])
      OBVIOUS
    <2>1. CASE d = c
      BY <2>1 DEF Moves
    <2>2. CASE d # c
      BY <2>2 DEF Moves, SimInv
    <2> QED
      BY <2>1, <2>2
  <1>3. FloorOK(tip') /\ \A m \in late' : Built(m.commit, tip')
    <2>1. CASE /\ tip' = tip
               /\ \A m \in late' : m \in late \/ (Live(c) /\ m.commit = call[c].commit)
      <3>1. Live(c) => Built(call[c].commit, tip)
        BY BuiltOnTip DEF Live
      <3> QED
        BY <2>1, <3>1 DEF SimInv
    <2>2. CASE pc[c] = "push" /\ Lands(call[c].commit)
      <3>1. call[c].commit \in Commit /\ Built(call[c].commit, tip) /\ FloorOK(tip) /\ late' = {}
        BY <2>2, Records, BuiltOnTip DEF Lands, SimInv
      <3> QED
        BY <2>2, <3>1, FloorStays
    <2> QED
      BY <2>1, <2>2 DEF Ships
  <1> QED
    BY <1>1, <1>2, <1>3 DEF SimInv
-----------------------------------------------------------------------------
(***************************************************************************)
(* The actions keep SimInv.                                                *)
(***************************************************************************)
LEMMA EmptyFloor == FloorOK(EmptyTip)
  <1>1. NoFence.accepted <= NoFence.owner
    BY DEF NoFence
  <1> QED
    BY <1>1 DEF FloorOK, EmptyTip

\* What a call that begins, or a commit that is built, leaves to be shown.
LEMMA QuietSim ==
    ASSUME IInv, SimInv, NEW c \in Clients, NEW p \in Labels, NEW x,
           pc' = [pc EXCEPT ![c] = p], call' = [call EXCEPT ![c] = x],
           UNCHANGED <<tokens, lease, tip, late>>, SendsOK(p, x, lease[c]),
           p # "idle" /\ x.kind \in {"lock", "renew"} =>
             Stored(x.token) \/ Knows(c, x.token) \/ x.token = 0,
           p = "push" => \/ Stored(x.commit.sidecar.token) \/ Knows(c, x.commit.sidecar.token)
                         \/ x.commit.sidecar = NoSidecar,
           p # "idle" /\ x.kind = "lock" =>
             Locking(c) /\ x.token = call[c].token
             /\ (p = "push" => x.commit.sidecar.token = call[c].token)
    PROVE  SimInv'
  <1>1. /\ pc'[c] = p /\ call'[c] = x
        /\ \A d \in Clients \ {c} : pc'[d] = pc[d] /\ call'[d] = call[d] /\ lease'[d] = lease[d]
    BY DEF IInv
  <1>2. NoSidecar.token = -1
    BY DEF NoSidecar, NoFence
  <1>3. \A t \in Nat \ {0} : Knows(c, t)' => Stored(t) \/ Knows(c, t)
    BY <1>1, <1>2 DEF Knows
  <1>4. Locking(c)' => /\ Locking(c) /\ UNCHANGED <<tip, late>>
                       /\ call'[c].token = call[c].token /\ lease'[c].token = lease[c].token
                       /\ pc'[c] = "push" => call'[c].commit.sidecar.token = call[c].token
    BY <1>1 DEF Locking
  <1>5. Moves(c)
    BY <1>1, <1>3, <1>4 DEF Moves
  <1>6. Ships(c)
    BY DEF Ships
  <1> QED
    BY <1>5, <1>6, SimStep

\* The call of c returns; lock() may enter its token into the lease.
LEMMA ReturnSim ==
    ASSUME IInv, SimInv, NEW c \in Clients, Return(c), tokens' = tokens, Ships(c),
           \A d \in Clients \ {c} : lease'[d] = lease[d],
           lease'[c].token = lease[c].token \/ (Locking(c) /\ lease'[c].token = call[c].token)
    PROVE  SimInv'
  <1>1. /\ pc'[c] = "idle" /\ call'[c] = NoCall
        /\ \A d \in Clients \ {c} : pc'[d] = pc[d] /\ call'[d] = call[d]
    BY DEF IInv, Return, Goto
  <1>2. \A t \in Nat \ {0} : Knows(c, t)' => Stored(t) \/ Knows(c, t)
    BY <1>1 DEF Knows, Locking
  <1>3. SendsOK(pc'[c], call'[c], lease'[c])
    BY <1>1, EmptyFloor DEF SendsOK, NoCall
  <1>4. Moves(c)
    BY <1>1, <1>2, <1>3 DEF Moves, Locking
  <1> QED
    BY <1>4, SimStep

\* A call of write(), on the tip it captures.
LEMMA BegunWrite ==
    ASSUME IInv, NEW c \in Clients, NEW kind, NEW k, NEW b, NEW e, BeginWrite(c, kind, k, b, e)
    PROVE  \E x : /\ call' = [call EXCEPT ![c] = x] /\ pc' = [pc EXCEPT ![c] = "decide"]
                  /\ x.kind = kind /\ x.key = k /\ x.body = b /\ x.expected = e /\ x.head = tip
  <1> DEFINE x == [NoCall EXCEPT !.kind = kind, !.key = k, !.body = b, !.expected = e,
                                 !.head = tip]
  <1>1. call' = [call EXCEPT ![c] = x] /\ pc' = [pc EXCEPT ![c] = "decide"]
    BY DEF BeginWrite, Goto
  <1>2. x.kind = kind /\ x.key = k /\ x.body = b /\ x.expected = e /\ x.head = tip
    BY DEF NoCall
  <1> QED
    BY <1>1, <1>2

LEMMA BeginWriteSim ==
    ASSUME IInv, SimInv, NEW c \in Clients, BeginCreate(c) \/ BeginUpdate(c)
    PROVE  SimInv'
  <1>1. PICK kind \in {"create", "update"}, k \in Keys, b \in Bodies, e \in Bodies \cup {None} :
          /\ BeginWrite(c, kind, k, b, e)
          /\ kind = "update" => k = lease[c].key /\ e \in Bodies
    BY DEF BeginCreate, BeginUpdate
  <1>2. PICK x : /\ call' = [call EXCEPT ![c] = x] /\ pc' = [pc EXCEPT ![c] = "decide"]
                 /\ x.kind = kind /\ x.key = k /\ x.body = b /\ x.expected = e /\ x.head = tip
    BY <1>1, BegunWrite
  <1>3. UNCHANGED <<tokens, lease, tip, late>>
    BY <1>1 DEF BeginWrite, leases
  <1>4. SendsOK("decide", x, lease[c])
    BY <1>1, <1>2 DEF SendsOK, SimInv, Prior
  <1>5. x.kind \notin {"lock", "renew"}
    BY <1>2
  <1> QED
    BY <1>2, <1>3, <1>4, <1>5, QuietSim DEF Labels

\* The commit of a write: the lease is the owner's at the captured head.
LEMMA BuiltWrite ==
    ASSUME IInv, NEW c \in Clients, BuildWrite(c)
    PROVE  \E x : /\ call' = [call EXCEPT ![c] = x] /\ pc' = [pc EXCEPT ![c] = "push"]
                  /\ x.commit = WriteCommit(c)
                  /\ x.kind = call[c].kind /\ x.key = call[c].key /\ x.body = call[c].body
                  /\ x.expected = call[c].expected /\ x.head = call[c].head
                  /\ x.token = call[c].token
  <1> DEFINE x == [call[c] EXCEPT !.commit = WriteCommit(c)]
  <1>1. call' = [call EXCEPT ![c] = x] /\ pc' = [pc EXCEPT ![c] = "push"]
    BY DEF BuildWrite, Goto, IInv
  <1>2. call[c] \in Call
    BY DEF IInv
  <1>3. /\ x.commit = WriteCommit(c)
        /\ x.kind = call[c].kind /\ x.key = call[c].key /\ x.body = call[c].body
        /\ x.expected = call[c].expected /\ x.head = call[c].head /\ x.token = call[c].token
    BY <1>2 DEF Call
  <1> QED
    BY <1>1, <1>3

LEMMA BuildWriteSim == ASSUME IInv, SimInv, NEW c \in Clients, BuildWrite(c) PROVE SimInv'
  <1>1. PICK x : /\ call' = [call EXCEPT ![c] = x] /\ pc' = [pc EXCEPT ![c] = "push"]
                 /\ x.commit = WriteCommit(c)
                 /\ x.kind = call[c].kind /\ x.key = call[c].key /\ x.body = call[c].body
                 /\ x.expected = call[c].expected /\ x.head = call[c].head
                 /\ x.token = call[c].token
    BY BuiltWrite
  <1>2. /\ pc[c] = "decide" /\ call[c].kind \in {"create", "update"} /\ call[c].key \in Keys
        /\ SendsOK(pc[c], call[c], lease[c]) /\ Sidecar(c) \in Fence
        /\ UNCHANGED <<tokens, lease, tip, late>>
    BY DEF BuildWrite, Writing, SimInv, IInv, CallOK, Call, Tip, Sidecar, leases
  <1>3. Prior(call[c]) = Current(c) /\ call[c].body # None /\ x.body \in Bodies
    BY <1>1, <1>2, SentinelAssumption
    DEF SendsOK, Prior, BuildWrite, CreateAdmitted, UpdateAdmitted
  <1>4. /\ x.commit.key = x.key /\ x.commit.body = x.body
        /\ x.head.blob[x.key] = Prior(x)
    BY <1>1, <1>3 DEF WriteCommit, Current, Prior
  <1>5. CASE call[c].kind = "create"
    <2>1. x.commit.sidecar = NoSidecar
      BY <1>1, <1>5 DEF WriteCommit
    <2>2. SendsOK("push", x, lease[c])
      BY <1>1, <1>2, <1>3, <1>4, <1>5, <2>1 DEF SendsOK, Built, Prior
    <2> QED
      BY <1>1, <1>2, <1>5, <2>1, <2>2, QuietSim DEF Labels
  <1>6. CASE call[c].kind = "update"
    <2> DEFINE g == [Sidecar(c) EXCEPT !.accepted = lease[c].fence]
    <2>1. x.commit.sidecar = g
      BY <1>1, <1>6 DEF WriteCommit
    <2>2. FenceOk(lease[c], Sidecar(c)) /\ lease[c] \in Lease
      BY <1>6 DEF BuildWrite, CreateAdmitted, UpdateAdmitted, IInv, LeasesOK
    <2>3. g.owner = Sidecar(c).owner /\ g.accepted = Sidecar(c).owner /\ g \in Fence
      BY <1>2, <2>2, AcceptedRises
    <2>4. g.token = lease[c].token /\ lease[c].fence = Sidecar(c).owner
      BY <1>2, <2>2 DEF FenceOk, Fence
    <2> HIDE DEF g
    <2>5. g # NoSidecar /\ g.accepted <= g.owner
      BY <2>3 DEF Fence, NoSidecar, NoFence
    <2>6. SendsOK("push", x, lease[c])
      BY <1>1, <1>2, <1>3, <1>4, <1>6, <2>1, <2>3, <2>4, <2>5 DEF SendsOK, Built, Prior, Sidecar
    <2>7. Knows(c, x.commit.sidecar.token)
      BY <2>1, <2>4 DEF Knows
    <2> QED
      BY <1>1, <1>2, <1>6, <2>6, <2>7, QuietSim DEF Labels
  <1> QED
    BY <1>2, <1>5, <1>6

\* A lock() draws a token that nobody has.
LEMMA BeginLockSim == ASSUME IInv, SimInv, NEW c \in Clients, BeginLock(c) PROVE SimInv'
  <1>1. PICK k \in Keys, ttl \in TTLs :
          /\ tokens' = tokens + 1
          /\ call' = [call EXCEPT ![c] = [NoCall EXCEPT !.kind = "lock", !.key = k,
                          !.token = tokens + 1, !.expiry = now + ttl]]
          /\ pc' = [pc EXCEPT ![c] = "decide"]
          /\ UNCHANGED <<now, registry, lease, tip, late, failures>>
    BY DEF BeginLock, Goto
  <1>2. PICK n \in Nat : n = tokens + 1
    BY Records
  <1> DEFINE x == [NoCall EXCEPT !.kind = "lock", !.key = k, !.token = tokens + 1,
                                 !.expiry = now + ttl]
  <1>30. x.kind = "lock" /\ x.key = k /\ x.token = tokens + 1 /\ x.head = EmptyTip
    BY DEF NoCall
  <1>31. call' = [call EXCEPT ![c] = x]
    BY <1>1
  <1> HIDE DEF x
  <1>3. /\ call' = [call EXCEPT ![c] = x] /\ call'[c] = x
        /\ x.kind = "lock" /\ x.key = k /\ x.token = n /\ x.head = EmptyTip
    BY <1>2, <1>30, <1>31 DEF IInv
  <1>4. /\ pc'[c] = "decide"
        /\ \A d \in Clients \ {c} : pc'[d] = pc[d] /\ call'[d] = call[d]
    BY <1>1, <1>3 DEF IInv
  <1>5. \A t \in Nat \ {0} : Stored(t)' => Stored(t)
    BY <1>1 DEF Stored
  <1>6. \A d \in Clients, t \in Nat \ {0} : Knows(d, t)' => Knows(d, t) \/ (d = c /\ t = n)
    <2> SUFFICES ASSUME NEW d \in Clients, NEW t \in Nat \ {0}, Knows(d, t)'
                 PROVE  Knows(d, t) \/ (d = c /\ t = n)
      OBVIOUS
    <2>1. CASE d = c
      BY <1>1, <1>3, <1>4, <2>1 DEF Knows
    <2>2. CASE d # c
      BY <1>1, <1>4, <2>2 DEF Knows
    <2> QED
      BY <2>1, <2>2
  <1>7. n # 0 /\ n \in Nat \ {0} /\ tokens' = n /\ tokens \in Nat /\ n > tokens
    BY <1>1, <1>2, Records
  <1>8. DrawnOK
    BY DEF SimInv
  <1>9. ~Stored(n) /\ \A d \in Clients : ~Knows(d, n)
    BY <1>7, <1>8 DEF DrawnOK
  <1>10. ASSUME NEW t \in Nat \ {0}, Stored(t)' \/ (\E d \in Clients : Knows(d, t)')
         PROVE  t <= tokens'
    BY <1>5, <1>6, <1>7, <1>8, <1>10 DEF DrawnOK
  <1>11. ASSUME NEW d \in Clients, Locking(d)'
         PROVE  /\ call'[d].token # 0
                /\ ~Stored(call[d].token)' /\ lease'[d].token # call'[d].token
                /\ \A e \in Clients \ {d} : ~Knows(e, call[d].token)'
                /\ pc'[d] = "push" => call'[d].commit.sidecar.token = call'[d].token
    <2>1. CASE d = c
      <3>1. call'[d].token = n /\ pc'[d] # "push"
        BY <1>3, <1>4, <2>1
      <3>2. ~Stored(n)'
        BY <1>5, <1>7, <1>9
      <3>3. \A e \in Clients \ {d} : ~Knows(e, n)'
        BY <1>6, <1>7, <1>9, <2>1
      <3>4. lease'[d].token # n
        BY <1>1, <1>9, <2>1 DEF Knows
      <3> QED
        BY <1>7, <3>1, <3>2, <3>3, <3>4
    <2>2. CASE d # c
      <3>1. Locking(d) /\ call'[d] = call[d] /\ pc'[d] = pc[d] /\ lease'[d] = lease[d]
        BY <1>1, <1>4, <1>11, <2>2 DEF Locking
      <3>2. PICK t \in Nat \ {0} : t = call[d].token
        BY <1>8, <3>1, Records DEF DrawnOK
      <3>3. /\ ~Stored(t) /\ lease[d].token # t /\ \A e \in Clients \ {d} : ~Knows(e, t)
            /\ pc[d] = "push" => call[d].commit.sidecar.token = t
        BY <1>8, <3>1, <3>2 DEF DrawnOK
      <3>4. Knows(d, t)
        BY <3>1, <3>2 DEF Knows, Locking
      <3>5. t <= tokens /\ t # n
        BY <1>7, <1>8, <3>4 DEF DrawnOK
      <3>6. ~Stored(t)' /\ \A e \in Clients \ {d} : ~Knows(e, t)'
        BY <1>5, <1>6, <3>3, <3>5
      <3> QED
        BY <3>1, <3>2, <3>3, <3>6
    <2> QED
      BY <2>1, <2>2
  <1>12. DrawnOK'
    BY <1>10, <1>11 DEF DrawnOK
  <1>13. SendsOK("decide", x, lease[c])
    BY <1>3, EmptyFloor DEF SendsOK
  <1>14. \A d \in Clients : SendsOK(pc'[d], call'[d], lease'[d])
    BY <1>1, <1>3, <1>4, <1>13 DEF SimInv
  <1> QED
    BY <1>1, <1>12, <1>14 DEF SimInv

LEMMA BeginRenewSim == ASSUME IInv, SimInv, NEW c \in Clients, BeginRenew(c) PROVE SimInv'
  <1>1. PICK ttl \in TTLs :
          /\ call' = [call EXCEPT ![c] = [NoCall EXCEPT !.kind = "renew", !.key = lease[c].key,
                          !.token = lease[c].token, !.expiry = now + ttl]]
          /\ pc' = [pc EXCEPT ![c] = "decide"]
          /\ UNCHANGED <<now, tokens, registry, lease, tip, late, failures>>
    BY DEF BeginRenew, Goto
  <1> DEFINE x == [NoCall EXCEPT !.kind = "renew", !.key = lease[c].key,
                                 !.token = lease[c].token, !.expiry = now + ttl]
  <1>2. /\ x.kind = "renew" /\ x.key = lease[c].key /\ x.token = lease[c].token
        /\ x.head = EmptyTip
    BY DEF NoCall
  <1>5. call' = [call EXCEPT ![c] = x]
    BY <1>1
  <1> HIDE DEF x
  <1>3. SendsOK("decide", x, lease[c])
    BY <1>2, EmptyFloor DEF SendsOK
  <1>4. Knows(c, x.token)
    BY <1>2 DEF Knows
  <1> QED
    BY <1>1, <1>2, <1>3, <1>4, <1>5, QuietSim DEF Labels

\* The commit of lock() or renew(), built on the tip.
LEMMA BuiltFence ==
    ASSUME IInv, NEW c \in Clients, BuildFence(c)
    PROVE  \E x : /\ call' = [call EXCEPT ![c] = x] /\ pc' = [pc EXCEPT ![c] = "push"]
                  /\ x.commit = FenceCommit(c, tip) /\ x.head = tip
                  /\ x.kind = call[c].kind /\ x.key = call[c].key /\ x.token = call[c].token
  <1> DEFINE m == FenceCommit(c, tip)
             x1 == [call[c] EXCEPT !.head = tip]
             x2 == [x1 EXCEPT !.commit = m]
             x  == [x2 EXCEPT !.attempts = call[c].attempts + 1]
             y  == [call[c] EXCEPT !.head = tip, !.commit = m, !.attempts = call[c].attempts + 1]
  <1>1. call' = [call EXCEPT ![c] = y] /\ pc' = [pc EXCEPT ![c] = "push"]
    BY DEF BuildFence, Goto
  <1>2. call[c] \in Call /\ DOMAIN call[c] = DOMAIN NoCall
    BY DEF IInv, Call, NoCall
  <1> HIDE DEF m
  <1>3. x = y
    OBVIOUS
  <1> HIDE DEF y
  <1>4. /\ x1.head = tip /\ x1.kind = call[c].kind /\ x1.key = call[c].key
        /\ x1.token = call[c].token /\ DOMAIN x1 = DOMAIN NoCall
    BY <1>2 DEF NoCall
  <1> HIDE DEF x1
  <1>5. /\ x2.head = tip /\ x2.kind = call[c].kind /\ x2.key = call[c].key /\ x2.commit = m
        /\ x2.token = call[c].token /\ DOMAIN x2 = DOMAIN NoCall
    BY <1>4 DEF NoCall
  <1> HIDE DEF x2
  <1>6. /\ x.head = tip /\ x.kind = call[c].kind /\ x.key = call[c].key /\ x.commit = m
        /\ x.token = call[c].token
    BY <1>5 DEF NoCall
  <1> HIDE DEF x
  <1> QED
    BY <1>1, <1>3, <1>6 DEF m

LEMMA BuildFenceSim == ASSUME IInv, SimInv, NEW c \in Clients, BuildFence(c) PROVE SimInv'
  <1>1. PICK x : /\ call' = [call EXCEPT ![c] = x] /\ pc' = [pc EXCEPT ![c] = "push"]
                 /\ x.commit = FenceCommit(c, tip) /\ x.head = tip
                 /\ x.kind = call[c].kind /\ x.key = call[c].key /\ x.token = call[c].token
    BY BuiltFence
  <1>2. /\ pc[c] = "decide" /\ call[c].kind \in {"lock", "renew"} /\ call[c].key \in Keys
        /\ call[c].token \in Nat /\ call[c].expiry \in Nat
        /\ UNCHANGED <<tokens, lease, tip, late>>
    BY Records DEF BuildFence, Fencing, IInv, CallOK, leases
  <1> DEFINE s == tip.fence[call[c].key]
             g == FenceCommit(c, tip).sidecar
  <1>3. s \in Fence /\ FloorOK(tip) /\ s.accepted <= s.owner /\ s.owner \in Nat
    BY <1>2, Records DEF SimInv, FloorOK, Fence
  <1>4. /\ x.commit.key = x.key /\ x.commit.body = None /\ x.commit.sidecar = g
    BY <1>1 DEF FenceCommit
  <1>5. CASE call[c].kind = "lock"
    <2>1. g = Advanced(s, call[c].token, call[c].expiry)
      BY <1>5 DEF FenceCommit
    <2> HIDE DEF g, s
    <2>2. /\ g \in Fence /\ g.accepted = s.accepted /\ g.token = call[c].token
      <3>1. s \in Fence /\ call[c].token \in Nat /\ call[c].expiry \in Nat
        BY <1>2, <1>3
      <3>2. g \in Fence /\ g.accepted = s.accepted
        BY <2>1, <3>1, AdvancedRises
      <3>3. g.token = call[c].token
        BY <2>1, <3>1, AdvancedOwner
      <3> QED
        BY <3>2, <3>3
    <2>3. g.owner = s.owner + 1
      <3>1. g.owner = NextFence(s)
        <4> DEFINE h1 == [s EXCEPT !.token = call[c].token]
                   h2 == [h1 EXCEPT !.expiry = call[c].expiry]
        <4>1. h1 \in Fence
          BY <1>2, <1>3 DEF Fence
        <4> HIDE DEF h1
        <4>2. h2 \in Fence
          BY <1>2, <4>1 DEF Fence
        <4>3. g = [h2 EXCEPT !.owner = NextFence(s)]
          BY <2>1 DEF Advanced, h1
        <4> HIDE DEF h2
        <4> QED
          BY <4>2, <4>3 DEF Fence
      <3> QED
        BY <1>3, <3>1 DEF NextFence, Fence
    <2>4. g # NoSidecar /\ g.accepted <= g.owner
      BY <1>3, <2>2, <2>3 DEF Fence, NoSidecar, NoFence
    <2>5. SendsOK("push", x, lease[c])
      BY <1>1, <1>2, <1>3, <1>4, <1>5, <2>3, <2>4 DEF SendsOK, Built, s
    <2>6. Knows(c, x.token) /\ Locking(c) /\ x.commit.sidecar.token = call[c].token
      BY <1>1, <1>2, <1>4, <1>5, <2>2 DEF Knows, Locking
    <2>7. Knows(c, x.commit.sidecar.token)
      BY <1>1, <2>6
    <2> QED
      BY <1>1, <1>2, <2>5, <2>6, <2>7, QuietSim DEF Labels
  <1>6. CASE call[c].kind = "renew"
    <2>1. g = Renewed(s, call[c].expiry) /\ s.token = call[c].token
      BY <1>6 DEF FenceCommit, BuildFence
    <2> HIDE DEF g, s
    <2>2. /\ g \in Fence /\ g.accepted = s.accepted /\ g.owner = s.owner /\ g.token = s.token
      BY <1>2, <1>3, <2>1, RenewedKeeps DEF Renewed, Fence
    <2>4. g # NoSidecar /\ g.accepted <= g.owner
      BY <1>3, <2>2 DEF Fence, NoSidecar, NoFence
    <2>5. SendsOK("push", x, lease[c])
      BY <1>1, <1>2, <1>3, <1>4, <1>6, <2>2, <2>4 DEF SendsOK, Built, s
    <2>6. Knows(c, x.token)
      BY <1>1, <1>2, <1>6 DEF Knows
    <2>7. Knows(c, x.commit.sidecar.token)
      BY <1>1, <1>4, <2>1, <2>2, <2>6
    <2>8. x.kind # "lock"
      BY <1>1, <1>6
    <2> QED
      BY <1>1, <1>2, <2>5, <2>6, <2>7, <2>8, QuietSim DEF Labels
  <1> QED
    BY <1>2, <1>5, <1>6

\* Rejected: the commit is dropped, the call goes on.
LEMMA RetryFenceSim == ASSUME IInv, SimInv, NEW c \in Clients, RetryFence(c) PROVE SimInv'
  <1>1. /\ pc[c] = "push" /\ call[c].kind \in {"lock", "renew"}
        /\ pc' = [pc EXCEPT ![c] = "decide"] /\ UNCHANGED <<tokens, lease, tip, late, call>>
    BY DEF RetryFence, Fencing, Goto, leases
  <1>2. call' = [call EXCEPT ![c] = call[c]]
    BY <1>1 DEF IInv
  <1>3. SendsOK("decide", call[c], lease[c])
    BY <1>1 DEF SimInv, SendsOK
  <1>4. Knows(c, call[c].token) /\ (call[c].kind = "lock" => Locking(c))
    BY <1>1 DEF Knows, Locking
  <1> QED
    BY <1>1, <1>2, <1>3, <1>4, QuietSim DEF Labels

\* The ends of the calls.
LEMMA EndsSim ==
    ASSUME IInv, SimInv, NEW c \in Clients,
           \/ RefuseWrite(c) \/ PushWrite(c) \/ PushWriteRejected(c) \/ PushWriteFails(c)
           \/ RenewSuperseded(c) \/ PushRenew(c) \/ GiveUpFence(c) \/ PushFenceFails(c)
    PROVE  SimInv'
  <1>1. Return(c) /\ tokens' = tokens /\ lease' = lease
    BY DEF RefuseWrite, PushWrite, PushWriteRejected, PushWriteFails, RenewSuperseded, PushRenew,
           GiveUpFence, PushFenceFails, leases
  <1>2. Ships(c)
    <2>1. CASE RefuseWrite(c) \/ PushWriteRejected(c) \/ RenewSuperseded(c) \/ GiveUpFence(c)
      BY <2>1 DEF RefuseWrite, PushWriteRejected, RenewSuperseded, GiveUpFence, Ships
    <2>2. CASE PushWrite(c) \/ PushRenew(c)
      BY <2>2 DEF PushWrite, PushRenew, Writing, Fencing, Pushed, UpToDate, Ships
    <2>3. CASE PushWriteFails(c) \/ PushFenceFails(c)
      BY <2>3 DEF PushWriteFails, PushFenceFails, Writing, Fencing, GiveUp, Rejected, Live, Ships
    <2> QED
      BY <2>1, <2>2, <2>3
  <1> QED
    BY <1>1, <1>2, ReturnSim

LEMMA PushLockSim == ASSUME IInv, SimInv, NEW c \in Clients, PushLock(c) PROVE SimInv'
  <1>1. /\ Return(c) /\ tokens' = tokens /\ Locking(c)
        /\ lease' = [lease EXCEPT ![c] = [key |-> call[c].key, token |-> call[c].token,
                                          fence |-> call[c].commit.sidecar.owner]]
    BY DEF PushLock, Granted, Fencing, Locking
  <1>2. lease'[c].token = call[c].token /\ \A d \in Clients \ {c} : lease'[d] = lease[d]
    BY <1>1 DEF IInv, LeasesOK
  <1>3. Ships(c)
    BY DEF PushLock, Fencing, Pushed, UpToDate, Ships
  <1> QED
    BY <1>1, <1>2, <1>3, ReturnSim

\* unlock(), the clock and stuttering.
LEMMA IdleSim ==
    ASSUME SimInv, UNCHANGED <<tokens, lease, tip, pc, call, late>> PROVE SimInv'
  <1>1. \A t \in Nat \ {0} : Stored(t)' <=> Stored(t)
    BY DEF Stored
  <1>2. \A d \in Clients, t \in Nat \ {0} : Knows(d, t)' <=> Knows(d, t)
    BY DEF Knows
  <1>3. DrawnOK'
    BY DEF SimInv, DrawnOK, Locking, Stored, Knows
  <1> QED
    BY <1>3 DEF SimInv

LEMMA LateLandsSim == ASSUME IInv, SimInv, LateLands PROVE SimInv'
  <1>1. PICK m \in late : Lands(m.commit) /\ UNCHANGED <<now, leases, pc, call, failures>>
    BY DEF LateLands
  <1>2. m.commit \in Commit /\ Built(m.commit, tip) /\ FloorOK(tip) /\ tokens' = tokens
        /\ lease' = lease
    BY <1>1 DEF IInv, LateOK, SimInv, leases
  <1>3. FloorOK(tip') /\ late' = {}
    BY <1>1, <1>2, FloorStays DEF Lands
  <1>4. \A t \in Nat \ {0} : Stored(t)' => Stored(t)
    <2>1. /\ late' = {} /\ tip'.made = m.commit
          /\ \A k \in Keys : tip'.fence[k] \in {tip.fence[k], m.commit.sidecar}
      BY <1>1, <1>2, LandsOn
    <2> QED
      BY <1>1, <2>1 DEF Stored
  <1>5. \A d \in Clients, t \in Nat \ {0} : Knows(d, t)' => Knows(d, t)
    BY <1>1, <1>2 DEF Knows
  <1>6. ASSUME NEW d \in Clients, Locking(d)'
        PROVE  /\ Locking(d) /\ call'[d].token = call[d].token /\ lease'[d].token = lease[d].token
               /\ pc'[d] = "push" => call'[d].commit.sidecar.token = call[d].token
    BY <1>1, <1>2, <1>6 DEF Locking, SimInv, DrawnOK
  <1>7. DrawnOK'
    <2> DEFINE gone == {}
    <2>1. /\ gone \in SUBSET Clients /\ DrawnOK
          /\ \A t \in Nat \ {0} : Stored(t)' => Stored(t) \/ \E c \in gone : Knows(c, t)
          /\ \A d \in Clients, t \in Nat \ {0} : Knows(d, t)' => Stored(t) \/ Knows(d, t)
          /\ \A d \in Clients : d \notin gone
      BY <1>4, <1>5 DEF SimInv
    <2> HIDE DEF gone
    <2> QED
      BY <1>2, <1>6, <2>1, DrawnKept
  <1>8. \A d \in Clients : SendsOK(pc'[d], call'[d], lease'[d])
    BY <1>1, <1>2 DEF SimInv
  <1> QED
    BY <1>3, <1>7, <1>8 DEF SimInv

\* What a crash does to the client d of a process, and to the pushes.
LEMMA Crashed ==
    ASSUME IInv, NEW i \in Instances, Crash(i)
    PROVE  /\ tip' = tip /\ tokens' = tokens
           /\ \A d \in Clients :
                /\ Caller(d) = i => pc'[d] = "idle" /\ call'[d] = NoCall /\ lease'[d] = NoLease
                /\ Caller(d) # i => pc'[d] = pc[d] /\ call'[d] = call[d] /\ lease'[d] = lease[d]
           /\ late \subseteq late'
           /\ \A m \in late' : \/ m \in late
                               \/ \E c \in Clients : /\ Caller(c) = i /\ Live(c)
                                                     /\ m.commit = call[c].commit
  <1> DEFINE gone == {c \in Clients : Caller(c) = i}
  <1>1. /\ late' = late \cup {[commit |-> call[c].commit, told |-> "crash"] :
                              c \in {x \in gone : pc[x] = "push" /\ ~Rejected(call[x].commit)}}
        /\ pc' = [c \in Clients |-> IF c \in gone THEN "idle" ELSE pc[c]]
        /\ call' = [c \in Clients |-> IF c \in gone THEN NoCall ELSE call[c]]
        /\ lease' = [c \in Clients |-> IF Caller(c) = i THEN NoLease ELSE lease[c]]
        /\ tip' = tip /\ tokens' = tokens
    BY DEF Crash, Forgotten
  <1>2. ASSUME NEW m \in late', m \notin late
        PROVE  \E c \in Clients : Caller(c) = i /\ Live(c) /\ m.commit = call[c].commit
    BY <1>1, <1>2 DEF Live, Rejected
  <1> QED
    BY <1>1, <1>2

LEMMA CrashSim == ASSUME IInv, SimInv, NEW i \in Instances, Crash(i) PROVE SimInv'
  <1> DEFINE gone == {c \in Clients : Caller(c) = i}
  <1>1. /\ tip' = tip /\ tokens' = tokens
        /\ \A d \in Clients :
             /\ d \in gone => pc'[d] = "idle" /\ call'[d] = NoCall /\ lease'[d] = NoLease
             /\ d \notin gone => pc'[d] = pc[d] /\ call'[d] = call[d] /\ lease'[d] = lease[d]
        /\ \A m \in late' : \/ m \in late
                            \/ \E c \in gone : Live(c) /\ m.commit = call[c].commit
        /\ gone \in SUBSET Clients
    BY Crashed
  <1> HIDE DEF gone
  <1>2. \A t \in Nat \ {0} : Stored(t)' => Stored(t) \/ \E c \in gone : Knows(c, t)
    BY <1>1 DEF Stored, Knows, Live
  <1>3. \A d \in Clients, t \in Nat \ {0} : Knows(d, t)' => Stored(t) \/ Knows(d, t)
    <2> SUFFICES ASSUME NEW d \in Clients, NEW t \in Nat \ {0}, Knows(d, t)' PROVE Knows(d, t)
      OBVIOUS
    <2>1. CASE d \in gone
      BY <1>1, <2>1 DEF Knows, NoLease
    <2>2. CASE d \notin gone
      BY <1>1, <2>2 DEF Knows
    <2> QED
      BY <2>1, <2>2
  <1>4. ASSUME NEW d \in Clients, Locking(d)'
        PROVE  /\ Locking(d) /\ d \notin gone
               /\ call'[d].token = call[d].token /\ lease'[d].token = lease[d].token
               /\ pc'[d] = "push" => call'[d].commit.sidecar.token = call[d].token
    BY <1>1, <1>4 DEF Locking, SimInv, DrawnOK
  <1>5. DrawnOK'
    <2>1. DrawnOK
      BY DEF SimInv
    <2> QED
      BY <1>1, <1>2, <1>3, <1>4, <2>1, DrawnKept
  <1>6. \A d \in Clients : SendsOK(pc'[d], call'[d], lease'[d])
    <2> SUFFICES ASSUME NEW d \in Clients PROVE SendsOK(pc'[d], call'[d], lease'[d])
      OBVIOUS
    <2>1. CASE d \in gone
      BY <1>1, <2>1, EmptyFloor DEF SendsOK, NoCall
    <2>2. CASE d \notin gone
      BY <1>1, <2>2 DEF SimInv
    <2> QED
      BY <2>1, <2>2
  <1>7. \A m \in late' : Built(m.commit, tip)
    BY <1>1, BuiltOnTip DEF Live, SimInv
  <1> QED
    BY <1>1, <1>5, <1>6, <1>7 DEF SimInv

LEMMA NextSim == ASSUME IInv, SimInv, [Next]_vars PROVE SimInv'
  <1>1. ASSUME NEW c \in Clients, Begin(c) PROVE SimInv'
    <2>1. CASE Unlock(c)
      BY <2>1, IdleSim DEF Unlock, Released
    <2> QED
      BY <1>1, <2>1, BeginWriteSim, BeginLockSim, BeginRenewSim DEF Begin
  <1>2. ASSUME NEW c \in Clients, Continue(c) PROVE SimInv'
    BY <1>2, BuildWriteSim, BuildFenceSim, RetryFenceSim, PushLockSim, EndsSim DEF Continue
  <1>3. ASSUME Tick \/ UNCHANGED vars PROVE SimInv'
    BY <1>3, IdleSim DEF Tick, vars, leases
  <1> QED
    BY <1>1, <1>2, <1>3, LateLandsSim, CrashSim DEF Next

-----------------------------------------------------------------------------
(***************************************************************************)
(* Every step is a step of the contract, or none.                          *)
(***************************************************************************)
Orphans == {Orphan(m.commit) : m \in {x \in late : x.commit.body # None}}

\* The client's write in the contract, while its commit is being pushed.
WriteOf(c) == [key |-> call[c].key, body |-> call[c].body,
               prior |-> IF call[c].kind = "create" THEN Absent ELSE call[c].expected,
               fenced |-> call[c].kind = "update"]

SameValues == tip'.blob = tip.blob
SameFences == \A k \in Keys : tip'.fence[k].owner = tip.fence[k].owner
SameLeases == \A c \in Clients : lease'[c].key = lease[c].key /\ lease'[c].fence = lease[c].fence
SameOps    == \A c \in Clients : OpOf(c)' = OpOf(c)

LEMMA Dropped ==
    ASSUME SameValues, SameFences, SameLeases, SameOps, Orphans' \subseteq Orphans
    PROVE  Contract!OrphansAreDropped
  BY DEF SameValues, SameFences, SameLeases, SameOps, Orphans, Contract!OrphansAreDropped

\* Only a client that is pushing a write has an open write.
LEMMA OpenOnly ==
    ASSUME NEW c
    PROVE  /\ Writing(c, "push") => OpOf(c) = [stage |-> "open", write |-> WriteOf(c)]
           /\ ~Writing(c, "push") => OpOf(c) = [stage |-> "idle"]
  BY DEF OpOf, WriteOf

LEMMA OthersOps ==
    ASSUME NEW c, pc'[c] = pc[c], call'[c] = call[c] PROVE OpOf(c)' = OpOf(c)
  BY DEF OpOf, Writing

\* A client that neither was nor is pushing a write.
LEMMA NotWriting ==
    ASSUME NEW c \in Clients, ~Writing(c, "push"), ~Writing(c, "push")',
           \A d \in Clients \ {c} : pc'[d] = pc[d] /\ call'[d] = call[d]
    PROVE  SameOps
  <1> SUFFICES ASSUME NEW d \in Clients PROVE OpOf(d)' = OpOf(d)
    BY DEF SameOps
  <1>1. CASE d = c
    BY <1>1 DEF OpOf
  <1>2. CASE d # c
    BY <1>2, OthersOps
  <1> QED
    BY <1>1, <1>2

LEMMA OrphansStay ==
    ASSUME tip' = tip, late' \subseteq late \/ \A m \in late' : m \in late \/ m.commit.body = None
    PROVE  Orphans' \subseteq Orphans
  BY DEF Orphans, Orphan

\* The steps that change neither the branch nor an open write.
LEMMA QuietImpl ==
    ASSUME IInv, NEW c \in Clients,
           \/ BeginCreate(c) \/ BeginUpdate(c) \/ BeginLock(c) \/ BeginRenew(c) \/ Unlock(c)
           \/ RefuseWrite(c) \/ BuildFence(c) \/ RenewSuperseded(c) \/ RetryFence(c)
           \/ GiveUpFence(c) \/ (PushFenceFails(c) /\ SimInv)
    PROVE  Contract!OrphansAreDropped
  <1>1. /\ ~Writing(c, "push")
        /\ tip' = tip /\ lease' = lease
    BY DEF BeginCreate, BeginUpdate, BeginWrite, BeginLock, BeginRenew, Unlock, Released,
           RefuseWrite, BuildFence, RenewSuperseded, RetryFence, GiveUpFence, PushFenceFails,
           Writing, Fencing, leases
  <1>2. ~Writing(c, "push")' /\ \A d \in Clients \ {c} : pc'[d] = pc[d] /\ call'[d] = call[d]
    <2>1. CASE BeginCreate(c) \/ BeginUpdate(c) \/ BeginLock(c) \/ BeginRenew(c)
      BY <2>1 DEF BeginCreate, BeginUpdate, BeginWrite, BeginLock, BeginRenew, Goto, Writing, IInv
    <2>2. CASE Unlock(c)
      BY <2>2 DEF Unlock, Writing
    <2>3. CASE RefuseWrite(c) \/ RenewSuperseded(c) \/ GiveUpFence(c) \/ PushFenceFails(c)
      BY <2>3 DEF RefuseWrite, RenewSuperseded, GiveUpFence, PushFenceFails, Return, Goto, Writing,
                  IInv
    <2>4. CASE RetryFence(c)
      BY <2>4 DEF RetryFence, Goto, Writing, IInv
    <2>5. CASE BuildFence(c)
      <3>1. PICK x : /\ call' = [call EXCEPT ![c] = x] /\ pc' = [pc EXCEPT ![c] = "push"]
                     /\ x.kind = call[c].kind
        BY <2>5, BuiltFence
      <3>2. call'[c] = x /\ x.kind \in {"lock", "renew"}
        BY <2>5, <3>1 DEF BuildFence, Fencing, IInv
      <3> QED
        BY <3>1, <3>2 DEF Writing
    <2> QED
      BY <2>1, <2>2, <2>3, <2>4, <2>5
  <1>3. \A m \in late' : m \in late \/ m.commit.body = None
    <2>1. CASE PushFenceFails(c) /\ SimInv
      <3>1. call[c].commit.body = None
        BY <2>1 DEF PushFenceFails, Fencing, SimInv, SendsOK
      <3> QED
        BY <2>1, <3>1 DEF PushFenceFails, GiveUp
    <2>2. CASE ~(PushFenceFails(c) /\ SimInv)
      BY <2>2 DEF BeginCreate, BeginUpdate, BeginWrite, BeginLock, BeginRenew, Unlock,
           RefuseWrite, BuildFence, RenewSuperseded, RetryFence, GiveUpFence
    <2> QED
      BY <2>1, <2>2
  <1>4. SameValues /\ SameFences /\ SameLeases
    BY <1>1 DEF SameValues, SameFences, SameLeases
  <1> QED
    BY <1>1, <1>2, <1>3, <1>4, NotWriting, OrphansStay, Dropped

\* The write begins when its commit is built.
LEMMA BuildWriteImpl ==
    ASSUME IInv, SimInv, NEW c \in Clients, BuildWrite(c) PROVE Contract!BeginWrite(c)
  <1>1. PICK x : /\ call' = [call EXCEPT ![c] = x] /\ pc' = [pc EXCEPT ![c] = "push"]
                 /\ x.kind = call[c].kind /\ x.key = call[c].key /\ x.body = call[c].body
                 /\ x.expected = call[c].expected
    BY BuiltWrite
  <1>2. /\ pc[c] = "decide" /\ call[c].kind \in {"create", "update"} /\ call[c].key \in Keys
        /\ SendsOK(pc[c], call[c], lease[c])
        /\ tip' = tip /\ lease' = lease /\ late' = late
    BY DEF BuildWrite, Writing, SimInv, IInv, CallOK, leases
  <1>3. /\ call'[c] = x /\ pc'[c] = "push"
        /\ \A d \in Clients \ {c} : pc'[d] = pc[d] /\ call'[d] = call[d]
    BY <1>1 DEF IInv
  <1>4. WriteOf(c)' = WriteOf(c)
    BY <1>1, <1>3 DEF WriteOf
  <1>5. WriteOf(c) \in Contract!Write
    BY <1>2 DEF WriteOf, SendsOK, Prior, Contract!Write
  <1>6. OpOf(c) = Contract!Idle /\ OpOf(c)' = Contract!Open(WriteOf(c))
    <2>1. ~Writing(c, "push") /\ Writing(c, "push")'
      BY <1>1, <1>2, <1>3 DEF Writing
    <2>2. OpOf(c)' = [stage |-> "open", write |-> WriteOf(c)']
      BY <2>1 DEF OpOf, WriteOf
    <2> QED
      BY <1>4, <2>1, <2>2, OpenOnly DEF Contract!Idle, Contract!Open
  <1>7. \A d \in Clients : OpOf(d)' = IF d = c THEN Contract!Open(WriteOf(c)) ELSE OpOf(d)
    BY <1>3, <1>6, OthersOps
  <1>8. [d \in Clients |-> OpOf(d)]'
          = [[d \in Clients |-> OpOf(d)] EXCEPT ![c] = Contract!Open(WriteOf(c))]
    BY <1>7
  <1>9. Orphans' = Orphans
    BY <1>2 DEF Orphans, Orphan
  <1> QED
    BY <1>2, <1>5, <1>6, <1>8, <1>9 DEF Contract!BeginWrite, Orphans

\* What a client pushes that is not rejected, compared with the tip.
LEMMA PushFacts ==
    ASSUME IInv, SimInv, NEW c \in Clients, Writing(c, "push"),
           call[c].commit.base = tip.id
    PROVE  LET m == call[c].commit w == WriteOf(c) IN
           /\ m \in Commit /\ Built(m, tip) /\ m.key = w.key /\ m.body = w.body
           /\ m.body \in Bodies /\ m.body # None /\ w \in Contract!Write
           /\ tip.blob[w.key] = w.prior /\ w.fenced = (m.sidecar # NoSidecar)
           /\ w.fenced => lease[c].key = w.key /\ lease[c].fence = tip.fence[w.key].owner
  <1>1. /\ pc[c] = "push" /\ call[c].kind \in {"create", "update"} /\ call[c].key \in Keys
        /\ SendsOK(pc[c], call[c], lease[c]) /\ call[c].commit \in Commit
    BY DEF Writing, SimInv, IInv, CallOK
  <1>2. call[c].head = tip /\ Built(call[c].commit, tip)
    BY <1>1, BuiltOnTip
  <1> QED
    BY <1>1, <1>2, SentinelAssumption DEF SendsOK, Prior, WriteOf, Contract!Write

\* The return of c while others stay.
LEMMA ReturnOps ==
    ASSUME IInv, NEW c \in Clients, Return(c)
    PROVE  [d \in Clients |-> OpOf(d)]'
             = [[d \in Clients |-> OpOf(d)] EXCEPT ![c] = [stage |-> "idle"]]
  <1>1. pc'[c] = "idle" /\ \A d \in Clients \ {c} : pc'[d] = pc[d] /\ call'[d] = call[d]
    BY DEF IInv, Return, Goto
  <1>2. OpOf(c)' = [stage |-> "idle"]
    BY <1>1 DEF OpOf, Writing
  <1>3. \A d \in Clients : OpOf(d)' = IF d = c THEN [stage |-> "idle"] ELSE OpOf(d)
    BY <1>1, <1>2, OthersOps
  <1> QED
    BY <1>3

\* What a commit that lands does to the values and the fences.
LEMMA LandedTip ==
    ASSUME IInv, NEW m \in Commit, Built(m, tip), Lands(m)
    PROVE  /\ tip'.blob = IF m.body = None THEN tip.blob ELSE [tip.blob EXCEPT ![m.key] = m.body]
           /\ m.body # None => SameFences
           /\ \/ SameFences
              \/ \A k \in Keys : tip'.fence[k].owner = IF k = m.key THEN tip.fence[k].owner + 1
                                                       ELSE tip.fence[k].owner
           /\ m.body = None => tip'.fence[m.key].owner = m.sidecar.owner
           /\ Orphans' = {} /\ m.key \in Keys
  <1>1. /\ late' = {} /\ tip'.blob = IF m.body = None THEN tip.blob
                                     ELSE [tip.blob EXCEPT ![m.key] = m.body]
    BY DEF Lands, Applied
  <1>2. \A k \in Keys : tip'.fence[k] = IF m.sidecar # NoSidecar /\ k = m.key THEN m.sidecar
                                        ELSE tip.fence[k]
    BY LandsOn
  <1>3. m.key \in Keys
    BY DEF Commit
  <1>4. Orphans' = {}
    BY <1>1 DEF Orphans
  <1> QED
    BY <1>1, <1>2, <1>3, <1>4 DEF Built, SameFences

LEMMA PushWriteImpl ==
    ASSUME IInv, SimInv, NEW c \in Clients, PushWrite(c)
    PROVE  Contract!Land(c) \/ Contract!Return(c)
  <1> DEFINE m == call[c].commit
             w == WriteOf(c)
             ops == [d \in Clients |-> OpOf(d)]
             ls  == [d \in Clients |-> [key |-> lease[d].key, fence |-> lease[d].fence]]
  <1>1. Writing(c, "push") /\ Pushed(m) /\ Return(c) /\ lease' = lease
    BY DEF PushWrite, leases
  <1>2. ops[c] = [stage |-> "open", write |-> w] /\ ops' = [ops EXCEPT ![c] = [stage |-> "idle"]]
    BY <1>1, OpenOnly, ReturnOps
  <1>3. CASE UpToDate(m)
    <2>1. tip' = tip /\ late' = late
      BY <1>3 DEF UpToDate
    <2>2. Orphans' = Orphans
      BY <2>1 DEF Orphans, Orphan
    <2> QED
      BY <1>1, <1>2, <2>1, <2>2 DEF Contract!Return, Contract!Idle, Orphans
  <1>4. CASE Lands(m)
    <2>1. m.base = tip.id
      BY <1>4 DEF Lands
    <2>2. /\ m \in Commit /\ Built(m, tip) /\ m.key = w.key /\ m.body = w.body
          /\ m.body \in Bodies /\ m.body # None /\ w \in Contract!Write
          /\ tip.blob[w.key] = w.prior
          /\ w.fenced => lease[c].key = w.key /\ lease[c].fence = tip.fence[w.key].owner
      BY <1>1, <2>1, PushFacts
    <2>3. tip'.blob = [tip.blob EXCEPT ![w.key] = w.body] /\ SameFences /\ Orphans' = {}
          /\ w.key \in Keys
      BY <1>4, <2>2, LandedTip
    <2>4. [k \in Keys |-> tip.fence[k].owner]' = [k \in Keys |-> tip.fence[k].owner]
      BY <2>3 DEF SameFences
    <2>5. ls' = ls
      BY <1>1
    <2>6. w.fenced => ls[c] = [key |-> w.key, fence |-> [k \in Keys |-> tip.fence[k].owner][w.key]]
      BY <2>2, <2>3
    <2> HIDE DEF w
    <2> QED
      BY <1>2, <2>2, <2>3, <2>4, <2>5, <2>6
      DEF Contract!Land, Contract!IsOpen, Contract!FenceOk, Contract!Idle, Orphans
  <1> QED
    BY <1>1, <1>3, <1>4 DEF Pushed

LEMMA PushWriteRejectedImpl ==
    ASSUME IInv, NEW c \in Clients, PushWriteRejected(c) PROVE Contract!Return(c)
  <1> DEFINE ops == [d \in Clients |-> OpOf(d)]
  <1>1. /\ Writing(c, "push") /\ Return(c) /\ tip' = tip /\ late' = late /\ lease' = lease
    BY DEF PushWriteRejected, leases
  <1>2. /\ ops[c] = [stage |-> "open", write |-> WriteOf(c)]
        /\ ops' = [ops EXCEPT ![c] = [stage |-> "idle"]]
    BY <1>1, OpenOnly, ReturnOps
  <1>3. Orphans' = Orphans
    BY <1>1 DEF Orphans, Orphan
  <1> QED
    BY <1>1, <1>2, <1>3 DEF Contract!Return, Contract!Idle, Orphans

\* A push that is late is the write of its client, left behind.
LEMMA OrphanOf ==
    ASSUME IInv, SimInv, NEW c \in Clients, Live(c), call[c].commit.body # None
    PROVE  Writing(c, "push") /\ Orphan(call[c].commit) = WriteOf(c)
  <1>1. Writing(c, "push")
    BY DEF Live, SimInv, SendsOK, Writing, IInv, CallOK, Call
  <1>2. LET m == call[c].commit w == WriteOf(c) IN
        /\ m.key = w.key /\ m.body = w.body
        /\ tip.blob[w.key] = w.prior /\ w.fenced = (m.sidecar # NoSidecar)
    BY <1>1, PushFacts DEF Live
  <1> QED
    BY <1>1, <1>2 DEF Orphan, WriteOf

LEMMA PushWriteFailsImpl ==
    ASSUME IInv, SimInv, NEW c \in Clients, PushWriteFails(c) PROVE Contract!Abandon(c)
  <1> DEFINE ops == [d \in Clients |-> OpOf(d)]
             w == WriteOf(c)
  <1>1. /\ Writing(c, "push") /\ Return(c) /\ tip' = tip /\ lease' = lease
        /\ \A m \in late' : m \in late \/ (Live(c) /\ m.commit = call[c].commit)
    BY DEF PushWriteFails, leases, GiveUp, Rejected, Live, Writing
  <1>2. /\ ops[c] = [stage |-> "open", write |-> w]
        /\ ops' = [ops EXCEPT ![c] = [stage |-> "idle"]]
    BY <1>1, OpenOnly, ReturnOps
  <1>3. Orphans' \subseteq Orphans \cup {w}
    <2> SUFFICES ASSUME NEW m \in late', m.commit.body # None
                 PROVE  Orphan(m.commit) \in Orphans \cup {w}
      BY <1>1 DEF Orphans, Orphan
    <2>1. CASE m \in late
      BY <2>1 DEF Orphans
    <2>2. CASE Live(c) /\ m.commit = call[c].commit
      BY <2>2, OrphanOf
    <2> QED
      BY <1>1, <2>1, <2>2
  <1> HIDE DEF w
  <1> QED
    BY <1>1, <1>2, <1>3 DEF Contract!Abandon, Contract!IsOpen, Contract!Idle, Orphans

\* A commit with a token nobody else has is not the one at the tip.
LEMMA LockIsDrawn ==
    ASSUME IInv, SimInv, NEW c \in Clients, Locking(c), pc[c] = "push", UpToDate(call[c].commit)
    PROVE  FALSE
  <1>1. /\ call[c].commit.sidecar.token = call[c].token /\ ~Stored(call[c].token)
    BY DEF SimInv, DrawnOK
  <1>2. Stored(call[c].commit.sidecar.token)
    BY DEF UpToDate, Stored
  <1> QED
    BY <1>1, <1>2

\* A client that leaves lock() or renew() was writing neither before nor after.
LEMMA FenceReturns ==
    ASSUME IInv, NEW c \in Clients, Fencing(c, "push"), Return(c) PROVE SameOps
  <1>1. /\ ~Writing(c, "push") /\ ~Writing(c, "push")'
        /\ \A d \in Clients \ {c} : pc'[d] = pc[d] /\ call'[d] = call[d]
    BY DEF Fencing, Writing, Return, Goto, IInv
  <1> QED
    BY <1>1, NotWriting

LEMMA PushLockImpl ==
    ASSUME IInv, SimInv, NEW c \in Clients, PushLock(c) PROVE Contract!Lock(c)
  <1> DEFINE m == call[c].commit
             k == call[c].key
             fs == [j \in Keys |-> tip.fence[j].owner]
             ls == [d \in Clients |-> [key |-> lease[d].key, fence |-> lease[d].fence]]
             ops == [d \in Clients |-> OpOf(d)]
  <1>1. /\ Fencing(c, "push") /\ call[c].kind = "lock" /\ Return(c) /\ Lands(m)
        /\ lease' = [lease EXCEPT ![c] = [key |-> k, token |-> call[c].token,
                                          fence |-> m.sidecar.owner]]
    BY LockIsDrawn DEF PushLock, Pushed, Granted, Fencing, Locking
  <1>2. /\ pc[c] = "push" /\ SendsOK(pc[c], call[c], lease[c]) /\ m \in Commit /\ k \in Keys
    BY <1>1 DEF Fencing, SimInv, IInv, CallOK
  <1>3. call[c].head = tip /\ Built(m, tip)
    BY <1>1, <1>2, BuiltOnTip DEF Lands
  <1>4. m.key = k /\ m.body = None /\ m.sidecar.owner = tip.fence[k].owner + 1
    BY <1>1, <1>2, <1>3 DEF SendsOK
  <1>5. tip.fence[k].owner \in Nat
    BY <1>2, Records DEF Fence
  <1>6. /\ tip'.blob = tip.blob /\ Orphans' = {}
        /\ \A j \in Keys : tip'.fence[j].owner = IF j = k THEN tip.fence[k].owner + 1
                                                 ELSE tip.fence[j].owner
    <2>1. /\ tip'.blob = IF m.body = None THEN tip.blob ELSE [tip.blob EXCEPT ![m.key] = m.body]
          /\ \/ SameFences
             \/ \A j \in Keys : tip'.fence[j].owner = IF j = m.key THEN tip.fence[j].owner + 1
                                                      ELSE tip.fence[j].owner
          /\ m.body = None => tip'.fence[m.key].owner = m.sidecar.owner
          /\ Orphans' = {} /\ m.key \in Keys
      BY <1>1, <1>2, <1>3, LandedTip
    <2> HIDE DEF m, k
    <2> QED
      BY <1>2, <1>4, <1>5, <2>1 DEF SameFences
  <1>7. fs' = [fs EXCEPT ![k] = fs[k] + 1]
    BY <1>2, <1>6
  <1>8. ls' = [ls EXCEPT ![c] = [key |-> k, fence |-> fs[k] + 1]]
    <2>1. /\ lease'[c].key = k /\ lease'[c].fence = tip.fence[k].owner + 1
          /\ \A d \in Clients \ {c} : lease'[d] = lease[d]
      BY <1>1, <1>4 DEF IInv, LeasesOK
    <2> QED
      BY <1>2, <2>1
  <1>9. ops' = ops /\ ops[c] = [stage |-> "idle"]
    <2>1. SameOps
      BY <1>1, FenceReturns
    <2>2. ~Writing(c, "push")
      BY <1>1 DEF Fencing, Writing
    <2> QED
      BY <2>1, <2>2, OpenOnly DEF SameOps
  <1> HIDE DEF k
  <1> QED
    BY <1>2, <1>6, <1>7, <1>8, <1>9 DEF Contract!Lock, Contract!Idle, Orphans

LEMMA PushRenewImpl ==
    ASSUME IInv, SimInv, NEW c \in Clients, PushRenew(c) PROVE Contract!OrphansAreDropped
  <1> DEFINE m == call[c].commit
  <1>1. /\ Fencing(c, "push") /\ call[c].kind = "renew" /\ Return(c) /\ lease' = lease /\ Pushed(m)
    BY DEF PushRenew
  <1>2. SameOps /\ SameLeases
    BY <1>1, FenceReturns DEF SameLeases
  <1>3. CASE UpToDate(m)
    <2>1. SameValues /\ SameFences /\ Orphans' \subseteq Orphans
      BY <1>3 DEF UpToDate, SameValues, SameFences, Orphans, Orphan
    <2> QED
      BY <1>2, <2>1, Dropped
  <1>4. CASE Lands(m)
    <2>1. /\ pc[c] = "push" /\ SendsOK(pc[c], call[c], lease[c]) /\ m \in Commit
          /\ call[c].key \in Keys
      BY <1>1 DEF Fencing, SimInv, IInv, CallOK
    <2>2. call[c].head = tip /\ Built(m, tip)
      BY <1>4, <2>1, BuiltOnTip DEF Lands
    <2>3. /\ m.key = call[c].key /\ m.body = None
          /\ m.sidecar.owner = tip.fence[call[c].key].owner + 0
      BY <1>1, <2>1, <2>2 DEF SendsOK
    <2>4. tip.fence[call[c].key].owner \in Nat
      BY <2>1, Records DEF Fence
    <2>5. SameValues /\ SameFences /\ Orphans' = {}
      <3>1. /\ tip'.blob = IF m.body = None THEN tip.blob ELSE [tip.blob EXCEPT ![m.key] = m.body]
            /\ \/ SameFences
               \/ \A j \in Keys : tip'.fence[j].owner = IF j = m.key THEN tip.fence[j].owner + 1
                                                        ELSE tip.fence[j].owner
            /\ m.body = None => tip'.fence[m.key].owner = m.sidecar.owner
            /\ Orphans' = {} /\ m.key \in Keys
        BY <1>4, <2>1, <2>2, LandedTip
      <3> HIDE DEF m
      <3> QED
        BY <2>1, <2>3, <2>4, <3>1 DEF SameFences, SameValues
    <2> QED
      BY <1>2, <2>5, Dropped
  <1> QED
    BY <1>1, <1>3, <1>4 DEF Pushed

\* A late push lands: a write of nobody, or a lock() or renew() of nobody.
LEMMA LateLandsImpl ==
    ASSUME IInv, SimInv, LateLands
    PROVE  Contract!OrphanLands \/ Contract!LockUnanswered \/ Contract!OrphansAreDropped
  <1>1. PICK x \in late : Lands(x.commit) /\ UNCHANGED <<now, leases, pc, call, failures>>
    BY DEF LateLands
  <1> DEFINE m == x.commit
             o == Orphan(m)
             fs == [j \in Keys |-> tip.fence[j].owner]
  <1>2. m \in Commit /\ Built(m, tip)
    BY DEF IInv, LateOK, SimInv
  <1>3. SameOps /\ SameLeases
    BY <1>1, OthersOps DEF SameOps, SameLeases, leases
  <1>4. /\ tip'.blob = IF m.body = None THEN tip.blob ELSE [tip.blob EXCEPT ![m.key] = m.body]
        /\ m.body # None => SameFences
        /\ \/ SameFences
           \/ \A k \in Keys : tip'.fence[k].owner = IF k = m.key THEN tip.fence[k].owner + 1
                                                    ELSE tip.fence[k].owner
        /\ Orphans' = {} /\ m.key \in Keys
    BY <1>1, <1>2, LandedTip
  <1> HIDE DEF m
  <1>5. CASE m.body # None
    <2>1. o \in Orphans /\ tip.blob[o.key] = o.prior
      BY <1>5 DEF Orphans, Orphan, m
    <2>2. tip'.blob = [tip.blob EXCEPT ![o.key] = o.body]
      BY <1>4, <1>5 DEF Orphan
    <2> HIDE DEF o
    <2> QED
      BY <1>3, <1>4, <1>5, <2>1, <2>2
      DEF Contract!OrphanLands, Orphans, SameFences, SameOps, SameLeases
  <1>6. CASE m.body = None /\ ~SameFences
    <2>1. fs' = [fs EXCEPT ![m.key] = fs[m.key] + 1]
      BY <1>4, <1>6
    <2> QED
      BY <1>3, <1>4, <1>6, <2>1
      DEF Contract!LockUnanswered, Orphans, SameOps, SameLeases
  <1>7. CASE m.body = None /\ SameFences
    BY <1>3, <1>4, <1>7, Dropped DEF SameValues
  <1> QED
    BY <1>5, <1>6, <1>7

\* A process dies: its open writes may land later, its leases are gone.
LEMMA CrashImpl ==
    ASSUME IInv, SimInv, NEW i \in Instances, Crash(i)
    PROVE  Contract!Crash \/ Contract!OrphansAreDropped
  <1> DEFINE dead == {c \in Clients : Caller(c) = i}
             ops == [d \in Clients |-> OpOf(d)]
             ls == [d \in Clients |-> [key |-> lease[d].key, fence |-> lease[d].fence]]
             lost == Orphans \cup {ops[c].write : c \in {x \in dead : ops[x].stage = "open"}}
  <1>1. /\ tip' = tip
        /\ \A d \in Clients :
             /\ d \in dead => pc'[d] = "idle" /\ call'[d] = NoCall /\ lease'[d] = NoLease
             /\ d \notin dead => pc'[d] = pc[d] /\ call'[d] = call[d] /\ lease'[d] = lease[d]
        /\ \A m \in late' : \/ m \in late
                            \/ \E c \in dead : Live(c) /\ m.commit = call[c].commit
        /\ dead \in SUBSET Clients
    BY Crashed
  <1> HIDE DEF dead
  <1>2. ops' = [d \in Clients |-> IF d \in dead THEN [stage |-> "idle"] ELSE ops[d]]
    <2> SUFFICES ASSUME NEW d \in Clients
                 PROVE  OpOf(d)' = IF d \in dead THEN [stage |-> "idle"] ELSE OpOf(d)
      OBVIOUS
    <2>1. CASE d \in dead
      BY <1>1, <2>1 DEF OpOf, Writing
    <2>2. CASE d \notin dead
      BY <1>1, <2>2, OthersOps
    <2> QED
      BY <2>1, <2>2
  <1>3. ls' = [d \in Clients |-> IF d \in dead THEN [key |-> None, fence |-> 0] ELSE ls[d]]
    <2> SUFFICES ASSUME NEW d \in Clients
                 PROVE  [key |-> lease'[d].key, fence |-> lease'[d].fence]
                          = IF d \in dead THEN [key |-> None, fence |-> 0] ELSE ls[d]
      OBVIOUS
    <2>1. CASE d \in dead
      BY <1>1, <2>1 DEF NoLease
    <2>2. CASE d \notin dead
      BY <1>1, <2>2
    <2> QED
      BY <2>1, <2>2
  <1>4. Orphans' \subseteq lost
    <2> SUFFICES ASSUME NEW m \in late', m.commit.body # None PROVE Orphan(m.commit) \in lost
      BY <1>1 DEF Orphans, Orphan
    <2>1. CASE m \in late
      BY <2>1 DEF Orphans
    <2>2. CASE \E c \in dead : Live(c) /\ m.commit = call[c].commit
      <3>1. PICK c \in dead : Live(c) /\ m.commit = call[c].commit
        BY <2>2
      <3>2. Writing(c, "push") /\ Orphan(m.commit) = WriteOf(c) /\ c \in Clients
        BY <1>1, <3>1, OrphanOf
      <3>3. ops[c] = [stage |-> "open", write |-> WriteOf(c)]
        BY <3>2, OpenOnly
      <3> QED
        BY <3>1, <3>2, <3>3
    <2> QED
      BY <1>1, <2>1, <2>2
  <1>5. tip'.blob = tip.blob /\ [k \in Keys |-> tip.fence[k].owner]' = [k \in Keys |-> tip.fence[k].owner]
    BY <1>1
  <1>6. CASE dead = {}
    <2>1. SameOps /\ SameLeases /\ SameValues /\ SameFences
      BY <1>1, <1>6, OthersOps DEF SameOps, SameLeases, SameValues, SameFences
    <2>2. Orphans' \subseteq Orphans
      BY <1>4, <1>6
    <2> QED
      BY <2>1, <2>2, Dropped
  <1>7. CASE dead # {}
    <2>1. tip.blob = [k \in Keys |-> tip.blob[k]]
      BY DEF IInv, TipOK, Tip
    <2>2. /\ {} \in SUBSET {w \in lost : tip.blob[w.key] = w.prior}
          /\ \A w, x \in {} : w.key = x.key => w = x
          /\ tip'.blob = Contract!Settled({})
      BY <1>5, <2>1 DEF Contract!Settled
    <2> QED
      BY <1>1, <1>2, <1>3, <1>4, <1>5, <1>7, <2>2
      DEF Contract!Crash, Contract!IsOpen, Contract!Idle, Contract!NoLease, Orphans
  <1> QED
    BY <1>6, <1>7

\* A commit lands, is refused or is late, a process dies: the contract has a step
\* for it.
LEMMA NextImpl ==
    ASSUME IInv, SimInv, [Next]_vars PROVE [Contract!Next]_Contract!vars
  <1>1. ASSUME NEW c \in Clients, Begin(c) PROVE Contract!OrphansAreDropped
    BY <1>1, QuietImpl DEF Begin
  <1>2. ASSUME NEW c \in Clients, Continue(c) PROVE Contract!Next
    <2>1. CASE \/ RefuseWrite(c) \/ BuildFence(c) \/ RenewSuperseded(c) \/ RetryFence(c)
               \/ GiveUpFence(c) \/ PushFenceFails(c)
      BY <2>1, QuietImpl DEF Contract!Next
    <2>2. CASE BuildWrite(c)
      BY <2>2, BuildWriteImpl DEF Contract!Next
    <2>3. CASE PushWrite(c)
      BY <2>3, PushWriteImpl DEF Contract!Next
    <2>4. CASE PushWriteRejected(c)
      BY <2>4, PushWriteRejectedImpl DEF Contract!Next
    <2>5. CASE PushWriteFails(c)
      BY <2>5, PushWriteFailsImpl DEF Contract!Next
    <2>6. CASE PushLock(c)
      BY <2>6, PushLockImpl DEF Contract!Next
    <2>7. CASE PushRenew(c)
      BY <2>7, PushRenewImpl DEF Contract!Next
    <2> QED
      BY <1>2, <2>1, <2>2, <2>3, <2>4, <2>5, <2>6, <2>7 DEF Continue
  <1>3. ASSUME Tick \/ UNCHANGED vars PROVE Contract!OrphansAreDropped
    <2>1. UNCHANGED <<leases, tip, pc, call, late>>
      BY <1>3 DEF Tick, vars
    <2>2. SameValues /\ SameFences /\ SameLeases /\ SameOps /\ Orphans' \subseteq Orphans
      BY <2>1, OthersOps DEF SameValues, SameFences, SameLeases, SameOps, Orphans, Orphan, leases
    <2> QED
      BY <2>2, Dropped
  <1>4. CASE LateLands
    BY <1>4, LateLandsImpl DEF Contract!Next
  <1>5. ASSUME NEW i \in Instances, Crash(i) PROVE Contract!Next
    BY <1>5, CrashImpl DEF Contract!Next
  <1> QED
    BY <1>1, <1>2, <1>3, <1>4, <1>5 DEF Next, Contract!Next

LEMMA InitImpl == ASSUME Init PROVE Contract!Init
  <1>1. /\ tip = EmptyTip /\ late = {}
        /\ \A c \in Clients : pc[c] = "idle" /\ lease[c] = NoLease
    BY DEF Init, LeasesInit
  <1>2. tip.blob = [k \in Keys |-> Absent] /\ \A k \in Keys : tip.fence[k].owner = 0
    BY <1>1 DEF EmptyTip, NoFence
  <1>3. \A c \in Clients : OpOf(c) = [stage |-> "idle"]
    BY <1>1 DEF OpOf, Writing
  <1>4. \A c \in Clients : lease[c].key = None /\ lease[c].fence = 0
    BY <1>1 DEF NoLease
  <1>5. Orphans = {}
    BY <1>1 DEF Orphans
  <1> QED
    BY <1>2, <1>3, <1>4, <1>5 DEF Contract!Init, Contract!Idle, Contract!NoLease, Orphans

\* GitBackend implements the store contract, for any processes, keys, bodies and
\* ttls and any pushes that fail or land late: a write() lands at once, on the value
\* and under the fence it names, or never, or, after its caller has given up,
\* late, on that value and under that fence still.
THEOREM RefinesContract == Spec => ImplementsContract
  <1>1. Init => IInv /\ SimInv /\ Contract!Init
    BY InitIInv, InitSim, InitImpl
  <1>2. IInv /\ SimInv /\ [Next]_vars => IInv' /\ SimInv' /\ [Contract!Next]_Contract!vars
    BY NextIInv, StutterIInv, NextSim, NextImpl
  <1> QED
    BY <1>1, <1>2, PTL DEF Spec, ImplementsContract, Contract!Spec

=============================================================================
