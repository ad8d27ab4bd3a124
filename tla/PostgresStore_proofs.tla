------------------------- MODULE PostgresStore_proofs -------------------------
(***************************************************************************)
(* Proofs about PostgresStore, for any processes, keys and bodies, with    *)
(* timeouts, dropped connections and crashes as they like.  A row has one  *)
(* holder, so what a transaction read from a row it has locked is still    *)
(* there when it commits, or when the server commits it after its client   *)
(* is gone.  The last part shows that every step is a step of the store    *)
(* contract, or none.                                                      *)
(***************************************************************************)
EXTENDS PostgresStoreRefinement, TLAPS

-----------------------------------------------------------------------------
(***************************************************************************)
(* The registries of leases: what lock(), renew(), unlock() and the death  *)
(* of a process do to their types, and what the fence record promises.     *)
(***************************************************************************)
\* A client's instance has a registry.
LEMMA CallerType == ASSUME NEW c \in Clients PROVE Caller(c) \in Instances
  BY ShapeAssumption DEF Caller

LEMMA MutexType ==
    ASSUME LeasesOK, NEW c \in Clients, TakeMutex(c) \/ ReleaseMutex(c)
    PROVE  mutex' \in [Instances -> Clients \cup {None}]
  BY DEF LeasesOK, TakeMutex, ReleaseMutex

LEMMA EntryType ==
    ASSUME LeasesOK, NEW c \in Clients, NEW k \in Keys, NEW token \in Nat, NEW expiry \in Nat,
           SetEntry(c, k, token, expiry)
    PROVE  registry' \in [Instances -> [Keys -> Entry]]
  <1>1. [token |-> token, expiry |-> expiry] \in Entry
    BY DEF Entry
  <1> DEFINE e == [token |-> token, expiry |-> expiry]
  <1>2. registry' = [registry EXCEPT ![Caller(c)][k] = e]
    BY DEF SetEntry
  <1> HIDE DEF e
  <1>3. [registry[Caller(c)] EXCEPT ![k] = e] \in [Keys -> Entry]
    BY <1>1, CallerType DEF LeasesOK, e
  <1> QED
    BY <1>2, <1>3, CallerType DEF LeasesOK

\* The grant of a lease, its release, and the death of a process.
LEMMA GrantedType ==
    ASSUME LeasesOK, NEW c \in Clients, NEW k \in Keys, NEW token \in Nat, NEW expiry \in Nat,
           NEW f \in Nat, Granted(c, k, token, expiry, f), now' = now
    PROVE  LeasesOK'
  <1>1. registry' \in [Instances -> [Keys -> Entry]]
    BY EntryType DEF Granted
  <1>2. mutex' \in [Instances -> Clients \cup {None}]
    BY MutexType DEF Granted
  <1>3. lease' \in [Clients -> Lease]
    BY DEF Granted, LeasesOK, Lease
  <1> QED
    BY <1>1, <1>2, <1>3 DEF Granted, LeasesOK

LEMMA ReleasedType == ASSUME LeasesOK, NEW c \in Clients, Released(c) PROVE LeasesOK'
  <1>1. lease[c].key \in Keys
    BY DEF Released, OwnsEntry
  <1>2. registry' \in [Instances -> [Keys -> Entry]]
    BY <1>1, EntryType DEF Released
  <1> QED
    BY <1>2 DEF Released, LeasesOK

LEMMA ForgottenType == ASSUME LeasesOK, NEW i \in Instances, Forgotten(i) PROVE LeasesOK'
  <1>1. NoEntry \in Entry /\ NoLease \in Lease
    BY DEF NoEntry, Entry, NoLease, Lease
  <1> QED
    BY <1>1 DEF Forgotten, LeasesOK

\* Nothing is held at first.
LEMMA InitType == LeasesInit => LeasesOK
  <1>1. NoEntry \in Entry /\ NoLease \in Lease
    BY DEF NoEntry, Entry, NoLease, Lease
  <1> QED
    BY <1>1 DEF LeasesInit, LeasesOK

\* lock() allocates a fence above the owner's and above the accepted one;
\* renew() changes neither.
LEMMA AdvancedRises ==
    ASSUME NEW f \in Fence, NEW token \in Nat, NEW expiry \in Nat
    PROVE  /\ Advanced(f, token, expiry) \in Fence
           /\ Advanced(f, token, expiry).owner = NextFence(f)
           /\ Advanced(f, token, expiry).owner > f.owner
           /\ Advanced(f, token, expiry).accepted = f.accepted
  <1>1. /\ f.owner \in Nat /\ f.accepted \in Nat
        /\ NextFence(f) \in Nat /\ NextFence(f) > f.owner
    BY DEF Fence, NextFence
  <1> DEFINE g == [f EXCEPT !.token = token]
             h == [g EXCEPT !.expiry = expiry]
  <1>2. g \in Fence /\ g.owner = f.owner /\ g.accepted = f.accepted
    BY DEF Fence
  <1> HIDE DEF g
  <1>3. h \in Fence /\ h.owner = f.owner /\ h.accepted = f.accepted
    BY <1>2 DEF Fence
  <1>4. Advanced(f, token, expiry) = [h EXCEPT !.owner = NextFence(f)]
    BY DEF Advanced, g
  <1> HIDE DEF h
  <1> QED
    BY <1>1, <1>3, <1>4 DEF Fence

LEMMA RenewedKeeps ==
    ASSUME NEW f \in Fence, NEW expiry \in Nat
    PROVE  /\ Renewed(f, expiry) \in Fence
           /\ Renewed(f, expiry).owner = f.owner
           /\ Renewed(f, expiry).accepted = f.accepted
  BY DEF Renewed, Fence

\* The fence a write is accepted under is the owner's, at or above the floor.
LEMMA AcceptedRises ==
    ASSUME NEW f \in Fence, NEW l \in Lease, FenceOk(l, f)
    PROVE  /\ [f EXCEPT !.accepted = l.fence] \in Fence
           /\ [f EXCEPT !.accepted = l.fence].owner = f.owner
           /\ [f EXCEPT !.accepted = l.fence].accepted = f.owner
           /\ f.owner >= f.accepted
  BY DEF FenceOk, Fence, Lease

-----------------------------------------------------------------------------
(***************************************************************************)
(* The invariant.                                                          *)
(***************************************************************************)
\* A client at place p of call x.
CallOK(p, x) ==
    /\ x \in Call
    /\ p # "idle" => x.key \in Keys
    /\ p # "idle" /\ x.kind \in Writes => x.body \in Bodies
    /\ p # "idle" /\ x.kind = "update" => x.expected \in Bodies
    /\ p = "commit" => /\ x.kind \in Writes \cup Fences
                       /\ x.change.body = IF x.kind \in Writes THEN x.body ELSE None

\* A client has rows locked only in its transaction, and its rows only.
HoldsOK(c, p, x) ==
    \A k \in Keys :
        /\ storeLock[k] = c => p \in {"fence_row", "commit"} /\ x.key = k /\ x.kind \in Writes
        /\ fenceLock[k] = c <=> p = "commit" /\ x.key = k

\* A change g of a call of some kind, where the fence row is f: a write leaves
\* the owner's fence and raises the floor, lock() and renew() leave the floor.
ChangeOK(g, kind, f) ==
    /\ f.accepted <= g.fence.accepted /\ g.fence.accepted <= g.fence.owner
    /\ g.fence.owner = IF kind = "lock" THEN f.owner + 1 ELSE f.owner
    /\ kind \in Fences => g.fence.accepted = f.accepted

\* What client c read from the rows it has locked is what they hold, and what
\* the settle loop has read of a fence row is not ahead of it.
TxnOK(c, p, x) ==
    /\ p \in {"fence_row", "commit"} /\ x.kind = "create"
       => storeLock[x.key] = c /\ value[x.key] = Absent
    /\ p \in {"fence_row", "commit"} /\ x.kind = "update" /\ x.hash # Absent
       => storeLock[x.key] = c /\ value[x.key] = x.hash
    /\ p # "idle" /\ x.kind = "update" => lease[c].key = x.key
    /\ p = "commit" /\ x.kind = "update" =>
        /\ x.hash = x.expected /\ GenerationOk(x.body, x.hash)
        /\ lease[c].fence = fence[x.key].owner
    /\ p = "commit" => ChangeOK(x.change, x.kind, fence[x.key])
    /\ p = "settle_2" => x.row.accepted <= fence[x.key].accepted
    /\ p = "settle_3" => x.row.accepted <= x.hashAt

ClientOK(c, p, x) == CallOK(p, x) /\ HoldsOK(c, p, x) /\ TxnOK(c, p, x)

\* No floor without a value, or above the owner; and what a lost session may
\* commit is a change of the rows as they are.
KeyOK(k) ==
    /\ fence[k].accepted <= fence[k].owner
    /\ value[k] = Absent => fence[k].accepted = 0
    /\ storeLock[k] = Lost => fenceLock[k] = Lost
    /\ fenceLock[k] # Lost => lost[k] = NoChange
    /\ fenceLock[k] = Lost =>
        /\ fence[k].accepted <= lost[k].fence.accepted
        /\ lost[k].fence.accepted <= lost[k].fence.owner
        /\ IF lost[k].body = None
           THEN /\ lost[k].fence.accepted = fence[k].accepted
                /\ lost[k].fence.owner \in {fence[k].owner, fence[k].owner + 1}
           ELSE /\ storeLock[k] = Lost
                /\ lost[k].fence.owner = fence[k].owner
                /\ GenerationOk(lost[k].body, value[k])

RowTypes ==
    /\ value \in [Keys -> Bodies \cup {Absent}]
    /\ fence \in [Keys -> Fence]
    /\ storeLock \in [Keys -> Clients \cup {None, Lost}]
    /\ fenceLock \in [Keys -> Clients \cup {None, Lost}]
    /\ lost \in [Keys -> Change]
    /\ failures \in Nat

IInv ==
    /\ LeasesOK /\ RowTypes
    /\ pc \in [Clients -> Pcs] /\ call \in [Clients -> Call]
    /\ \A c \in Clients : ClientOK(c, pc[c], call[c])
    /\ \A k \in Keys : KeyOK(k)

\* The model values are distinct.
LEMMA Sentinels ==
    /\ None \notin Clients /\ None \notin Keys /\ None \notin Bodies
    /\ Absent \notin Bodies /\ Absent # None
    /\ Lost \notin Clients /\ Lost # None
  BY SentinelAssumption, PostgresAssumption

\* A client outside a call.
LEMMA EmptyTypes ==
    /\ NoFence \in Fence /\ NoChange \in Change /\ NoCall \in Call
    /\ CallOK("idle", NoCall) /\ NoChange.body = None
  <1>1. NoFence \in Fence
    BY DEF NoFence, Fence
  <1>2. NoChange \in Change /\ NoChange.body = None
    BY <1>1 DEF NoChange, Change
  <1>3. 0 \in 0..MaxPolls
    BY PostgresAssumption
  <1>4. NoCall \in Call
    BY <1>1, <1>2, <1>3 DEF NoCall, Call
  <1> QED
    BY <1>1, <1>2, <1>4 DEF CallOK

LEMMA InitIInv == Init => IInv
  <1> SUFFICES ASSUME Init PROVE IInv
    OBVIOUS
  <1>1. LeasesOK
    BY InitType DEF Init
  <1>2. RowTypes
    BY EmptyTypes DEF Init, RowTypes
  <1>3. /\ pc \in [Clients -> Pcs] /\ call \in [Clients -> Call]
        /\ \A c \in Clients : pc[c] = "idle" /\ call[c] = NoCall
    BY EmptyTypes DEF Init, Pcs
  <1>4. ASSUME NEW c \in Clients PROVE ClientOK(c, pc[c], call[c])
    <2>1. HoldsOK(c, "idle", NoCall)
      BY Sentinels DEF Init, HoldsOK
    <2>2. TxnOK(c, "idle", NoCall)
      BY DEF TxnOK
    <2> QED
      BY <1>3, <2>1, <2>2, EmptyTypes DEF ClientOK
  <1>5. ASSUME NEW k \in Keys PROVE KeyOK(k)
    <2>1. fence[k] = NoFence /\ storeLock[k] = None /\ fenceLock[k] = None /\ lost[k] = NoChange
      BY DEF Init
    <2>2. NoFence.accepted = 0 /\ NoFence.owner = 0
      BY DEF NoFence
    <2> QED
      BY <2>1, <2>2, Sentinels DEF KeyOK
  <1> QED
    BY <1>1, <1>2, <1>3, <1>4, <1>5 DEF IInv

-----------------------------------------------------------------------------
(***************************************************************************)
(* What the steps have in common.                                          *)
(***************************************************************************)
\* What a step of others leaves of a client: it keeps its rows, nobody changes
\* the rows it has locked, and floors do not go down.
LEMMA OtherKept ==
    ASSUME IInv, NEW d \in Clients,
           pc'[d] = pc[d], call'[d] = call[d], lease'[d] = lease[d],
           \A k \in Keys : /\ storeLock'[k] = d <=> storeLock[k] = d
                           /\ fenceLock'[k] = d <=> fenceLock[k] = d
                           /\ storeLock[k] = d => value'[k] = value[k]
                           /\ fenceLock[k] = d => fence'[k] = fence[k]
                           /\ fence'[k].accepted >= fence[k].accepted
                           /\ fence'[k].accepted \in Nat
    PROVE  ClientOK(d, pc[d], call[d])'
  <1>1. ClientOK(d, pc[d], call[d])
    BY DEF IInv
  <1>2. CallOK(pc[d], call[d])'
    BY <1>1 DEF ClientOK, CallOK
  <1>3. HoldsOK(d, pc[d], call[d])'
    BY <1>1 DEF ClientOK, HoldsOK
  <1>4. pc[d] # "idle" => call[d].key \in Keys
    BY <1>1 DEF ClientOK, CallOK
  <1>5. pc[d] = "commit" => fenceLock[call[d].key] = d
    BY <1>1, <1>4 DEF ClientOK, HoldsOK
  <1>6. pc[d] = "settle_2" => call[d].row.accepted <= fence'[call[d].key].accepted
    <2>1. pc[d] = "settle_2" => /\ call[d].row.accepted <= fence[call[d].key].accepted
                                /\ call[d].row.accepted \in Nat
                                /\ fence[call[d].key].accepted \in Nat
      BY <1>1, <1>4 DEF ClientOK, TxnOK, CallOK, Call, Fence, IInv, RowTypes
    <2> QED
      BY <1>4, <2>1
  <1>7. TxnOK(d, pc[d], call[d])'
    <2>1. TxnOK(d, pc[d], call[d])
      BY <1>1 DEF ClientOK
    <2>2. pc[d] \in {"fence_row", "commit"} => call[d].key \in Keys
      BY <1>4
    <2> QED
      BY <2>1, <2>2, <1>5, <1>6 DEF TxnOK
  <1> QED
    BY <1>2, <1>3, <1>7 DEF ClientOK

\* A row changes hands between nobody and one client.
Hands(s, t, c) == \A k \in Keys : t[k] = s[k] \/ (s[k] \in {None, c} /\ t[k] \in {None, c})

\* Client c moves on, and may take free rows or free its own.
LEMMA OwnStep ==
    ASSUME IInv, NEW c \in Clients, NEW p \in Pcs, NEW x,
           pc' = [pc EXCEPT ![c] = p], call' = [call EXCEPT ![c] = x],
           LeasesOK', \A d \in Clients \ {c} : lease'[d] = lease[d],
           UNCHANGED <<value, fence, lost>>, failures' \in Nat,
           Hands(storeLock, storeLock', c), Hands(fenceLock, fenceLock', c),
           storeLock' \in [Keys -> Clients \cup {None, Lost}],
           fenceLock' \in [Keys -> Clients \cup {None, Lost}],
           ClientOK(c, p, x)'
    PROVE  IInv'
  <1>1. x \in Call
    BY DEF ClientOK, CallOK
  <1>2. pc' \in [Clients -> Pcs] /\ call' \in [Clients -> Call]
    BY <1>1 DEF IInv
  <1>3. RowTypes'
    BY DEF IInv, RowTypes
  <1>4. \A k \in Keys : fence[k].accepted \in Nat
    BY DEF IInv, RowTypes, Fence
  <1>5. ASSUME NEW d \in Clients PROVE ClientOK(d, pc[d], call[d])'
    <2>1. CASE d = c
      <3>1. pc'[c] = p /\ call'[c] = x
        BY DEF IInv
      <3> QED
        BY <2>1, <3>1 DEF ClientOK, CallOK, HoldsOK, TxnOK
    <2>2. CASE d # c
      <3>1. pc'[d] = pc[d] /\ call'[d] = call[d] /\ lease'[d] = lease[d]
        BY <2>2 DEF IInv
      <3>2. \A k \in Keys : /\ storeLock'[k] = d <=> storeLock[k] = d
                            /\ fenceLock'[k] = d <=> fenceLock[k] = d
        BY <2>2, Sentinels DEF Hands
      <3>3. \A k \in Keys : value'[k] = value[k] /\ fence'[k] = fence[k]
        OBVIOUS
      <3>4. \A k \in Keys : fence'[k].accepted >= fence[k].accepted /\ fence'[k].accepted \in Nat
        BY <1>4
      <3> QED
        BY <3>1, <3>2, <3>3, <3>4, OtherKept
    <2> QED
      BY <2>1, <2>2
  <1>6. ASSUME NEW k \in Keys PROVE KeyOK(k)'
    <2>1. KeyOK(k)
      BY DEF IInv
    <2>2. (storeLock'[k] = Lost <=> storeLock[k] = Lost) /\ (fenceLock'[k] = Lost <=> fenceLock[k] = Lost)
      BY Sentinels DEF Hands
    <2> QED
      BY <2>1, <2>2 DEF KeyOK
  <1> QED
    BY <1>2, <1>3, <1>5, <1>6 DEF IInv

\* The rows of c are freed: nothing is left in its hands.
LEMMA Freed ==
    ASSUME IInv, NEW c \in Clients, HandOver(c, None)
    PROVE  /\ Hands(storeLock, storeLock', c) /\ Hands(fenceLock, fenceLock', c)
           /\ storeLock' \in [Keys -> Clients \cup {None, Lost}]
           /\ fenceLock' \in [Keys -> Clients \cup {None, Lost}]
           /\ \A k \in Keys : storeLock'[k] # c /\ fenceLock'[k] # c
  BY Sentinels DEF HandOver, Hands, IInv, RowTypes

\* The rows stay as they are.
LEMMA LocksStay ==
    ASSUME IInv, NEW c \in Clients, UNCHANGED rowLocks
    PROVE  /\ Hands(storeLock, storeLock', c) /\ Hands(fenceLock, fenceLock', c)
           /\ storeLock' \in [Keys -> Clients \cup {None, Lost}]
           /\ fenceLock' \in [Keys -> Clients \cup {None, Lost}]
           /\ storeLock' = storeLock /\ fenceLock' = fenceLock
  BY DEF rowLocks, Hands, IInv, RowTypes

\* What a client has locked where it is.
LEMMA Held ==
    ASSUME IInv, NEW c \in Clients
    PROVE  /\ CallOK(pc[c], call[c]) /\ HoldsOK(c, pc[c], call[c]) /\ TxnOK(c, pc[c], call[c])
           /\ call[c] \in Call /\ (pc[c] # "idle" => call[c].key \in Keys)
           /\ pc[c] \notin {"fence_row", "commit"} => \A k \in Keys : storeLock[k] # c
           /\ pc[c] # "commit" => \A k \in Keys : fenceLock[k] # c
  BY DEF IInv, ClientOK, CallOK, HoldsOK

\* A client that holds nothing where it goes next.
LEMMA HoldsNothing ==
    ASSUME NEW c, NEW p, p # "commit", NEW x,
           \A k \in Keys : storeLock'[k] # c /\ fenceLock'[k] # c
    PROVE  HoldsOK(c, p, x)'
  BY DEF HoldsOK

LEMMA LeasesUnmoved == ASSUME IInv, UNCHANGED <<now, leases>> PROVE LeasesOK' /\ lease' = lease
  BY DEF IInv, leases, LeasesOK

\* The call is over, and nothing is held.
LEMMA ReturnStep ==
    ASSUME IInv, NEW c \in Clients, Return(c), LeasesOK',
           \A d \in Clients \ {c} : lease'[d] = lease[d],
           UNCHANGED <<rows, lost>>, failures' \in Nat,
           \/ HandOver(c, None)
           \/ UNCHANGED rowLocks /\ \A k \in Keys : storeLock[k] # c /\ fenceLock[k] # c
    PROVE  IInv'
  <1>1. /\ Hands(storeLock, storeLock', c) /\ Hands(fenceLock, fenceLock', c)
        /\ storeLock' \in [Keys -> Clients \cup {None, Lost}]
        /\ fenceLock' \in [Keys -> Clients \cup {None, Lost}]
        /\ \A k \in Keys : storeLock'[k] # c /\ fenceLock'[k] # c
    BY Freed, LocksStay
  <1>2. HoldsOK(c, "idle", NoCall)'
    BY <1>1, HoldsNothing
  <1>3. TxnOK(c, "idle", NoCall)'
    BY DEF TxnOK
  <1>4. CallOK("idle", NoCall)'
    BY EmptyTypes DEF CallOK
  <1>5. ClientOK(c, "idle", NoCall)'
    BY <1>2, <1>3, <1>4 DEF ClientOK
  <1>6. pc' = [pc EXCEPT ![c] = "idle"] /\ call' = [call EXCEPT ![c] = NoCall]
    BY DEF Return, Goto
  <1> QED
    BY <1>1, <1>5, <1>6, OwnStep DEF rows, Pcs


\* A change that waits for its COMMIT, where the rows are.
LEMMA Staged ==
    ASSUME IInv, NEW c \in Clients, NEW k \in Keys, fenceLock[k] = c
    PROVE  /\ pc[c] = "commit" /\ call[c].key = k /\ call[c].change \in Change
           /\ fence[k].accepted <= call[c].change.fence.accepted
           /\ call[c].change.fence.accepted <= call[c].change.fence.owner
           /\ call[c].change.body = None =>
               /\ call[c].change.fence.accepted = fence[k].accepted
               /\ call[c].change.fence.owner \in {fence[k].owner, fence[k].owner + 1}
               /\ storeLock[k] # c
           /\ call[c].change.body # None =>
               /\ call[c].kind \in Writes /\ call[c].change.body = call[c].body
               /\ call[c].body \in Bodies
               /\ storeLock[k] = c
               /\ call[c].change.fence.owner = fence[k].owner
               /\ GenerationOk(call[c].change.body, value[k])
  <1> DEFINE x == call[c]
             g == call[c].change
  <1>1. pc[c] = "commit" /\ x.key = k /\ CallOK("commit", x) /\ TxnOK(c, "commit", x)
        /\ HoldsOK(c, "commit", x) /\ x \in Call
    BY Held DEF HoldsOK
  <1>2. g \in Change /\ x.kind \in Writes \cup Fences
        /\ g.body = IF x.kind \in Writes THEN x.body ELSE None
    BY <1>1 DEF CallOK, Call
  <1>3. ChangeOK(g, x.kind, fence[k])
    BY <1>1 DEF TxnOK
  <1>4. CASE x.kind \in Fences
    <2>1. x.kind \notin Writes
      BY <1>4 DEF Writes, Fences
    <2>2. storeLock[k] # c
      BY <1>1, <2>1 DEF HoldsOK
    <2> QED
      BY <1>1, <1>2, <1>3, <1>4, <2>1, <2>2 DEF ChangeOK
  <1>5. CASE x.kind \in Writes
    <2>1. x.body \in Bodies /\ x.body # None /\ g.body = x.body
      BY <1>1, <1>2, <1>5, Sentinels DEF CallOK
    <2>2. g.fence.owner = fence[k].owner
      BY <1>3, <1>5 DEF ChangeOK, Writes
    <2>3. storeLock[k] = c /\ GenerationOk(x.body, value[k])
      <3>1. CASE x.kind = "create"
        <4>1. storeLock[k] = c /\ value[k] = Absent
          BY <1>1, <3>1 DEF TxnOK
        <4> QED
          BY <4>1, Sentinels DEF GenerationOk, GenerationOf
      <3>2. CASE x.kind = "update"
        <4>1. x.hash # Absent /\ GenerationOk(x.body, x.hash)
          BY <1>1, <3>2, Sentinels DEF TxnOK, CallOK
        <4> QED
          BY <1>1, <3>2, <4>1 DEF TxnOK
      <3> QED
        BY <1>5, <3>1, <3>2 DEF Writes
    <2> QED
      BY <1>1, <1>2, <1>3, <1>5, <2>1, <2>2, <2>3 DEF ChangeOK
  <1> QED
    BY <1>2, <1>4, <1>5

LEMMA RowNumbers ==
    ASSUME IInv, NEW k \in Keys
    PROVE  /\ fence[k] \in Fence /\ fence[k].accepted \in Nat /\ fence[k].owner \in Nat
           /\ fence[k].token \in Nat /\ fence[k].expiry \in Nat
  BY DEF IInv, RowTypes, Fence

-----------------------------------------------------------------------------
(***************************************************************************)
(* Every action keeps the invariant.                                       *)
(***************************************************************************)
\* A call begins: nothing is locked yet.
LEMMA BeginStep ==
    ASSUME IInv, NEW c \in Clients, pc[c] = "idle", NEW p \in {"store_row", "fence_row"}, NEW x \in Call,
           pc' = [pc EXCEPT ![c] = p], call' = [call EXCEPT ![c] = x],
           x.key \in Keys, x.kind \in Writes => x.body \in Bodies,
           x.kind = "update" => x.expected \in Bodies /\ lease[c].key = x.key,
           p = "fence_row" => x.kind \in Fences,
           LeasesOK', lease' = lease, UNCHANGED <<rows, rowLocks, lost, failures>>
    PROVE  IInv'
  <1>1. /\ Hands(storeLock, storeLock', c) /\ Hands(fenceLock, fenceLock', c)
        /\ storeLock' \in [Keys -> Clients \cup {None, Lost}]
        /\ fenceLock' \in [Keys -> Clients \cup {None, Lost}]
        /\ \A k \in Keys : storeLock'[k] # c /\ fenceLock'[k] # c
    BY LocksStay, Held
  <1>2. HoldsOK(c, p, x)'
    BY <1>1, HoldsNothing
  <1>3. CallOK(p, x)'
    BY DEF CallOK
  <1>4. TxnOK(c, p, x)'
    BY DEF TxnOK, Writes, Fences
  <1>5. ClientOK(c, p, x)'
    BY <1>2, <1>3, <1>4 DEF ClientOK
  <1>6. p \in Pcs /\ failures' \in Nat /\ UNCHANGED <<value, fence, lost>>
    BY DEF Pcs, IInv, RowTypes, rows
  <1> QED
    BY <1>1, <1>5, <1>6, OwnStep

LEMMA BeginCreateStep == ASSUME IInv, NEW c \in Clients, BeginCreate(c) PROVE IInv'
  <1>1. PICK k \in Keys, b \in Bodies :
        /\ Start(c, [NoCall EXCEPT !.kind = "create", !.key = k, !.body = b], "store_row")
        /\ UNCHANGED <<now, leases, rows, rowLocks, lost, failures>>
    BY DEF BeginCreate
  <1>2. PICK x : x = [NoCall EXCEPT !.kind = "create", !.key = k, !.body = b]
    OBVIOUS
  <1>3. x \in Call /\ x.kind = "create" /\ x.key = k /\ x.body = b
    BY <1>2, EmptyTypes DEF Call, NoCall, Writes
  <1>4. LeasesOK' /\ lease' = lease
    BY <1>1, LeasesUnmoved
  <1>5. pc[c] = "idle" /\ pc' = [pc EXCEPT ![c] = "store_row"] /\ call' = [call EXCEPT ![c] = x]
    BY <1>1, <1>2 DEF Start, Goto
  <1> QED
    BY <1>1, <1>3, <1>4, <1>5, BeginStep

LEMMA BeginUpdateStep == ASSUME IInv, NEW c \in Clients, BeginUpdate(c) PROVE IInv'
  <1>1. PICK b \in Bodies, e \in Bodies :
        /\ lease[c].key \in Keys
        /\ Start(c, [NoCall EXCEPT !.kind = "update", !.key = lease[c].key,
                                   !.body = b, !.expected = e], "store_row")
        /\ UNCHANGED <<now, leases, rows, rowLocks, lost, failures>>
    BY DEF BeginUpdate
  <1>2. PICK x : x = [NoCall EXCEPT !.kind = "update", !.key = lease[c].key,
                                    !.body = b, !.expected = e]
    OBVIOUS
  <1>3. x \in Call /\ x.kind = "update" /\ x.key = lease[c].key /\ x.body = b /\ x.expected = e
    BY <1>1, <1>2, EmptyTypes DEF Call, NoCall, Writes
  <1>4. LeasesOK' /\ lease' = lease
    BY <1>1, LeasesUnmoved
  <1>5. pc[c] = "idle" /\ pc' = [pc EXCEPT ![c] = "store_row"] /\ call' = [call EXCEPT ![c] = x]
    BY <1>1, <1>2 DEF Start, Goto
  <1> QED
    BY <1>1, <1>3, <1>4, <1>5, BeginStep

LEMMA BeginLockStep == ASSUME IInv, NEW c \in Clients, BeginLock(c) PROVE IInv'
  <1>1. PICK k \in Keys, ttl \in TTLs :
        /\ TakeMutex(c)
        /\ tokens' = tokens + 1
        /\ Start(c, [NoCall EXCEPT !.kind = "lock", !.key = k,
                                   !.token = tokens + 1, !.expiry = now + ttl], "fence_row")
        /\ UNCHANGED <<now, registry, lease, rows, rowLocks, lost, failures>>
    BY DEF BeginLock
  <1>2. PICK x : x = [NoCall EXCEPT !.kind = "lock", !.key = k,
                                    !.token = tokens + 1, !.expiry = now + ttl]
    OBVIOUS
  <1>3. now + ttl \in Nat /\ tokens + 1 \in Nat
    BY ShapeAssumption DEF IInv, LeasesOK
  <1>4. x \in Call /\ x.kind = "lock" /\ x.key = k
    BY <1>2, <1>3, EmptyTypes DEF Call, NoCall, Fences
  <1>5. LeasesOK' /\ lease' = lease
    BY <1>1, <1>3, MutexType DEF IInv, LeasesOK
  <1>6. pc[c] = "idle" /\ pc' = [pc EXCEPT ![c] = "fence_row"] /\ call' = [call EXCEPT ![c] = x]
    BY <1>1, <1>2 DEF Start, Goto
  <1>7. x.kind \notin Writes /\ x.kind \in Fences /\ x.kind # "update"
    BY <1>4 DEF Writes, Fences
  <1> QED
    BY <1>1, <1>4, <1>5, <1>6, <1>7, BeginStep

LEMMA BeginRenewStep == ASSUME IInv, NEW c \in Clients, BeginRenew(c) PROVE IInv'
  <1>1. PICK ttl \in TTLs :
        /\ OwnsEntry(c)
        /\ TakeMutex(c)
        /\ Start(c, [NoCall EXCEPT !.kind = "renew", !.key = lease[c].key,
                                   !.token = lease[c].token, !.expiry = now + ttl], "fence_row")
        /\ UNCHANGED <<now, tokens, registry, lease, rows, rowLocks, lost, failures>>
    BY DEF BeginRenew
  <1>2. PICK x : x = [NoCall EXCEPT !.kind = "renew", !.key = lease[c].key,
                                    !.token = lease[c].token, !.expiry = now + ttl]
    OBVIOUS
  <1>3. now + ttl \in Nat /\ lease[c].token \in Nat /\ lease[c].key \in Keys
    BY <1>1, ShapeAssumption DEF IInv, LeasesOK, Lease, OwnsEntry
  <1>4. x \in Call /\ x.kind = "renew" /\ x.key = lease[c].key
    BY <1>2, <1>3, EmptyTypes DEF Call, NoCall, Fences
  <1>5. LeasesOK' /\ lease' = lease
    BY <1>1, MutexType DEF IInv, LeasesOK
  <1>6. pc[c] = "idle" /\ pc' = [pc EXCEPT ![c] = "fence_row"] /\ call' = [call EXCEPT ![c] = x]
    BY <1>1, <1>2 DEF Start, Goto
  <1>7. x.kind \notin Writes /\ x.kind \in Fences /\ x.kind # "update"
    BY <1>4 DEF Writes, Fences
  <1> QED
    BY <1>1, <1>3, <1>4, <1>5, <1>6, <1>7, BeginStep

\* An idle client releases its lease.
LEMMA UnlockStep == ASSUME IInv, NEW c \in Clients, Unlock(c) PROVE IInv'
  <1>1. LeasesOK' /\ lease' = lease
    BY ReleasedType DEF Unlock, Released, IInv
  <1>2. UNCHANGED <<value, fence, storeLock, fenceLock, pc, call, lost, failures>>
    BY DEF Unlock, rows, rowLocks
  <1>3. \A d \in Clients : ClientOK(d, pc[d], call[d])'
    BY <1>1, <1>2 DEF IInv, ClientOK, CallOK, HoldsOK, TxnOK
  <1>4. \A k \in Keys : KeyOK(k)'
    BY <1>2 DEF IInv, KeyOK
  <1> QED
    BY <1>1, <1>2, <1>3, <1>4 DEF IInv, RowTypes

\* A step that only moves the place of c, keeping what it has locked.
LEMMA InsertRowStep == ASSUME IInv, NEW c \in Clients, InsertRow(c) PROVE IInv'
  <1>1. PICK x \in Call : x = call[c]
    BY Held
  <1>2. pc[c] = "store_row" /\ x.kind = "create" /\ x.key \in Keys /\ CallOK("store_row", x)
    BY <1>1, Held DEF InsertRow, In
  <1>3. /\ value[x.key] = Absent /\ storeLock[x.key] = None
        /\ storeLock' = [storeLock EXCEPT ![x.key] = c]
        /\ UNCHANGED <<now, leases, rows, fenceLock, call, lost, failures>>
        /\ pc' = [pc EXCEPT ![c] = "fence_row"]
    BY <1>1 DEF InsertRow, Goto
  <1>4. /\ Hands(storeLock, storeLock', c) /\ Hands(fenceLock, fenceLock', c)
        /\ storeLock' \in [Keys -> Clients \cup {None, Lost}]
        /\ fenceLock' \in [Keys -> Clients \cup {None, Lost}]
    BY <1>2, <1>3 DEF Hands, IInv, RowTypes
  <1>5. HoldsOK(c, "fence_row", x)'
    <2>1. \A k \in Keys : storeLock[k] # c /\ fenceLock[k] # c
      BY <1>2, Held
    <2>2. \A k \in Keys : storeLock'[k] = c => k = x.key
      BY <1>2, <1>3, <2>1 DEF IInv, RowTypes
    <2> QED
      BY <1>2, <1>3, <2>1, <2>2 DEF HoldsOK, Writes
  <1>6. CallOK("fence_row", x)'
    BY <1>2 DEF CallOK
  <1>7. TxnOK(c, "fence_row", x)'
    BY <1>2, <1>3 DEF TxnOK, rows, IInv, RowTypes
  <1>8. ClientOK(c, "fence_row", x)'
    BY <1>5, <1>6, <1>7 DEF ClientOK
  <1>9. LeasesOK' /\ lease' = lease
    BY <1>3, LeasesUnmoved
  <1>10. call' = [call EXCEPT ![c] = x]
    BY <1>1, <1>3 DEF IInv
  <1> QED
    BY <1>3, <1>4, <1>8, <1>9, <1>10, OwnStep DEF rows, Pcs, IInv, RowTypes

LEMMA CreateExistsStep == ASSUME IInv, NEW c \in Clients, CreateExists(c) PROVE IInv'
  <1>1. /\ pc[c] = "store_row" /\ Return(c)
        /\ UNCHANGED <<now, leases, rows, rowLocks, lost, failures>>
    BY DEF CreateExists, In
  <1>2. LeasesOK' /\ lease' = lease
    BY <1>1, LeasesUnmoved
  <1> QED
    BY <1>1, <1>2, Held, ReturnStep DEF IInv, RowTypes

LEMMA SelectStoreRowStep == ASSUME IInv, NEW c \in Clients, SelectStoreRow(c) PROVE IInv'
  <1>1. PICK k \in Keys, x \in Call : k = call[c].key /\ x = [call[c] EXCEPT !.hash = value[k]]
    <2>1. call[c] \in Call /\ call[c].key \in Keys
      BY Held DEF SelectStoreRow, In
    <2>2. value[call[c].key] \in Bodies \cup {Absent}
      BY <2>1 DEF IInv, RowTypes
    <2> QED
      BY <2>1, <2>2 DEF Call
  <1>2. /\ pc[c] = "store_row" /\ call[c] \in Call /\ call[c].kind = "update"
        /\ CallOK("store_row", call[c]) /\ TxnOK(c, "store_row", call[c])
    BY Held DEF SelectStoreRow, In
  <1>3. /\ x.kind = "update" /\ x.key = k /\ x.hash = value[k]
        /\ x.body = call[c].body /\ x.expected = call[c].expected
    BY <1>1, <1>2 DEF Call
  <1>4. /\ value[k] # Absent => storeLock[k] = None
        /\ storeLock' = IF value[k] = Absent THEN storeLock ELSE [storeLock EXCEPT ![k] = c]
        /\ UNCHANGED <<now, leases, rows, fenceLock, lost, failures>>
        /\ pc' = [pc EXCEPT ![c] = "fence_row"]
    BY <1>1 DEF SelectStoreRow, Goto
  <1>5. /\ Hands(storeLock, storeLock', c) /\ Hands(fenceLock, fenceLock', c)
        /\ storeLock' \in [Keys -> Clients \cup {None, Lost}]
        /\ fenceLock' \in [Keys -> Clients \cup {None, Lost}]
    BY <1>1, <1>4 DEF Hands, IInv, RowTypes
  <1>6. HoldsOK(c, "fence_row", x)'
    <2>1. \A j \in Keys : storeLock[j] # c /\ fenceLock[j] # c
      BY <1>2, Held
    <2>2. \A j \in Keys : storeLock'[j] = c => j = k
      BY <1>1, <1>4, <2>1 DEF IInv, RowTypes
    <2> QED
      BY <1>3, <1>4, <2>1, <2>2 DEF HoldsOK, Writes
  <1>7. CallOK("fence_row", x)'
    BY <1>1, <1>2, <1>3 DEF CallOK, Writes
  <1>8. LeasesOK' /\ lease' = lease
    BY <1>4, LeasesUnmoved
  <1>9. TxnOK(c, "fence_row", x)'
    <2>1. x.hash # Absent => storeLock'[k] = c /\ value'[k] = x.hash
      BY <1>1, <1>3, <1>4 DEF rows, IInv, RowTypes
    <2>2. lease'[c].key = k
      BY <1>1, <1>2, <1>8 DEF TxnOK
    <2> QED
      BY <1>3, <2>1, <2>2 DEF TxnOK
  <1>10. ClientOK(c, "fence_row", x)'
    BY <1>6, <1>7, <1>9 DEF ClientOK
  <1>11. call' = [call EXCEPT ![c] = x]
    BY <1>1, <1>2 DEF SelectStoreRow, IInv
  <1> QED
    BY <1>4, <1>5, <1>8, <1>10, <1>11, OwnStep DEF rows, Pcs, IInv, RowTypes

\* The last statement: the fence row is locked, and the change is one of it.
LEMMA StageStep ==
    ASSUME IInv, NEW c \in Clients, pc[c] = "fence_row", call[c].kind \in Writes \cup Fences,
           TakeFenceRow(c), NEW g \in Change,
           call' = [call EXCEPT ![c].change = g], pc' = [pc EXCEPT ![c] = "commit"],
           UNCHANGED <<now, leases, rows, storeLock, lost, failures>>,
           g.body = IF call[c].kind \in Writes THEN call[c].body ELSE None,
           ChangeOK(g, call[c].kind, FenceRow(c)),
           call[c].kind = "update" => /\ call[c].hash = call[c].expected
                                      /\ GenerationOk(call[c].body, call[c].hash)
                                      /\ lease[c].fence = FenceRow(c).owner
    PROVE  IInv'
  <1>1. call[c] \in Call /\ call[c].key \in Keys /\ CallOK("fence_row", call[c])
        /\ TxnOK(c, "fence_row", call[c]) /\ HoldsOK(c, "fence_row", call[c])
    BY Held
  <1>2. PICK x \in Call : x = [call[c] EXCEPT !.change = g]
    BY <1>1 DEF Call
  <1>3. /\ x.kind = call[c].kind /\ x.key = call[c].key /\ x.body = call[c].body
        /\ x.expected = call[c].expected /\ x.hash = call[c].hash /\ x.change = g
    BY <1>1, <1>2 DEF Call
  <1>4. /\ fenceLock[x.key] = None /\ fenceLock' = [fenceLock EXCEPT ![x.key] = c]
        /\ x.key \in Keys
    BY <1>1, <1>3 DEF TakeFenceRow
  <1>5. /\ Hands(storeLock, storeLock', c) /\ Hands(fenceLock, fenceLock', c)
        /\ storeLock' \in [Keys -> Clients \cup {None, Lost}]
        /\ fenceLock' \in [Keys -> Clients \cup {None, Lost}]
    BY <1>4 DEF Hands, IInv, RowTypes
  <1>6. HoldsOK(c, "commit", x)'
    <2>1. \A j \in Keys : fenceLock[j] # c
      BY Held
    <2>2. \A j \in Keys : fenceLock'[j] = c <=> x.key = j
      BY <1>4, <2>1 DEF IInv, RowTypes
    <2> QED
      BY <1>1, <1>3, <2>2 DEF HoldsOK
  <1>7. CallOK("commit", x)'
    BY <1>1, <1>3 DEF CallOK
  <1>8. LeasesOK' /\ lease' = lease
    BY LeasesUnmoved
  <1>9. TxnOK(c, "commit", x)'
    <2>1. value' = value /\ fence' = fence
      BY DEF rows
    <2>2. ChangeOK(g, x.kind, fence[x.key])
      BY <1>3 DEF FenceRow
    <2>3. x.kind = "update" => lease[c].fence = fence[x.key].owner
      BY <1>3 DEF FenceRow
    <2> QED
      BY <1>1, <1>3, <1>8, <2>1, <2>2, <2>3 DEF TxnOK, ChangeOK
  <1>10. ClientOK(c, "commit", x)'
    BY <1>6, <1>7, <1>9 DEF ClientOK
  <1>11. call' = [call EXCEPT ![c] = x]
    BY <1>2 DEF IInv
  <1> QED
    BY <1>5, <1>8, <1>10, <1>11, OwnStep DEF rows, Pcs, IInv, RowTypes

LEMMA UpsertFenceStep == ASSUME IInv, NEW c \in Clients, UpsertFence(c) PROVE IInv'
  <1>1. /\ pc[c] = "fence_row" /\ call[c].kind = "create" /\ TakeFenceRow(c)
        /\ UNCHANGED <<now, leases, rows, storeLock, lost, failures>>
    BY DEF UpsertFence, In
  <1>2. PICK k \in Keys : k = call[c].key
    BY <1>1, Held
  <1>3. PICK f : f = [fence[k] EXCEPT !.accepted = 0]
    OBVIOUS
  <1>4. f \in Fence /\ f.owner = fence[k].owner /\ f.accepted = 0
    BY <1>3, RowNumbers DEF Fence
  <1>5. PICK g : g = [body |-> call[c].body, fence |-> f]
    OBVIOUS
  <1>6. call[c].body \in Bodies
    BY <1>1, Held DEF CallOK, Writes
  <1>7. g \in Change /\ g.body = call[c].body /\ g.fence = f
    BY <1>4, <1>5, <1>6 DEF Change
  <1>8. fence[k].accepted = 0
    <2>1. value[k] = Absent
      BY <1>1, <1>2, Held DEF TxnOK
    <2> QED
      BY <2>1 DEF IInv, KeyOK
  <1>9. ChangeOK(g, "create", fence[k])
    BY <1>4, <1>7, <1>8, RowNumbers DEF ChangeOK, Fences
  <1>10. call' = [call EXCEPT ![c].change = g] /\ pc' = [pc EXCEPT ![c] = "commit"]
    BY <1>2, <1>3, <1>5 DEF UpsertFence, Stage, Goto, FenceRow
  <1>11. "create" \in Writes
    BY DEF Writes
  <1> QED
    BY <1>1, <1>2, <1>7, <1>9, <1>10, <1>11, StageStep DEF FenceRow

LEMMA UpdateRowsStep == ASSUME IInv, NEW c \in Clients, UpdateRows(c) PROVE IInv'
  <1>1. /\ pc[c] = "fence_row" /\ call[c].kind = "update" /\ TakeFenceRow(c)
        /\ UpdateAdmitted(c)
        /\ UNCHANGED <<now, leases, rows, storeLock, lost, failures>>
    BY DEF UpdateRows, In
  <1>2. PICK k \in Keys : k = call[c].key
    BY <1>1, Held
  <1>3. /\ call[c].hash = call[c].expected /\ FenceOk(lease[c], fence[k])
        /\ GenerationOk(call[c].body, call[c].hash)
    BY <1>1, <1>2 DEF UpdateAdmitted, FenceRow
  <1>4. PICK f : f = [fence[k] EXCEPT !.accepted = lease[c].fence]
    OBVIOUS
  <1>5. lease[c] \in Lease
    BY DEF IInv, LeasesOK
  <1>6. /\ f \in Fence /\ f.owner = fence[k].owner /\ f.accepted = fence[k].owner
        /\ fence[k].owner >= fence[k].accepted
    BY <1>3, <1>4, <1>5, RowNumbers, AcceptedRises
  <1>7. PICK g : g = [body |-> call[c].body, fence |-> f]
    OBVIOUS
  <1>8. call[c].body \in Bodies
    BY <1>1, Held DEF CallOK, Writes
  <1>9. g \in Change /\ g.body = call[c].body /\ g.fence = f
    BY <1>6, <1>7, <1>8 DEF Change
  <1>10. ChangeOK(g, "update", fence[k])
    BY <1>6, <1>9, RowNumbers DEF ChangeOK, Fences
  <1>11. call' = [call EXCEPT ![c].change = g] /\ pc' = [pc EXCEPT ![c] = "commit"]
    BY <1>2, <1>4, <1>7 DEF UpdateRows, Stage, Goto, FenceRow
  <1>12. "update" \in Writes /\ lease[c].fence = fence[k].owner
    BY <1>3 DEF Writes, FenceOk
  <1> QED
    BY <1>1, <1>2, <1>3, <1>9, <1>10, <1>11, <1>12, StageStep DEF FenceRow

LEMMA AdvanceFenceStep == ASSUME IInv, NEW c \in Clients, AdvanceFence(c) PROVE IInv'
  <1>1. /\ pc[c] = "fence_row" /\ call[c].kind = "lock" /\ TakeFenceRow(c)
        /\ UNCHANGED <<now, leases, rows, storeLock, lost, failures>>
    BY DEF AdvanceFence, In
  <1>2. PICK k \in Keys : k = call[c].key
    BY <1>1, Held
  <1>3. PICK f : f = Advanced(fence[k], call[c].token, call[c].expiry)
    OBVIOUS
  <1>4. call[c].token \in Nat /\ call[c].expiry \in Nat
    BY Held DEF Call
  <1>5. f \in Fence /\ f.accepted = fence[k].accepted
    BY <1>3, <1>4, RowNumbers, AdvancedRises
  <1>6. fence[k].accepted <= fence[k].owner
    BY DEF IInv, KeyOK
  <1>7. f.owner = fence[k].owner + 1
    <2>1. NextFence(fence[k]) = fence[k].owner + 1
      BY <1>6, RowNumbers DEF NextFence
    <2> QED
      BY <1>3, <1>4, <2>1, RowNumbers, AdvancedRises
  <1>8. PICK g : g = [body |-> None, fence |-> f]
    OBVIOUS
  <1>9. g \in Change /\ g.body = None /\ g.fence = f
    BY <1>5, <1>8 DEF Change
  <1>10. ChangeOK(g, "lock", fence[k])
    BY <1>5, <1>6, <1>7, <1>9, RowNumbers DEF ChangeOK
  <1>11. call' = [call EXCEPT ![c].change = g] /\ pc' = [pc EXCEPT ![c] = "commit"]
    BY <1>2, <1>3, <1>8 DEF AdvanceFence, Stage, Goto, FenceRow
  <1>12. "lock" \notin Writes /\ "lock" \in Fences
    BY DEF Writes, Fences
  <1> QED
    BY <1>1, <1>2, <1>9, <1>10, <1>11, <1>12, StageStep DEF FenceRow

LEMMA ExtendFenceStep == ASSUME IInv, NEW c \in Clients, ExtendFence(c) PROVE IInv'
  <1>1. /\ pc[c] = "fence_row" /\ call[c].kind = "renew" /\ TakeFenceRow(c)
        /\ UNCHANGED <<now, leases, rows, storeLock, lost, failures>>
    BY DEF ExtendFence, In
  <1>2. PICK k \in Keys : k = call[c].key
    BY <1>1, Held
  <1>3. PICK f : f = Renewed(fence[k], call[c].expiry)
    OBVIOUS
  <1>4. call[c].expiry \in Nat
    BY Held DEF Call
  <1>5. f \in Fence /\ f.accepted = fence[k].accepted /\ f.owner = fence[k].owner
    BY <1>3, <1>4, RowNumbers, RenewedKeeps
  <1>6. fence[k].accepted <= fence[k].owner
    BY DEF IInv, KeyOK
  <1>7. PICK g : g = [body |-> None, fence |-> f]
    OBVIOUS
  <1>8. g \in Change /\ g.body = None /\ g.fence = f
    BY <1>5, <1>7 DEF Change
  <1>9. ChangeOK(g, "renew", fence[k])
    BY <1>5, <1>6, <1>8, RowNumbers DEF ChangeOK
  <1>10. call' = [call EXCEPT ![c].change = g] /\ pc' = [pc EXCEPT ![c] = "commit"]
    BY <1>2, <1>3, <1>7 DEF ExtendFence, Stage, Goto, FenceRow
  <1>11. "renew" \notin Writes /\ "renew" \in Fences
    BY DEF Writes, Fences
  <1> QED
    BY <1>1, <1>2, <1>8, <1>9, <1>10, <1>11, StageStep DEF FenceRow

\* Refusals: the transaction changes nothing and frees its rows.
LEMMA RefuseUpdateStep == ASSUME IInv, NEW c \in Clients, RefuseUpdate(c) PROVE IInv'
  <1>1. /\ HandOver(c, None) /\ Return(c)
        /\ UNCHANGED <<now, leases, rows, lost, failures>>
    BY DEF RefuseUpdate, FreeRows
  <1>2. LeasesOK' /\ lease' = lease
    BY <1>1, LeasesUnmoved
  <1> QED
    BY <1>1, <1>2, ReturnStep DEF IInv, RowTypes

LEMMA RenewSupersededStep == ASSUME IInv, NEW c \in Clients, RenewSuperseded(c) PROVE IInv'
  <1>1. /\ pc[c] = "fence_row" /\ call[c].kind = "renew" /\ ReleaseMutex(c) /\ Return(c)
        /\ UNCHANGED <<now, tokens, registry, lease, rows, rowLocks, lost, failures>>
    BY DEF RenewSuperseded, In
  <1>2. LeasesOK'
    BY <1>1, MutexType DEF IInv, LeasesOK
  <1>3. \A k \in Keys : storeLock[k] # c /\ fenceLock[k] # c
    <2>1. call[c].kind \notin Writes
      BY <1>1 DEF Writes
    <2> QED
      BY <1>1, <2>1, Held DEF HoldsOK
  <1> QED
    BY <1>1, <1>2, <1>3, ReturnStep DEF IInv, RowTypes

LEMMA FailStep ==
    ASSUME IInv, NEW c \in Clients, FreeRows(c), LeaveMutex(c), Return(c),
           failures' = failures + 1, UNCHANGED <<now, tokens, registry, lease, lost>>
    PROVE  IInv'
  <1>1. HandOver(c, None) /\ UNCHANGED rows
    BY DEF FreeRows
  <1>2. LeasesOK'
    BY MutexType DEF IInv, LeasesOK, LeaveMutex
  <1>3. failures' \in Nat
    BY DEF IInv, RowTypes
  <1> QED
    BY <1>1, <1>2, <1>3, ReturnStep

\* A client outside its transaction moves on with another call record.
LEMMA SettleStep ==
    ASSUME IInv, NEW c \in Clients, NEW p \in {"settle_1", "settle_2", "settle_3"}, NEW x,
           pc[c] # "idle", x \in Call, x.kind = call[c].kind, x.key = call[c].key,
           x.body = call[c].body, x.expected = call[c].expected,
           pc' = [pc EXCEPT ![c] = p], call' = [call EXCEPT ![c] = x],
           \/ HandOver(c, None)
           \/ UNCHANGED rowLocks /\ pc[c] \notin {"fence_row", "commit"},
           UNCHANGED <<now, leases, rows, lost, failures>>,
           p = "settle_2" => x.row.accepted <= fence[x.key].accepted,
           p = "settle_3" => x.row.accepted <= x.hashAt
    PROVE  IInv'
  <1>1. /\ Hands(storeLock, storeLock', c) /\ Hands(fenceLock, fenceLock', c)
        /\ storeLock' \in [Keys -> Clients \cup {None, Lost}]
        /\ fenceLock' \in [Keys -> Clients \cup {None, Lost}]
        /\ \A k \in Keys : storeLock'[k] # c /\ fenceLock'[k] # c
    <2>1. CASE HandOver(c, None)
      BY <2>1, Freed
    <2>2. CASE UNCHANGED rowLocks /\ pc[c] \notin {"fence_row", "commit"}
      <3>1. \A k \in Keys : storeLock[k] # c /\ fenceLock[k] # c
        BY <2>2, Held
      <3> QED
        BY <2>2, <3>1, LocksStay
    <2> QED
      BY <2>1, <2>2
  <1>2. CallOK(pc[c], call[c]) /\ TxnOK(c, pc[c], call[c]) /\ call[c].key \in Keys
    BY Held
  <1>3. LeasesOK' /\ lease' = lease /\ value' = value /\ fence' = fence
    BY LeasesUnmoved DEF rows
  <1>4. CallOK(p, x)'
    BY <1>2 DEF CallOK
  <1>5. TxnOK(c, p, x)'
    BY <1>2, <1>3 DEF TxnOK
  <1>6. ClientOK(c, p, x)'
    BY <1>1, <1>4, <1>5, HoldsNothing DEF ClientOK
  <1>7. p \in Pcs /\ failures' \in Nat
    BY DEF Pcs, IInv, RowTypes
  <1> QED
    BY <1>1, <1>3, <1>6, <1>7, OwnStep

LEMMA LoseFenceStep == ASSUME IInv, NEW c \in Clients, LoseFence(c) PROVE IInv'
  <1>1. /\ pc[c] = "fence_row" /\ HandOver(c, None)
        /\ pc' = [pc EXCEPT ![c] = "settle_1"]
        /\ call' = [call EXCEPT ![c].hash = Absent]
        /\ UNCHANGED <<now, leases, rows, lost, failures>>
    BY DEF LoseFence, In, FreeRows, Goto
  <1>2. call[c] \in Call
    BY Held
  <1>3. PICK x : x = [call[c] EXCEPT !.hash = Absent]
    OBVIOUS
  <1>4. /\ x \in Call /\ x.kind = call[c].kind /\ x.key = call[c].key
        /\ x.body = call[c].body /\ x.expected = call[c].expected
    BY <1>2, <1>3 DEF Call
  <1>5. call' = [call EXCEPT ![c] = x]
    BY <1>1, <1>3 DEF IInv
  <1> QED
    BY <1>1, <1>4, <1>5, SettleStep

LEMMA SettleReadsStep == ASSUME IInv, NEW c \in Clients, SettleReads(c) PROVE IInv'
  <1>1. UNCHANGED <<now, leases, rows, rowLocks, lost, failures>>
    BY DEF SettleReads
  <1>2. call[c] \in Call /\ TxnOK(c, pc[c], call[c])
    BY Held
  <1>3. CASE pc[c] = "settle_1" /\ ReadFence(c) /\ Goto(c, "settle_2")
    <2>1. PICK k \in Keys : k = call[c].key
      BY <1>3, Held
    <2>2. PICK x : x = [call[c] EXCEPT !.row = fence[k]]
      OBVIOUS
    <2>3. /\ x \in Call /\ x.kind = call[c].kind /\ x.key = k /\ x.row = fence[k]
          /\ x.body = call[c].body /\ x.expected = call[c].expected
      BY <1>2, <2>1, <2>2, RowNumbers DEF Call
    <2>4. pc' = [pc EXCEPT ![c] = "settle_2"] /\ call' = [call EXCEPT ![c] = x]
      BY <1>3, <2>1, <2>2 DEF ReadFence, FenceRow, Goto, IInv
    <2>5. x.row.accepted <= fence[x.key].accepted
      BY <2>3, RowNumbers
    <2> QED
      BY <1>1, <1>3, <2>1, <2>3, <2>4, <2>5, SettleStep
  <1>4. CASE pc[c] = "settle_2" /\ ReadHash(c) /\ Goto(c, "settle_3")
    <2>1. PICK k \in Keys : k = call[c].key
      BY <1>4, Held
    <2>2. PICK y : y = [call[c] EXCEPT !.hash = value[k]]
      OBVIOUS
    <2>3. PICK x : x = [y EXCEPT !.hashAt = fence[k].accepted]
      OBVIOUS
    <2>4. value[k] \in Bodies \cup {Absent}
      BY DEF IInv, RowTypes
    <2>5. /\ y \in Call /\ y.kind = call[c].kind /\ y.key = k /\ y.row = call[c].row
          /\ y.body = call[c].body /\ y.expected = call[c].expected
      BY <1>2, <2>1, <2>2, <2>4 DEF Call
    <2>6. /\ x \in Call /\ x.kind = call[c].kind /\ x.key = k /\ x.row = call[c].row
          /\ x.body = call[c].body /\ x.expected = call[c].expected
          /\ x.hashAt = fence[k].accepted
      BY <2>3, <2>5, RowNumbers DEF Call
    <2>7. pc' = [pc EXCEPT ![c] = "settle_3"] /\ call' = [call EXCEPT ![c] = x]
      <3>1. call' = [call EXCEPT ![c] = [call[c] EXCEPT !.hash = value[k], !.hashAt = fence[k].accepted]]
        BY <1>4, <2>1 DEF ReadHash, FenceRow, IInv
      <3>2. x = [call[c] EXCEPT !.hash = value[k], !.hashAt = fence[k].accepted]
        BY <2>2, <2>3
      <3> QED
        BY <1>4, <3>1, <3>2 DEF Goto
    <2>8. x.row.accepted <= x.hashAt
      BY <1>2, <1>4, <2>1, <2>6 DEF TxnOK
    <2> QED
      BY <1>1, <1>4, <2>1, <2>6, <2>7, <2>8, SettleStep
  <1> QED
    BY <1>3, <1>4 DEF SettleReads

LEMMA SettleReturnsStep == ASSUME IInv, NEW c \in Clients, SettleReturns(c) PROVE IInv'
  <1>1. /\ pc[c] = "settle_3" /\ Return(c)
        /\ UNCHANGED <<now, leases, rows, rowLocks, lost, failures>>
    BY DEF SettleReturns
  <1>2. LeasesOK' /\ lease' = lease
    BY <1>1, LeasesUnmoved
  <1> QED
    BY <1>1, <1>2, Held, ReturnStep DEF IInv, RowTypes

LEMMA SettlePollsStep == ASSUME IInv, NEW c \in Clients, SettlePolls(c) PROVE IInv'
  <1>1. /\ pc[c] = "settle_3" /\ call[c].polls < MaxPolls
        /\ call' = [call EXCEPT ![c].polls = @ + 1, ![c].row = NoFence, ![c].hash = Absent,
                                ![c].hashAt = 0]
        /\ pc' = [pc EXCEPT ![c] = "settle_1"]
        /\ UNCHANGED <<now, leases, rows, rowLocks, lost, failures>>
    BY DEF SettlePolls, Goto
  <1>2. call[c] \in Call
    BY Held
  <1>3. PICK n : n = call[c].polls + 1
    OBVIOUS
  <1>4. n \in 0..MaxPolls
    BY <1>1, <1>2, <1>3, PostgresAssumption DEF Call
  <1>5. PICK w : w = [call[c] EXCEPT !.polls = n]
    OBVIOUS
  <1>6. PICK y : y = [w EXCEPT !.row = NoFence]
    OBVIOUS
  <1>7. PICK z : z = [y EXCEPT !.hash = Absent]
    OBVIOUS
  <1>8. PICK x : x = [z EXCEPT !.hashAt = 0]
    OBVIOUS
  <1>9. /\ w \in Call /\ w.kind = call[c].kind /\ w.key = call[c].key
        /\ w.body = call[c].body /\ w.expected = call[c].expected
    BY <1>2, <1>4, <1>5 DEF Call
  <1>10. /\ y \in Call /\ y.kind = call[c].kind /\ y.key = call[c].key
         /\ y.body = call[c].body /\ y.expected = call[c].expected
    BY <1>6, <1>9, EmptyTypes DEF Call
  <1>11. /\ z \in Call /\ z.kind = call[c].kind /\ z.key = call[c].key
         /\ z.body = call[c].body /\ z.expected = call[c].expected
    BY <1>7, <1>10 DEF Call
  <1>12. /\ x \in Call /\ x.kind = call[c].kind /\ x.key = call[c].key
         /\ x.body = call[c].body /\ x.expected = call[c].expected
    BY <1>8, <1>11 DEF Call
  <1>13. call' = [call EXCEPT ![c] = x]
    <2>1. call' = [call EXCEPT ![c] = [call[c] EXCEPT !.polls = n, !.row = NoFence,
                                                      !.hash = Absent, !.hashAt = 0]]
      BY <1>1, <1>3 DEF IInv
    <2>2. x = [call[c] EXCEPT !.polls = n, !.row = NoFence, !.hash = Absent, !.hashAt = 0]
      BY <1>5, <1>6, <1>7, <1>8
    <2> QED
      BY <2>1, <2>2
  <1> QED
    BY <1>1, <1>12, <1>13, SettleStep

-----------------------------------------------------------------------------
\* COMMIT: what the transaction staged is in the rows, which nobody else had.
LEMMA CommitStep ==
    ASSUME IInv, NEW c \in Clients, pc[c] = "commit", Commits(c), LeasesOK',
           \A d \in Clients \ {c} : lease'[d] = lease[d], UNCHANGED <<lost, failures>>
    PROVE  IInv'
  <1>1. PICK k \in Keys, g \in Change : k = call[c].key /\ g = call[c].change
    BY Held DEF Call
  <1>2. fenceLock[k] = c
    BY <1>1, Held DEF HoldsOK
  <1>3. /\ fence[k].accepted <= g.fence.accepted /\ g.fence.accepted <= g.fence.owner
        /\ g.body = None => g.fence.accepted = fence[k].accepted /\ storeLock[k] # c
        /\ g.body # None => storeLock[k] = c
    BY <1>1, <1>2, Staged
  <1>4. /\ value' = [value EXCEPT ![k] = IF g.body = None THEN value[k] ELSE g.body]
        /\ fence' = [fence EXCEPT ![k] = g.fence]
        /\ HandOver(c, None) /\ Return(c)
    BY <1>1 DEF Commits, Apply, IInv, RowTypes
  <1>5. g.fence \in Fence /\ (g.body # None => g.body \in Bodies)
    BY DEF Change
  <1>6. RowTypes'
    BY <1>4, <1>5, Freed DEF IInv, RowTypes
  <1>7. ASSUME NEW d \in Clients PROVE ClientOK(d, pc[d], call[d])'
    <2>1. CASE d = c
      <3>1. pc'[d] = "idle" /\ call'[d] = NoCall
        BY <1>4, <2>1 DEF Return, Goto, IInv
      <3>2. \A j \in Keys : storeLock'[j] # d /\ fenceLock'[j] # d
        BY <1>4, <2>1, Freed
      <3> QED
        BY <3>1, <3>2, EmptyTypes DEF ClientOK, CallOK, HoldsOK, TxnOK
    <2>2. CASE d # c
      <3>1. pc'[d] = pc[d] /\ call'[d] = call[d] /\ lease'[d] = lease[d]
        BY <1>4, <2>2 DEF Return, Goto, IInv
      <3>2. ASSUME NEW j \in Keys
            PROVE  /\ storeLock'[j] = d <=> storeLock[j] = d
                   /\ fenceLock'[j] = d <=> fenceLock[j] = d
                   /\ storeLock[j] = d => value'[j] = value[j]
                   /\ fenceLock[j] = d => fence'[j] = fence[j]
                   /\ fence'[j].accepted >= fence[j].accepted
                   /\ fence'[j].accepted \in Nat
        <4>1. /\ storeLock'[j] = d <=> storeLock[j] = d
              /\ fenceLock'[j] = d <=> fenceLock[j] = d
          BY <1>4, <2>2, Sentinels DEF HandOver
        <4>2. CASE j = k
          <5>1. fence'[j] = g.fence /\ g.fence.accepted \in Nat
            BY <1>4, <1>5, <4>2 DEF IInv, RowTypes, Fence
          <5>2. storeLock[j] = d => value'[j] = value[j]
            BY <1>3, <1>4, <2>2, <4>2 DEF IInv, RowTypes
          <5>3. fence'[j].accepted >= fence[j].accepted
            BY <1>3, <4>2, <5>1, RowNumbers
          <5> QED
            BY <1>2, <2>2, <4>1, <4>2, <5>1, <5>2, <5>3
        <4>3. CASE j # k
          <5>1. fence'[j] = fence[j] /\ value'[j] = value[j]
            BY <1>4, <4>3 DEF IInv, RowTypes
          <5> QED
            BY <4>1, <5>1, RowNumbers
        <4> QED
          BY <4>2, <4>3
      <3> QED
        BY <3>1, <3>2, OtherKept
    <2> QED
      BY <2>1, <2>2
  <1>8. ASSUME NEW j \in Keys PROVE KeyOK(j)'
    <2>1. KeyOK(j) /\ KeyOK(k)
      BY DEF IInv
    <2>2. /\ storeLock'[j] = Lost <=> storeLock[j] = Lost
          /\ fenceLock'[j] = Lost <=> fenceLock[j] = Lost
      BY <1>4, Sentinels DEF HandOver
    <2>3. CASE j = k
      <3>1. fence'[j] = g.fence /\ value'[j] = IF g.body = None THEN value[k] ELSE g.body
        BY <1>4, <2>3 DEF IInv, RowTypes
      <3>2. value'[j] = Absent => g.fence.accepted = 0
        BY <1>3, <1>5, <2>1, <3>1, Sentinels DEF KeyOK
      <3>3. fenceLock[j] # Lost
        BY <1>2, <2>3, Sentinels
      <3> QED
        BY <1>3, <2>1, <2>2, <3>1, <3>2, <3>3 DEF KeyOK
    <2>4. CASE j # k
      <3>1. fence'[j] = fence[j] /\ value'[j] = value[j]
        BY <1>4, <2>4 DEF IInv, RowTypes
      <3> QED
        BY <2>1, <2>2, <3>1 DEF KeyOK
    <2> QED
      BY <2>3, <2>4
  <1>9. pc' \in [Clients -> Pcs] /\ call' \in [Clients -> Call]
    BY <1>4, EmptyTypes DEF Return, Goto, Pcs, IInv
  <1> QED
    BY <1>6, <1>7, <1>8, <1>9 DEF IInv

LEMMA CommitWriteStep == ASSUME IInv, NEW c \in Clients, CommitWrite(c) PROVE IInv'
  <1>1. LeasesOK' /\ lease' = lease
    BY LeasesUnmoved DEF CommitWrite
  <1> QED
    BY <1>1, CommitStep DEF CommitWrite, In

LEMMA CommitLockStep == ASSUME IInv, NEW c \in Clients, CommitLock(c) PROVE IInv'
  <1>1. PICK k \in Keys, token \in Nat, expiry \in Nat, f \in Nat :
        Granted(c, k, token, expiry, f)
    <2>1. /\ call[c].key \in Keys /\ call[c].token \in Nat /\ call[c].expiry \in Nat
          /\ call[c].change.fence.owner \in Nat
      BY Held DEF CommitLock, In, Call, Change, Fence
    <2> QED
      BY <2>1 DEF CommitLock
  <1>2. LeasesOK'
    BY <1>1, GrantedType DEF CommitLock, IInv
  <1>3. \A d \in Clients \ {c} : lease'[d] = lease[d]
    BY <1>1 DEF Granted, IInv, LeasesOK
  <1> QED
    BY <1>2, <1>3, CommitStep DEF CommitLock, In

LEMMA CommitRenewStep == ASSUME IInv, NEW c \in Clients, CommitRenew(c) PROVE IInv'
  <1>1. call[c].key \in Keys /\ call[c].token \in Nat /\ call[c].expiry \in Nat
    BY Held DEF CommitRenew, In, Call
  <1>2. registry' \in [Instances -> [Keys -> Entry]]
    BY <1>1, EntryType DEF CommitRenew, IInv
  <1>3. LeasesOK'
    BY <1>2, MutexType DEF CommitRenew, IInv, LeasesOK
  <1> QED
    BY <1>3, CommitStep DEF CommitRenew, In

-----------------------------------------------------------------------------
(***************************************************************************)
(* What fails: connections, processes, and the sessions they leave.        *)
(***************************************************************************)
LEMMA LockTimeoutStep == ASSUME IInv, NEW c \in Clients, LockTimeout(c) PROVE IInv'
  BY FailStep DEF LockTimeout

LEMMA DropConnectionStep == ASSUME IInv, NEW c \in Clients, DropConnection(c) PROVE IInv'
  BY FailStep DEF DropConnection

\* The change of a session whose client is gone still fits the rows.
LEMMA LeftChange ==
    ASSUME IInv, NEW c \in Clients, NEW k \in Keys, fenceLock[k] = c,
           value'[k] = value[k], fence'[k] = fence[k],
           fenceLock'[k] = Lost, lost'[k] = call[c].change,
           storeLock[k] = c <=> storeLock'[k] = Lost
    PROVE  KeyOK(k)'
  <1>1. KeyOK(k)
    BY DEF IInv
  <1>2. PICK g \in Change : g = call[c].change
    BY Staged
  <1> QED
    BY <1>1, <1>2, Staged DEF KeyOK, GenerationOk, GenerationOf

LEMMA DropInCommitStep == ASSUME IInv, NEW c \in Clients, DropInCommit(c) PROVE IInv'
  <1>1. PICK k \in Keys, g \in Change : k = call[c].key /\ g = call[c].change
    BY Held DEF DropInCommit, Call
  <1>2. /\ pc[c] = "commit" /\ HandOver(c, Lost) /\ LeaveMutex(c) /\ Return(c)
        /\ lost' = [lost EXCEPT ![k] = g] /\ failures' = failures + 1
        /\ UNCHANGED <<now, tokens, registry, lease, value, fence>>
    BY <1>1 DEF DropInCommit, rows
  <1>3. fenceLock[k] = c
    BY <1>1, <1>2, Held DEF HoldsOK
  <1>4. LeasesOK'
    BY <1>2, MutexType DEF IInv, LeasesOK, LeaveMutex
  <1>5. RowTypes'
    BY <1>2 DEF HandOver, IInv, RowTypes
  <1>6. pc' = [pc EXCEPT ![c] = "idle"] /\ call' = [call EXCEPT ![c] = NoCall]
    BY <1>2 DEF Return, Goto
  <1>7. pc' \in [Clients -> Pcs] /\ call' \in [Clients -> Call]
    BY <1>6, EmptyTypes DEF IInv, Pcs
  <1>8. ASSUME NEW d \in Clients PROVE ClientOK(d, pc[d], call[d])'
    <2>1. CASE d = c
      <3>1. pc'[d] = "idle" /\ call'[d] = NoCall
        BY <1>6, <2>1 DEF IInv
      <3>2. \A j \in Keys : storeLock'[j] # d /\ fenceLock'[j] # d
        BY <1>2, <2>1, Sentinels DEF HandOver
      <3> QED
        BY <3>1, <3>2, EmptyTypes DEF ClientOK, CallOK, HoldsOK, TxnOK
    <2>2. CASE d # c
      <3>1. pc'[d] = pc[d] /\ call'[d] = call[d] /\ lease'[d] = lease[d]
        BY <1>2, <1>6, <2>2 DEF IInv
      <3>2. \A j \in Keys : /\ storeLock'[j] = d <=> storeLock[j] = d
                            /\ fenceLock'[j] = d <=> fenceLock[j] = d
        BY <1>2, <2>2, Sentinels DEF HandOver
      <3>3. \A j \in Keys : fence'[j].accepted >= fence[j].accepted /\ fence'[j].accepted \in Nat
        BY <1>2, RowNumbers
      <3> QED
        BY <1>2, <3>1, <3>2, <3>3, OtherKept
    <2> QED
      BY <2>1, <2>2
  <1>9. ASSUME NEW j \in Keys PROVE KeyOK(j)'
    <2>1. KeyOK(j)
      BY DEF IInv
    <2>2. CASE j = k
      <3>1. fenceLock'[j] = Lost /\ lost'[j] = call[c].change
        BY <1>1, <1>2, <1>3, <2>2 DEF HandOver, IInv, RowTypes
      <3>2. storeLock[j] # Lost
        BY <1>3, <2>1, <2>2, Sentinels DEF KeyOK
      <3>3. storeLock[j] = c <=> storeLock'[j] = Lost
        BY <1>2, <3>2 DEF HandOver
      <3> QED
        BY <1>2, <1>3, <2>2, <3>1, <3>3, LeftChange
    <2>3. CASE j # k
      <3>1. storeLock[j] # c /\ fenceLock[j] # c
        BY <1>1, <2>3, Held DEF HoldsOK
      <3>2. storeLock'[j] = storeLock[j] /\ fenceLock'[j] = fenceLock[j] /\ lost'[j] = lost[j]
        BY <1>2, <2>3, <3>1 DEF HandOver, IInv, RowTypes
      <3> QED
        BY <1>2, <2>1, <3>2 DEF KeyOK
    <2> QED
      BY <2>2, <2>3
  <1> QED
    BY <1>4, <1>5, <1>7, <1>8, <1>9 DEF IInv

\* The server ends a lost transaction.
LEMMA LostEndsStep ==
    ASSUME IInv, NEW k \in Keys, LostCommits(k) \/ LostAborts(k)
    PROVE  IInv'
  <1>1. PICK g \in Change : g = lost[k]
    BY DEF IInv, RowTypes
  <1>2. fenceLock[k] = Lost /\ FreeLostRows(k) /\ KeyOK(k)
    BY DEF LostCommits, LostAborts, IInv
  <1>3. /\ g.fence \in Fence /\ g.fence.accepted \in Nat /\ g.fence.owner \in Nat
        /\ g.body # None => g.body \in Bodies /\ storeLock[k] = Lost
        /\ fence[k].accepted <= g.fence.accepted /\ g.fence.accepted <= g.fence.owner
        /\ g.body = None => g.fence.accepted = fence[k].accepted
    BY <1>1, <1>2 DEF Change, Fence, KeyOK
  <1>4. /\ storeLock' = [storeLock EXCEPT ![k] = IF storeLock[k] = Lost THEN None ELSE storeLock[k]]
        /\ fenceLock' = [fenceLock EXCEPT ![k] = None]
        /\ lost' = [lost EXCEPT ![k] = NoChange]
        /\ UNCHANGED <<now, leases, pc, call, failures>>
    BY <1>2 DEF FreeLostRows, IInv, RowTypes
  <1>5. LeasesOK' /\ lease' = lease
    BY <1>4, LeasesUnmoved
  <1>6. PICK b \in Bodies \cup {Absent}, f \in Fence :
          /\ value' = [value EXCEPT ![k] = b] /\ fence' = [fence EXCEPT ![k] = f]
          /\ fence[k].accepted <= f.accepted /\ f.accepted <= f.owner
          /\ b = Absent => f.accepted = 0
          /\ b # value[k] => storeLock[k] = Lost
    <2>1. CASE LostCommits(k)
      <3>1. /\ value' = [value EXCEPT ![k] = IF g.body = None THEN value[k] ELSE g.body]
            /\ fence' = [fence EXCEPT ![k] = g.fence]
        BY <1>1, <2>1 DEF LostCommits, Apply, IInv, RowTypes
      <3>2. PICK b : b = IF g.body = None THEN value[k] ELSE g.body
        OBVIOUS
      <3>3. value[k] \in Bodies \cup {Absent}
        BY DEF IInv, RowTypes
      <3>4. b \in Bodies \cup {Absent} /\ (b = Absent => g.fence.accepted = 0)
            /\ (b # value[k] => storeLock[k] = Lost)
        BY <1>2, <1>3, <3>2, <3>3, Sentinels DEF KeyOK
      <3> QED
        BY <1>3, <3>1, <3>2, <3>4
    <2>2. CASE LostAborts(k)
      <3>1. value' = [value EXCEPT ![k] = value[k]] /\ fence' = [fence EXCEPT ![k] = fence[k]]
        BY <2>2 DEF LostAborts, rows, IInv, RowTypes
      <3>2. PICK b \in Bodies \cup {Absent}, f \in Fence : b = value[k] /\ f = fence[k]
        BY RowNumbers DEF IInv, RowTypes
      <3>3. f.accepted \in Nat /\ f.owner \in Nat
        BY DEF Fence
      <3>4. /\ fence[k].accepted <= f.accepted /\ f.accepted <= f.owner
            /\ b = Absent => f.accepted = 0
        BY <1>2, <3>2, <3>3 DEF KeyOK
      <3> QED
        BY <3>1, <3>2, <3>4
    <2> QED
      BY <2>1, <2>2
  <1>7. RowTypes'
    BY <1>4, <1>6, EmptyTypes DEF IInv, RowTypes
  <1>8. ASSUME NEW d \in Clients PROVE ClientOK(d, pc[d], call[d])'
    <2>1. ASSUME NEW j \in Keys
          PROVE  /\ storeLock'[j] = d <=> storeLock[j] = d
                 /\ fenceLock'[j] = d <=> fenceLock[j] = d
                 /\ storeLock[j] = d => value'[j] = value[j]
                 /\ fenceLock[j] = d => fence'[j] = fence[j]
                 /\ fence'[j].accepted >= fence[j].accepted
                 /\ fence'[j].accepted \in Nat
      <3>1. CASE j = k
        <4>1. value'[j] = b /\ fence'[j] = f /\ f.accepted \in Nat
          BY <1>6, <3>1 DEF IInv, RowTypes, Fence
        <4> QED
          BY <1>2, <1>4, <1>6, <3>1, <4>1, Sentinels, RowNumbers DEF IInv, RowTypes
      <3>2. CASE j # k
        <4>1. /\ value'[j] = value[j] /\ fence'[j] = fence[j]
              /\ storeLock'[j] = storeLock[j] /\ fenceLock'[j] = fenceLock[j]
          BY <1>4, <1>6, <3>2 DEF IInv, RowTypes
        <4> QED
          BY <4>1, RowNumbers
      <3> QED
        BY <3>1, <3>2
    <2> QED
      BY <1>4, <1>5, <2>1, OtherKept
  <1>9. ASSUME NEW j \in Keys PROVE KeyOK(j)'
    <2>1. KeyOK(j)
      BY DEF IInv
    <2>2. CASE j = k
      <3>1. /\ value'[j] = b /\ fence'[j] = f /\ lost'[j] = NoChange
            /\ storeLock'[j] # Lost /\ fenceLock'[j] # Lost
        BY <1>4, <1>6, <2>2, Sentinels DEF IInv, RowTypes
      <3> QED
        BY <1>6, <3>1 DEF KeyOK
    <2>3. CASE j # k
      <3>1. /\ value'[j] = value[j] /\ fence'[j] = fence[j] /\ lost'[j] = lost[j]
            /\ storeLock'[j] = storeLock[j] /\ fenceLock'[j] = fenceLock[j]
        BY <1>4, <1>6, <2>3 DEF IInv, RowTypes
      <3> QED
        BY <2>1, <3>1 DEF KeyOK
    <2> QED
      BY <2>2, <2>3
  <1> QED
    BY <1>4, <1>5, <1>7, <1>8, <1>9 DEF IInv

\* What a crash leaves of the rows: those of the dead callers are free, but for
\* the rows of a COMMIT under way.
LEMMA CrashRows ==
    ASSUME IInv, NEW i \in Instances, Crash(i), NEW k \in Keys
    PROVE  /\ Caller(fenceLock[k]) = i /\ fenceLock[k] \in Clients =>
               /\ fenceLock'[k] = Lost /\ lost'[k] = call[fenceLock[k]].change
               /\ storeLock[k] = fenceLock[k] <=> storeLock'[k] = Lost
           /\ ~(Caller(fenceLock[k]) = i /\ fenceLock[k] \in Clients) =>
               /\ fenceLock'[k] = fenceLock[k] /\ lost'[k] = lost[k]
               /\ storeLock'[k] = Lost <=> storeLock[k] = Lost
           /\ \A d \in Clients : /\ Caller(d) = i => storeLock'[k] # d /\ fenceLock'[k] # d
                                 /\ Caller(d) # i => /\ storeLock'[k] = d <=> storeLock[k] = d
                                                     /\ fenceLock'[k] = d <=> fenceLock[k] = d
           /\ storeLock'[k] \in Clients \cup {None, Lost}
           /\ fenceLock'[k] \in Clients \cup {None, Lost}
           /\ lost'[k] \in Change
  <1> DEFINE gone == {c \in Clients : Caller(c) = i}
  <1>1. /\ storeLock'[k] = IF storeLock[k] \notin gone THEN storeLock[k]
                           ELSE IF fenceLock[k] = storeLock[k] THEN Lost ELSE None
        /\ fenceLock'[k] = IF fenceLock[k] \in gone THEN Lost ELSE fenceLock[k]
        /\ lost'[k] = IF fenceLock[k] \in gone THEN call[fenceLock[k]].change ELSE lost[k]
    BY DEF Crash
  <1>2. /\ storeLock[k] \in Clients \cup {None, Lost} /\ fenceLock[k] \in Clients \cup {None, Lost}
        /\ lost[k] \in Change /\ KeyOK(k)
    BY DEF IInv, RowTypes
  <1>3. fenceLock[k] \in gone => call[fenceLock[k]].change \in Change
    BY Staged
  <1>4. \A d \in Clients : d \in gone <=> Caller(d) = i
    OBVIOUS
  <1>5. gone \subseteq Clients
    OBVIOUS
  <1> HIDE DEF gone
  <1>6. storeLock[k] = Lost => fenceLock[k] = Lost
    BY <1>2 DEF KeyOK
  <1> QED
    BY <1>1, <1>2, <1>3, <1>4, <1>5, <1>6, Sentinels

LEMMA CrashStep == ASSUME IInv, NEW i \in Instances, Crash(i) PROVE IInv'
  <1>1. /\ failures' = failures + 1 /\ Forgotten(i) /\ value' = value /\ fence' = fence
        /\ pc' = [c \in Clients |-> IF Caller(c) = i THEN "idle" ELSE pc[c]]
        /\ call' = [c \in Clients |-> IF Caller(c) = i THEN NoCall ELSE call[c]]
        /\ lease' = [c \in Clients |-> IF Caller(c) = i THEN NoLease ELSE lease[c]]
    BY DEF Crash, rows, Forgotten
  <1>2. LeasesOK'
    BY <1>1, ForgottenType DEF IInv
  <1>3. RowTypes'
    <2>1. /\ storeLock' \in [Keys -> Clients \cup {None, Lost}]
          /\ fenceLock' \in [Keys -> Clients \cup {None, Lost}]
          /\ lost' \in [Keys -> Change]
      BY CrashRows DEF Crash
    <2> QED
      BY <1>1, <2>1 DEF IInv, RowTypes
  <1>4. pc' \in [Clients -> Pcs] /\ call' \in [Clients -> Call]
    BY <1>1, EmptyTypes DEF IInv, Pcs
  <1>5. ASSUME NEW d \in Clients PROVE ClientOK(d, pc[d], call[d])'
    <2>1. CASE Caller(d) = i
      <3>1. pc'[d] = "idle" /\ call'[d] = NoCall
        BY <1>1, <2>1
      <3>2. \A j \in Keys : storeLock'[j] # d /\ fenceLock'[j] # d
        BY <2>1, CrashRows
      <3> QED
        BY <3>1, <3>2, EmptyTypes DEF ClientOK, CallOK, HoldsOK, TxnOK
    <2>2. CASE Caller(d) # i
      <3>1. pc'[d] = pc[d] /\ call'[d] = call[d] /\ lease'[d] = lease[d]
        BY <1>1, <2>2
      <3>2. \A j \in Keys : /\ storeLock'[j] = d <=> storeLock[j] = d
                            /\ fenceLock'[j] = d <=> fenceLock[j] = d
        BY <2>2, CrashRows
      <3>3. \A j \in Keys : fence'[j].accepted >= fence[j].accepted /\ fence'[j].accepted \in Nat
        BY <1>1, RowNumbers
      <3> QED
        BY <1>1, <3>1, <3>2, <3>3, OtherKept
    <2> QED
      BY <2>1, <2>2
  <1>6. ASSUME NEW k \in Keys PROVE KeyOK(k)'
    <2>1. CASE Caller(fenceLock[k]) = i /\ fenceLock[k] \in Clients
      <3>1. PICK c \in Clients : fenceLock[k] = c
        BY <2>1
      <3>2. fenceLock'[k] = Lost /\ lost'[k] = call[c].change /\ (storeLock[k] = c <=> storeLock'[k] = Lost)
        BY <2>1, <3>1, CrashRows
      <3> QED
        BY <1>1, <3>1, <3>2, LeftChange
    <2>2. CASE ~(Caller(fenceLock[k]) = i /\ fenceLock[k] \in Clients)
      <3>1. /\ fenceLock'[k] = fenceLock[k] /\ lost'[k] = lost[k]
            /\ storeLock'[k] = Lost <=> storeLock[k] = Lost
        BY <2>2, CrashRows
      <3> QED
        BY <1>1, <3>1 DEF IInv, KeyOK
    <2> QED
      BY <2>1, <2>2
  <1> QED
    BY <1>2, <1>3, <1>4, <1>5, <1>6 DEF IInv

LEMMA TickStep == ASSUME IInv, Tick PROVE IInv'
  <1>1. now' \in Nat /\ UNCHANGED <<value, fence, storeLock, fenceLock, tokens, registry, mutex, lease,
                                    pc, call, lost, failures>>
    BY DEF Tick, IInv, LeasesOK, leases, rows, rowLocks
  <1>2. \A d \in Clients : ClientOK(d, pc[d], call[d])'
    BY <1>1 DEF IInv, ClientOK, CallOK, HoldsOK, TxnOK
  <1>3. \A k \in Keys : KeyOK(k)'
    BY <1>1 DEF IInv, KeyOK
  <1> QED
    BY <1>1, <1>2, <1>3 DEF IInv, LeasesOK, RowTypes

LEMMA StutterIInv == ASSUME IInv, UNCHANGED vars PROVE IInv'
  <1>1. UNCHANGED <<now, value, fence, storeLock, fenceLock, tokens, registry, mutex, lease,
                    pc, call, lost, failures>>
    BY DEF vars, leases, rows, rowLocks
  <1> QED
    BY <1>1 DEF IInv, LeasesOK, RowTypes, ClientOK, CallOK, HoldsOK, TxnOK, KeyOK

LEMMA NextIInv == ASSUME IInv, [Next]_vars PROVE IInv'
  <1>1. ASSUME NEW c \in Clients, Begin(c) PROVE IInv'
    BY <1>1, BeginCreateStep, BeginUpdateStep, BeginLockStep, BeginRenewStep, UnlockStep DEF Begin
  <1>2. ASSUME NEW c \in Clients, Continue(c) PROVE IInv'
    BY <1>2, InsertRowStep, CreateExistsStep, UpsertFenceStep, SelectStoreRowStep, UpdateRowsStep,
       RefuseUpdateStep, LoseFenceStep, SettleReadsStep, SettleReturnsStep, SettlePollsStep,
       AdvanceFenceStep, ExtendFenceStep, RenewSupersededStep, CommitWriteStep, CommitLockStep,
       CommitRenewStep DEF Continue
  <1> QED
    BY <1>1, <1>2, LockTimeoutStep, DropConnectionStep, DropInCommitStep, LostEndsStep, CrashStep,
       TickStep, StutterIInv DEF Next

\* The invariant holds in every reachable state.
THEOREM InductiveInvariant == Spec => []IInv
  <1>1. IInv /\ [Next]_vars => IInv'
    BY NextIInv
  <1> QED
    BY InitIInv, <1>1, PTL DEF Spec

\* Types; a client has rows locked only in its transaction, and its rows only.
THEOREM TypeCorrect == Spec => []TypeOK
  <1>1. ASSUME IInv PROVE TypeOK
    <2>1. lost \in [Keys -> Change \cup {NoChange}]
      BY <1>1 DEF IInv, RowTypes
    <2> QED
      BY <1>1, <2>1 DEF IInv, RowTypes, ClientOK, HoldsOK, TypeOK
  <1> QED
    BY <1>1, InductiveInvariant, PTL

\* After a fence loss, a settle loop that found the owner's fence consumed goes
\* on to report a hash at least as new as the write that consumed it: the fence
\* row is read first, and no commit lowers its floor.
THEOREM SettledSeesWinner == Spec => []SettleSeesWinner
  <1>1. ASSUME IInv PROVE SettleSeesWinner
    <2> SUFFICES ASSUME NEW c \in Clients, pc[c] = "settle_3", call[c].row.owner > 0,
                        Consumed(call[c].row)
                 PROVE  call[c].hashAt >= call[c].row.owner
      BY DEF SettleSeesWinner
    <2>1. call[c] \in Call /\ TxnOK(c, "settle_3", call[c])
      BY <1>1 DEF IInv, ClientOK
    <2>2. call[c].row.accepted \in Nat /\ call[c].row.owner \in Nat /\ call[c].hashAt \in Nat
      BY <2>1 DEF Call, Fence
    <2> QED
      BY <2>1, <2>2 DEF TxnOK, Consumed
  <1> QED
    BY <1>1, InductiveInvariant, PTL

\* A value moves by a COMMIT only, of a client or of a session without one.
LEMMA ValueMoves ==
    ASSUME IInv, [Next]_vars
    PROVE  \/ UNCHANGED value
           \/ \E c \in Clients : pc[c] = "commit" /\ Commits(c)
           \/ \E k \in Keys : LostCommits(k)
  <1>1. ASSUME NEW c \in Clients, Begin(c) PROVE UNCHANGED value
    BY <1>1 DEF Begin, BeginCreate, BeginUpdate, BeginLock, BeginRenew, Unlock, rows
  <1>2. ASSUME NEW c \in Clients, Continue(c)
        PROVE  UNCHANGED value \/ (pc[c] = "commit" /\ Commits(c))
    BY <1>2 DEF Continue, InsertRow, CreateExists, UpsertFence, SelectStoreRow, UpdateRows,
       RefuseUpdate, LoseFence, SettleReads, SettleReturns, SettlePolls, AdvanceFence, ExtendFence,
       RenewSuperseded, CommitWrite, CommitLock, CommitRenew, FreeRows, In, rows
  <1>3. ASSUME NEW c \in Clients, LockTimeout(c) \/ DropConnection(c) \/ DropInCommit(c)
        PROVE  UNCHANGED value
    BY <1>3 DEF LockTimeout, DropConnection, DropInCommit, FreeRows, rows
  <1>4. ASSUME NEW k \in Keys, LostAborts(k) PROVE UNCHANGED value
    BY <1>4 DEF LostAborts, rows
  <1>5. ASSUME NEW i \in Instances, Crash(i) PROVE UNCHANGED value
    BY <1>5 DEF Crash, rows
  <1>6. ASSUME Tick \/ UNCHANGED vars PROVE UNCHANGED value
    BY <1>6 DEF Tick, vars, rows
  <1> QED
    BY <1>1, <1>2, <1>3, <1>4, <1>5, <1>6 DEF Next

\* The generation of a key never goes back or repeats under another body: the
\* value an update was compared with is locked until its COMMIT, even when the
\* server ends it after the client is gone, and a create finds none.
THEOREM GenerationsOnlyRise == Spec => GenerationsRise
  <1>1. ASSUME IInv, [Next]_vars, NEW k \in Keys
        PROVE  value'[k] = value[k] \/ GenerationOk(value'[k], value[k])
    <2>1. CASE UNCHANGED value
      BY <2>1
    <2>2. ASSUME NEW c \in Clients, pc[c] = "commit", Commits(c)
          PROVE  value'[k] = value[k] \/ GenerationOk(value'[k], value[k])
      <3>1. PICK j \in Keys, g \in Change : j = call[c].key /\ g = call[c].change
        BY <1>1, <2>2, Held DEF Call
      <3>2. fenceLock[j] = c
        BY <1>1, <2>2, <3>1, Held DEF HoldsOK
      <3>3. value' = [value EXCEPT ![j] = IF g.body = None THEN value[j] ELSE g.body]
        BY <1>1, <2>2, <3>1 DEF Commits, Apply, IInv, RowTypes
      <3>4. g.body # None => GenerationOk(g.body, value[j])
        BY <1>1, <3>1, <3>2, Staged
      <3> QED
        BY <1>1, <3>3, <3>4 DEF IInv, RowTypes
    <2>3. ASSUME NEW j \in Keys, LostCommits(j)
          PROVE  value'[k] = value[k] \/ GenerationOk(value'[k], value[k])
      <3>1. PICK g \in Change : g = lost[j]
        BY <1>1 DEF IInv, RowTypes
      <3>2. value' = [value EXCEPT ![j] = IF g.body = None THEN value[j] ELSE g.body]
        BY <1>1, <2>3, <3>1 DEF LostCommits, Apply, IInv, RowTypes
      <3>3. g.body # None => GenerationOk(g.body, value[j])
        BY <1>1, <2>3, <3>1 DEF LostCommits, IInv, KeyOK
      <3> QED
        BY <1>1, <3>2, <3>3 DEF IInv, RowTypes
    <2> QED
      BY <1>1, <2>1, <2>2, <2>3, ValueMoves
  <1>2. IInv /\ [Next]_vars =>
          \A k \in Keys : value'[k] = value[k] \/ GenerationOk(value'[k], value[k])
    BY <1>1
  <1> QED
    BY <1>2, InductiveInvariant, PTL DEF Spec, GenerationsRise

-----------------------------------------------------------------------------
(***************************************************************************)
(* Every step is a step of the contract, or none.                          *)
(***************************************************************************)
\* The client's write in the contract, while its COMMIT is to come.
OpenWrite(c) ==
    WriteOf(call[c].key, call[c].body,
            IF call[c].kind = "create" THEN Absent ELSE call[c].expected, call[c].kind)

SameFences == \A k \in Keys : fence'[k].owner = fence[k].owner
SameLeases == \A c \in Clients : lease'[c].key = lease[c].key /\ lease'[c].fence = lease[c].fence
SameOps    == \A c \in Clients : OpOf(c)' = OpOf(c)

LEMMA Dropped ==
    ASSUME UNCHANGED value, SameFences, SameLeases, SameOps, Orphans' \subseteq Orphans
    PROVE  Contract!OrphansAreDropped
  BY DEF SameFences, SameLeases, SameOps, Contract!OrphansAreDropped

LEMMA OpenOnly ==
    ASSUME NEW c
    PROVE  /\ In(c, "commit", Writes) => OpOf(c) = [stage |-> "open", write |-> OpenWrite(c)]
           /\ ~In(c, "commit", Writes) => OpOf(c) = [stage |-> "idle"]
  BY DEF OpOf, OpenWrite

LEMMA OthersOps ==
    ASSUME NEW c, pc'[c] = pc[c], call'[c] = call[c] PROVE OpOf(c)' = OpOf(c)
  BY DEF OpOf, In

\* A client that neither was nor is writing.
LEMMA NotWriting ==
    ASSUME NEW c \in Clients, ~In(c, "commit", Writes), ~In(c, "commit", Writes)',
           \A d \in Clients \ {c} : pc'[d] = pc[d] /\ call'[d] = call[d]
    PROVE  SameOps
  <1> SUFFICES ASSUME NEW d \in Clients PROVE OpOf(d)' = OpOf(d)
    BY DEF SameOps
  <1>1. CASE d = c
    BY <1>1 DEF OpOf
  <1>2. CASE d # c
    BY <1>2, OthersOps
  <1> QED
    BY <1>1, <1>2

\* The value a lost write replaces is locked, and so is the fence row.
LEMMA LostWrite ==
    ASSUME IInv, NEW k \in Keys, lost[k].body # None
    PROVE  storeLock[k] = Lost /\ fenceLock[k] = Lost
  BY EmptyTypes DEF IInv, KeyOK

\* Orphans become no more when no session is lost.
LEMMA OrphansStay ==
    ASSUME \A k \in Keys : lost'[k].body # None => lost'[k] = lost[k] /\ value'[k] = value[k]
    PROVE  Orphans' \subseteq Orphans
  <1> SUFFICES ASSUME NEW o \in Orphans' PROVE o \in Orphans
    OBVIOUS
  <1>1. PICK k \in Keys :
          /\ lost'[k].body # None
          /\ o = WriteOf(k, lost'[k].body, value'[k], IF value'[k] = Absent THEN "create" ELSE "update")
    BY DEF Orphans, WriteOf
  <1>2. lost'[k] = lost[k] /\ value'[k] = value[k]
    BY <1>1
  <1> QED
    BY <1>1, <1>2 DEF Orphans

\* The open write of a client in its COMMIT: what it stages, on what it locked.
LEMMA OpenFacts ==
    ASSUME IInv, NEW c \in Clients, In(c, "commit", Writes)
    PROVE  \E w \in Contract!Write, g \in Change :
             /\ w = OpenWrite(c) /\ g = call[c].change
             /\ w.key = call[c].key /\ w.body = g.body /\ g.body \in Bodies /\ g.body # None
             /\ w.prior = value[w.key] /\ fenceLock[w.key] = c /\ storeLock[w.key] = c
             /\ g.fence.owner = fence[w.key].owner
             /\ w.fenced => lease[c].key = w.key /\ lease[c].fence = fence[w.key].owner
             /\ w = WriteOf(w.key, g.body, value[w.key],
                            IF value[w.key] = Absent THEN "create" ELSE "update")
  <1>1. PICK k \in Keys, g \in Change : k = call[c].key /\ g = call[c].change
    BY Held DEF In, Call
  <1>2. pc[c] = "commit" /\ call[c].kind \in Writes /\ TxnOK(c, "commit", call[c])
        /\ CallOK("commit", call[c])
    BY Held DEF In
  <1>3. fenceLock[k] = c
    BY <1>1, <1>2, Held DEF HoldsOK
  <1>4. g.body = call[c].body /\ call[c].body \in Bodies /\ g.body # None
    BY <1>1, <1>2, Sentinels DEF CallOK
  <1>5. storeLock[k] = c /\ g.fence.owner = fence[k].owner
    BY <1>1, <1>3, <1>4, Staged
  <1>6. PICK prior, kind : /\ kind = call[c].kind
                           /\ prior = IF kind = "create" THEN Absent ELSE call[c].expected
    OBVIOUS
  <1>7. prior = value[k] /\ (kind = "create" <=> value[k] = Absent)
        /\ kind \in {"create", "update"} /\ prior \in Bodies \cup {Absent}
    <2>1. CASE kind = "create"
      BY <1>1, <1>2, <1>6, <2>1 DEF TxnOK
    <2>2. CASE kind = "update"
      <3>1. call[c].hash = call[c].expected /\ call[c].expected \in Bodies
        BY <1>2, <1>6, <2>2 DEF TxnOK, CallOK
      <3>2. value[k] = call[c].expected /\ value[k] # Absent
        BY <1>1, <1>2, <1>6, <2>2, <3>1, Sentinels DEF TxnOK
      <3> QED
        BY <1>6, <2>2, <3>1, <3>2
    <2> QED
      BY <1>2, <1>6, <2>1, <2>2 DEF Writes
  <1>8. PICK w : w = [key |-> k, body |-> g.body, prior |-> prior, fenced |-> kind = "update"]
    OBVIOUS
  <1>9. w \in Contract!Write /\ w = OpenWrite(c)
        /\ w.key = k /\ w.body = g.body /\ w.prior = prior /\ w.fenced = (kind = "update")
    BY <1>1, <1>4, <1>6, <1>7, <1>8 DEF Contract!Write, OpenWrite, WriteOf
  <1>10. w = WriteOf(k, g.body, value[k], IF value[k] = Absent THEN "create" ELSE "update")
    BY <1>7, <1>8 DEF WriteOf
  <1>11. kind = "update" => lease[c].key = k /\ lease[c].fence = fence[k].owner
    BY <1>1, <1>2, <1>6 DEF TxnOK
  <1> QED
    BY <1>1, <1>3, <1>4, <1>5, <1>7, <1>9, <1>10, <1>11

\* The call of c, alone, becomes x at place p.
LEMMA OpBecomes ==
    ASSUME IInv, NEW c \in Clients, NEW p \in Pcs, NEW x,
           pc' = [pc EXCEPT ![c] = p], call' = [call EXCEPT ![c] = x]
    PROVE  /\ pc'[c] = p /\ call'[c] = x
           /\ \A d \in Clients \ {c} : pc'[d] = pc[d] /\ call'[d] = call[d]
           /\ [d \in Clients |-> OpOf(d)]'
                = [[d \in Clients |-> OpOf(d)] EXCEPT ![c] = OpOf(c)']
  <1>1. /\ pc'[c] = p /\ call'[c] = x
        /\ \A d \in Clients \ {c} : pc'[d] = pc[d] /\ call'[d] = call[d]
    BY DEF IInv
  <1>2. \A d \in Clients : OpOf(d)' = IF d = c THEN OpOf(c)' ELSE OpOf(d)
    BY <1>1, OthersOps
  <1> QED
    BY <1>1, <1>2

\* A client that returns has no open write.
LEMMA ReturnOps ==
    ASSUME IInv, NEW c \in Clients, Return(c)
    PROVE  /\ [d \in Clients |-> OpOf(d)]'
                = [[d \in Clients |-> OpOf(d)] EXCEPT ![c] = [stage |-> "idle"]]
           /\ ~In(c, "commit", Writes)'
           /\ \A d \in Clients \ {c} : pc'[d] = pc[d] /\ call'[d] = call[d]
  <1>1. /\ pc'[c] = "idle"
        /\ [d \in Clients |-> OpOf(d)]' = [[d \in Clients |-> OpOf(d)] EXCEPT ![c] = OpOf(c)']
        /\ \A d \in Clients \ {c} : pc'[d] = pc[d] /\ call'[d] = call[d]
    BY OpBecomes DEF Return, Goto, Pcs
  <1>2. ~In(c, "commit", Writes)'
    BY <1>1 DEF In
  <1> QED
    BY <1>1, <1>2 DEF OpOf

\* A client that is not in the COMMIT of a write goes on, and changes no row.
LEMMA QuietImpl ==
    ASSUME IInv, NEW c \in Clients,
           ~In(c, "commit", Writes), ~In(c, "commit", Writes)',
           \A d \in Clients \ {c} : pc'[d] = pc[d] /\ call'[d] = call[d],
           UNCHANGED <<rows, lease>>,
           \A k \in Keys : lost'[k].body # None => lost'[k] = lost[k]
    PROVE  Contract!OrphansAreDropped
  <1>1. SameOps
    BY NotWriting
  <1>2. UNCHANGED value /\ SameFences /\ SameLeases
    BY DEF rows, SameFences, SameLeases
  <1>3. Orphans' \subseteq Orphans
    BY <1>2, OrphansStay
  <1> QED
    BY <1>1, <1>2, <1>3, Dropped

LEMMA BeginImpl ==
    ASSUME IInv, NEW c \in Clients, Begin(c) PROVE Contract!OrphansAreDropped
  <1>1. pc[c] = "idle" /\ UNCHANGED <<rows, lease, lost>>
    BY DEF Begin, BeginCreate, BeginUpdate, BeginLock, BeginRenew, Unlock, Start, Released, leases
  <1>2. ~In(c, "commit", Writes) /\ ~In(c, "commit", Writes)'
        /\ \A d \in Clients \ {c} : pc'[d] = pc[d] /\ call'[d] = call[d]
    <2>1. CASE Unlock(c)
      BY <1>1, <2>1 DEF Unlock, In
    <2>2. CASE BeginCreate(c) \/ BeginUpdate(c) \/ BeginLock(c) \/ BeginRenew(c)
      BY <1>1, <2>2 DEF BeginCreate, BeginUpdate, BeginLock, BeginRenew, Start, Goto, In, IInv
    <2> QED
      BY <2>1, <2>2 DEF Begin
  <1> QED
    BY <1>1, <1>2, QuietImpl

LEMMA GoesOnImpl ==
    ASSUME IInv, NEW c \in Clients,
           \/ InsertRow(c) \/ CreateExists(c) \/ SelectStoreRow(c) \/ RefuseUpdate(c) \/ LoseFence(c)
           \/ SettleReads(c) \/ SettleReturns(c) \/ SettlePolls(c)
           \/ AdvanceFence(c) \/ ExtendFence(c) \/ RenewSuperseded(c)
    PROVE  Contract!OrphansAreDropped
  <1>1. pc[c] # "commit" /\ UNCHANGED <<rows, lease, lost>>
    BY DEF InsertRow, CreateExists, SelectStoreRow, RefuseUpdate, LoseFence, SettleReads,
       SettleReturns, SettlePolls, AdvanceFence, ExtendFence, RenewSuperseded, FreeRows, In, leases
  <1>2. ~In(c, "commit", Writes)' /\ \A d \in Clients \ {c} : pc'[d] = pc[d] /\ call'[d] = call[d]
    <2>1. CASE Return(c)
      BY <2>1, ReturnOps
    <2>2. CASE InsertRow(c) \/ SelectStoreRow(c) \/ LoseFence(c) \/ SettlePolls(c)
      BY <2>2 DEF InsertRow, SelectStoreRow, LoseFence, SettlePolls, Goto, In, IInv
    <2>3. CASE SettleReads(c)
      BY <2>3 DEF SettleReads, ReadFence, ReadHash, Goto, In, IInv
    <2>4. CASE AdvanceFence(c) \/ ExtendFence(c)
      <3>1. PICK g : call' = [call EXCEPT ![c].change = g] /\ pc' = [pc EXCEPT ![c] = "commit"]
        BY <2>4 DEF AdvanceFence, ExtendFence, Stage, Goto
      <3>2. call'[c].kind = call[c].kind /\ call[c].kind \in Fences
        BY <2>4, <3>1, Held DEF AdvanceFence, ExtendFence, In, Fences, IInv, Call
      <3> QED
        BY <3>1, <3>2 DEF In, Fences, Writes, IInv
    <2> QED
      BY <2>1, <2>2, <2>3, <2>4 DEF CreateExists, RefuseUpdate, SettleReturns, RenewSuperseded
  <1> QED
    BY <1>1, <1>2, QuietImpl DEF In

\* The last statement of a write: from here on it may land.
LEMMA StagesImpl ==
    ASSUME IInv, IInv', NEW c \in Clients, UpsertFence(c) \/ UpdateRows(c)
    PROVE  Contract!BeginWrite(c)
  <1> DEFINE ops == [d \in Clients |-> OpOf(d)]
  <1>1. PICK g : /\ call' = [call EXCEPT ![c].change = g] /\ pc' = [pc EXCEPT ![c] = "commit"]
                 /\ pc[c] = "fence_row" /\ call[c].kind \in Writes
                 /\ UNCHANGED <<rows, lease, lost>>
    BY DEF UpsertFence, UpdateRows, Stage, Goto, In, Writes, leases
  <1>2. PICK x : x = [call[c] EXCEPT !.change = g]
    OBVIOUS
  <1>3. x.kind = call[c].kind
    BY <1>2, Held DEF Call
  <1>4. /\ pc'[c] = "commit" /\ call'[c] = x /\ ops' = [ops EXCEPT ![c] = OpOf(c)']
    <2>1. call' = [call EXCEPT ![c] = x]
      BY <1>1, <1>2 DEF IInv
    <2> QED
      BY <1>1, <2>1, OpBecomes DEF Pcs
  <1>5. In(c, "commit", Writes)' /\ ops[c] = [stage |-> "idle"]
    BY <1>1, <1>3, <1>4 DEF In, OpOf
  <1>6. PICK w \in Contract!Write : OpOf(c)' = [stage |-> "open", write |-> w]
    <2>1. /\ x.key \in Keys /\ x.body \in Bodies
          /\ x.kind = "update" => x.expected \in Bodies
          /\ x.kind \in Writes
      BY <1>1, <1>3, <1>4 DEF IInv, ClientOK, CallOK
    <2>2. PICK w : w = [key |-> x.key, body |-> x.body,
                        prior |-> IF x.kind = "create" THEN Absent ELSE x.expected,
                        fenced |-> x.kind = "update"]
      OBVIOUS
    <2>3. w \in Contract!Write
      BY <2>1, <2>2 DEF Contract!Write, Writes
    <2>4. OpOf(c)' = [stage |-> "open", write |-> w]
      BY <1>4, <1>5, <2>2 DEF OpOf, WriteOf
    <2> QED
      BY <2>3, <2>4
  <1>7. UNCHANGED value /\ fence' = fence /\ lease' = lease /\ Orphans' = Orphans
    BY <1>1 DEF rows, Orphans
  <1> QED
    BY <1>4, <1>5, <1>6, <1>7 DEF Contract!BeginWrite, Contract!Open, Contract!Idle

\* What COMMIT makes of the rows of its key.
LEMMA Committed ==
    ASSUME IInv, NEW c \in Clients, pc[c] = "commit", Commits(c)
    PROVE  \E k \in Keys, g \in Change :
             /\ k = call[c].key /\ g = call[c].change /\ fenceLock[k] = c
             /\ value' = [value EXCEPT ![k] = IF g.body = None THEN value[k] ELSE g.body]
             /\ fence' = [fence EXCEPT ![k] = g.fence]
             /\ Return(c) /\ lost[k].body = None
  <1>1. PICK k \in Keys, g \in Change : k = call[c].key /\ g = call[c].change
    BY Held DEF Call
  <1>2. fenceLock[k] = c
    BY <1>1, Held DEF HoldsOK
  <1>3. lost[k].body = None
    BY <1>2, LostWrite, Sentinels
  <1> QED
    BY <1>1, <1>2, <1>3 DEF Commits, Apply, IInv, RowTypes

\* COMMIT of a write: it lands.
LEMMA CommitWriteImpl ==
    ASSUME IInv, NEW c \in Clients, CommitWrite(c) PROVE Contract!Land(c)
  <1> DEFINE ops == [d \in Clients |-> OpOf(d)]
             fs == [k \in Keys |-> fence[k].owner]
             ls == [d \in Clients |-> [key |-> lease[d].key, fence |-> lease[d].fence]]
  <1>1. In(c, "commit", Writes) /\ pc[c] = "commit" /\ Commits(c) /\ lease' = lease /\ lost' = lost
    BY DEF CommitWrite, In, leases
  <1>2. PICK w \in Contract!Write, g \in Change :
             /\ w = OpenWrite(c) /\ g = call[c].change
             /\ w.key = call[c].key /\ w.body = g.body /\ g.body # None
             /\ w.prior = value[w.key]
             /\ g.fence.owner = fence[w.key].owner
             /\ w.fenced => lease[c].key = w.key /\ lease[c].fence = fence[w.key].owner
    BY <1>1, OpenFacts
  <1>3. w.key \in Keys
    BY DEF Contract!Write
  <1>4. /\ value' = [value EXCEPT ![w.key] = w.body] /\ fence' = [fence EXCEPT ![w.key] = g.fence]
        /\ Return(c) /\ lost[w.key].body = None
    BY <1>1, <1>2, Committed
  <1>5. ops[c] = [stage |-> "open", write |-> w] /\ ops' = [ops EXCEPT ![c] = [stage |-> "idle"]]
    BY <1>1, <1>2, <1>4, OpenOnly, ReturnOps
  <1>6. fs' = fs /\ ls' = ls
    BY <1>1, <1>2, <1>3, <1>4 DEF IInv, RowTypes
  <1>7. Orphans' \subseteq Orphans
    <2>1. \A k \in Keys : lost'[k].body # None => lost'[k] = lost[k] /\ value'[k] = value[k]
      BY <1>1, <1>4 DEF IInv, RowTypes
    <2> QED
      BY <2>1, OrphansStay
  <1>8. Contract!IsOpen(c) /\ Contract!FenceOk(c, w) /\ Contract!Outlive(w.key) = Orphans
    BY <1>2, <1>3, <1>5 DEF Contract!IsOpen, Contract!FenceOk, Contract!Outlive
  <1>9. value[w.key] = w.prior /\ value' = [value EXCEPT ![w.key] = w.body] /\ ops[c].write = w
    BY <1>2, <1>4, <1>5
  <1> QED
    BY <1>5, <1>6, <1>7, <1>8, <1>9 DEF Contract!Land, Contract!Idle

\* COMMIT of lock() and renew().
LEMMA FenceCommitted ==
    ASSUME IInv, NEW c \in Clients, In(c, "commit", Fences), Commits(c), lost' = lost
    PROVE  /\ UNCHANGED value /\ SameOps /\ OpOf(c) = [stage |-> "idle"] /\ Orphans' \subseteq Orphans
           /\ \E k \in Keys : /\ k = call[c].key /\ \A o \in Orphans : o.key # k
                              /\ call[c].change.fence.owner \in Nat
                              /\ fence' = [fence EXCEPT ![k] = call[c].change.fence]
                              /\ ChangeOK(call[c].change, call[c].kind, fence[k])
  <1>1. pc[c] = "commit" /\ call[c].kind \in Fences /\ call[c].kind \notin Writes
    BY DEF In, Fences, Writes
  <1>2. PICK k \in Keys, g \in Change :
             /\ k = call[c].key /\ g = call[c].change
             /\ value' = [value EXCEPT ![k] = IF g.body = None THEN value[k] ELSE g.body]
             /\ fence' = [fence EXCEPT ![k] = g.fence]
             /\ Return(c) /\ lost[k].body = None
    BY <1>1, Committed
  <1>3. g.body = None /\ ChangeOK(g, call[c].kind, fence[k])
    BY <1>1, <1>2, Held DEF CallOK, TxnOK
  <1>4. value' = value
    BY <1>2, <1>3 DEF IInv, RowTypes
  <1>5. Orphans' \subseteq Orphans
    BY <1>4, OrphansStay
  <1>6. ~In(c, "commit", Writes)
    BY <1>1 DEF In
  <1>7. SameOps
    BY <1>2, <1>6, ReturnOps, NotWriting
  <1>8. \A o \in Orphans : o.key # k
    BY <1>2 DEF Orphans, WriteOf
  <1>9. g.fence.owner \in Nat
    BY DEF Change, Fence
  <1> QED
    BY <1>2, <1>3, <1>4, <1>5, <1>6, <1>7, <1>8, <1>9, OpenOnly

LEMMA CommitLockImpl ==
    ASSUME IInv, NEW c \in Clients, CommitLock(c) PROVE Contract!Lock(c)
  <1> DEFINE ops == [d \in Clients |-> OpOf(d)]
             fs == [j \in Keys |-> fence[j].owner]
             ls == [d \in Clients |-> [key |-> lease[d].key, fence |-> lease[d].fence]]
  <1>1. In(c, "commit", Fences) /\ call[c].kind = "lock" /\ Commits(c) /\ lost' = lost
    BY DEF CommitLock, In, Fences
  <1>2. PICK k \in Keys : /\ k = call[c].key /\ \A o \in Orphans : o.key # k
                          /\ call[c].change.fence.owner \in Nat
                          /\ fence' = [fence EXCEPT ![k] = call[c].change.fence]
                          /\ ChangeOK(call[c].change, call[c].kind, fence[k])
    BY <1>1, FenceCommitted
  <1>3. UNCHANGED value /\ SameOps /\ OpOf(c) = [stage |-> "idle"] /\ Orphans' \subseteq Orphans
    BY <1>1, FenceCommitted
  <1>4. call[c].change.fence.owner = fence[k].owner + 1
    BY <1>1, <1>2 DEF ChangeOK
  <1>5. fs' = [fs EXCEPT ![k] = fs[k] + 1]
    BY <1>2, <1>4 DEF IInv, RowTypes
  <1>6. ls' = [ls EXCEPT ![c] = [key |-> k, fence |-> fs[k] + 1]]
    <2>1. PICK t : t = call[c].token
      OBVIOUS
    <2>2. lease' = [lease EXCEPT ![c] = [key |-> k, token |-> t, fence |-> fence[k].owner + 1]]
      BY <1>2, <1>4, <2>1 DEF CommitLock, Granted
    <2>3. /\ lease'[c].key = k /\ lease'[c].fence = fence[k].owner + 1
          /\ \A d \in Clients \ {c} : lease'[d] = lease[d]
      BY <2>2 DEF IInv, LeasesOK
    <2> QED
      BY <2>3
  <1>7. ops' = ops /\ ops[c] = [stage |-> "idle"]
    BY <1>3 DEF SameOps
  <1>8. Orphans' \subseteq Contract!Outrun(k)
    BY <1>2, <1>3 DEF Contract!Outrun
  <1> QED
    BY <1>3, <1>5, <1>6, <1>7, <1>8 DEF Contract!Lock, Contract!Idle

LEMMA CommitRenewImpl ==
    ASSUME IInv, NEW c \in Clients, CommitRenew(c) PROVE Contract!OrphansAreDropped
  <1>1. In(c, "commit", Fences) /\ call[c].kind = "renew" /\ Commits(c) /\ lost' = lost
        /\ lease' = lease
    BY DEF CommitRenew, In, Fences
  <1>2. PICK k \in Keys : /\ k = call[c].key
                          /\ fence' = [fence EXCEPT ![k] = call[c].change.fence]
                          /\ ChangeOK(call[c].change, call[c].kind, fence[k])
    BY <1>1, FenceCommitted
  <1>3. UNCHANGED value /\ SameOps /\ Orphans' \subseteq Orphans
    BY <1>1, FenceCommitted
  <1>4. SameFences
    BY <1>1, <1>2 DEF ChangeOK, SameFences, IInv, RowTypes
  <1>5. SameLeases
    BY <1>1 DEF SameLeases
  <1> QED
    BY <1>3, <1>4, <1>5, Dropped

\* A rollback: the write, if there was one, has returned.
LEMMA FailsImpl ==
    ASSUME IInv, NEW c \in Clients, LockTimeout(c) \/ DropConnection(c)
    PROVE  Contract!Return(c) \/ Contract!OrphansAreDropped
  <1> DEFINE ops == [d \in Clients |-> OpOf(d)]
  <1>1. Return(c) /\ UNCHANGED <<rows, lease, lost>>
    BY DEF LockTimeout, DropConnection, FreeRows
  <1>2. CASE ~In(c, "commit", Writes)
    BY <1>1, <1>2, ReturnOps, QuietImpl
  <1>3. CASE In(c, "commit", Writes)
    <2>1. ops' = [ops EXCEPT ![c] = [stage |-> "idle"]]
      BY <1>1, ReturnOps
    <2>2. ops[c] = [stage |-> "open", write |-> OpenWrite(c)]
      BY <1>3, OpenOnly
    <2>3. value' = value /\ fence' = fence /\ lease' = lease /\ Orphans' = Orphans
      BY <1>1 DEF rows, Orphans
    <2> QED
      BY <2>1, <2>2, <2>3 DEF Contract!Return, Contract!Idle
  <1> QED
    BY <1>2, <1>3

\* COMMIT is lost: the server may still carry it out.
LEMMA DropInCommitImpl ==
    ASSUME IInv, NEW c \in Clients, DropInCommit(c)
    PROVE  Contract!Abandon(c) \/ Contract!OrphansAreDropped
  <1> DEFINE ops == [d \in Clients |-> OpOf(d)]
  <1>1. PICK k \in Keys, g \in Change : k = call[c].key /\ g = call[c].change
    BY Held DEF DropInCommit, Call
  <1>2. /\ pc[c] = "commit" /\ Return(c) /\ UNCHANGED <<rows, lease>>
        /\ value' = value /\ fence' = fence
        /\ \A j \in Keys : lost'[j] = IF j = k THEN g ELSE lost[j]
    BY <1>1 DEF DropInCommit, rows, IInv, RowTypes
  <1>3. CASE ~In(c, "commit", Writes)
    <2>1. g.body = None
      BY <1>1, <1>2, <1>3, Held DEF In, CallOK
    <2>2. \A j \in Keys : lost'[j].body # None => lost'[j] = lost[j]
      BY <1>2, <2>1
    <2> QED
      BY <1>2, <1>3, <2>2, ReturnOps, QuietImpl
  <1>4. CASE In(c, "commit", Writes)
    <2>1. PICK w \in Contract!Write :
             /\ w = OpenWrite(c) /\ w.key = k
             /\ w = WriteOf(k, g.body, value[k], IF value[k] = Absent THEN "create" ELSE "update")
      BY <1>1, <1>4, OpenFacts
    <2>2. ops[c] = [stage |-> "open", write |-> w] /\ ops' = [ops EXCEPT ![c] = [stage |-> "idle"]]
      BY <1>2, <1>4, <2>1, OpenOnly, ReturnOps
    <2>3. Orphans' \subseteq Orphans \cup {w}
      <3> SUFFICES ASSUME NEW o \in Orphans' PROVE o \in Orphans \cup {w}
        OBVIOUS
      <3>1. PICK j \in Keys :
              /\ lost'[j].body # None
              /\ o = WriteOf(j, lost'[j].body, value[j], IF value[j] = Absent THEN "create" ELSE "update")
        BY <1>2 DEF Orphans, WriteOf
      <3> QED
        BY <1>2, <2>1, <3>1 DEF Orphans
    <2> QED
      BY <1>2, <2>2, <2>3 DEF Contract!Abandon, Contract!IsOpen, Contract!Idle
  <1> QED
    BY <1>3, <1>4

\* The server ends a lost session: a write of nobody lands or is dropped, lock()
\* of nobody takes the fence.
LEMMA LostEndsImpl ==
    ASSUME IInv, NEW k \in Keys, LostCommits(k) \/ LostAborts(k)
    PROVE  Contract!OrphanLands \/ Contract!LockUnanswered \/ Contract!OrphansAreDropped
  <1> DEFINE ops == [d \in Clients |-> OpOf(d)]
             fs == [j \in Keys |-> fence[j].owner]
             ls == [d \in Clients |-> [key |-> lease[d].key, fence |-> lease[d].fence]]
  <1>1. PICK g \in Change : g = lost[k]
    BY DEF IInv, RowTypes
  <1>2. /\ lease' = lease /\ pc' = pc /\ call' = call /\ fenceLock[k] = Lost
        /\ \A j \in Keys : lost'[j] = IF j = k THEN NoChange ELSE lost[j]
    BY DEF LostCommits, LostAborts, FreeLostRows, leases, IInv, RowTypes
  <1>3. SameOps /\ SameLeases /\ ops' = ops /\ ls' = ls
    BY <1>2, OthersOps DEF SameOps, SameLeases
  <1>4. ASSUME \A j \in Keys \ {k} : value'[j] = value[j]
        PROVE  Orphans' \subseteq {o \in Orphans : o.key # k}
    <2> SUFFICES ASSUME NEW o \in Orphans' PROVE o \in Orphans /\ o.key # k
      OBVIOUS
    <2>1. PICK j \in Keys :
            /\ lost'[j].body # None
            /\ o = WriteOf(j, lost'[j].body, value'[j], IF value'[j] = Absent THEN "create" ELSE "update")
      BY DEF Orphans, WriteOf
    <2>2. j # k /\ lost'[j] = lost[j] /\ value'[j] = value[j]
      BY <1>2, <1>4, <2>1, EmptyTypes
    <2>3. o.key = j
      BY <2>1 DEF WriteOf
    <2> QED
      BY <2>1, <2>2, <2>3 DEF Orphans
  <1>5. CASE LostAborts(k)
    <2>1. UNCHANGED value /\ SameFences
      BY <1>5 DEF LostAborts, rows, SameFences
    <2> QED
      BY <1>3, <1>4, <2>1, Dropped
  <1>6. CASE LostCommits(k)
    <2>1. /\ value' = [value EXCEPT ![k] = IF g.body = None THEN value[k] ELSE g.body]
          /\ fence' = [fence EXCEPT ![k] = g.fence] /\ KeyOK(k)
      BY <1>1, <1>6 DEF LostCommits, Apply, IInv, RowTypes
    <2>2. Orphans' \subseteq {o \in Orphans : o.key # k}
      BY <1>4, <2>1
    <2>3. CASE g.body # None
      <3>1. g.fence.owner = fence[k].owner
        BY <1>1, <1>2, <2>1, <2>3 DEF KeyOK
      <3>2. fs' = fs
        BY <2>1, <3>1 DEF IInv, RowTypes
      <3>3. PICK o \in Orphans : o.key = k /\ o.prior = value[k] /\ o.body = g.body
        <4>1. PICK o : o = WriteOf(k, g.body, value[k], IF value[k] = Absent THEN "create" ELSE "update")
          OBVIOUS
        <4>2. o \in Orphans
          BY <1>1, <2>3, <4>1 DEF Orphans
        <4>3. o.key = k /\ o.prior = value[k] /\ o.body = g.body
          BY <4>1 DEF WriteOf
        <4> QED
          BY <4>2, <4>3
      <3>4. value' = [value EXCEPT ![o.key] = o.body]
        BY <2>1, <2>3, <3>3
      <3>5. Orphans' \subseteq Contract!Outlive(o.key)
        BY <2>2 DEF Contract!Outlive
      <3> QED
        BY <1>3, <3>2, <3>3, <3>4, <3>5 DEF Contract!OrphanLands
    <2>4. CASE g.body = None
      <3>1. value' = value /\ g.fence.owner \in {fence[k].owner, fence[k].owner + 1}
        BY <1>1, <1>2, <2>1, <2>4 DEF KeyOK, IInv, RowTypes
      <3>2. CASE g.fence.owner = fence[k].owner
        <4>1. SameFences
          BY <2>1, <3>2 DEF SameFences, IInv, RowTypes
        <4> QED
          BY <1>3, <2>2, <3>1, <4>1, Dropped
      <3>3. CASE g.fence.owner = fence[k].owner + 1
        <4>1. fs' = [fs EXCEPT ![k] = fs[k] + 1]
          BY <2>1, <3>3 DEF IInv, RowTypes
        <4>2. Orphans' \subseteq Contract!Outrun(k)
          BY <2>2 DEF Contract!Outrun
        <4> QED
          BY <1>3, <3>1, <4>1, <4>2 DEF Contract!LockUnanswered
      <3> QED
        BY <3>1, <3>2, <3>3
    <2> QED
      BY <2>3, <2>4
  <1> QED
    BY <1>5, <1>6

\* A process dies: its open writes may land later, its leases are gone.
LEMMA CrashImpl ==
    ASSUME IInv, NEW i \in Instances, Crash(i)
    PROVE  Contract!Crash \/ Contract!OrphansAreDropped
  <1> DEFINE dead == {c \in Clients : Caller(c) = i}
             ops == [d \in Clients |-> OpOf(d)]
             fs == [k \in Keys |-> fence[k].owner]
             ls == [d \in Clients |-> [key |-> lease[d].key, fence |-> lease[d].fence]]
             open == Orphans \cup {ops[c].write : c \in {x \in dead : ops[x].stage = "open"}}
  <1>1. /\ value' = value /\ fence' = fence /\ dead \in SUBSET Clients
        /\ \A d \in Clients :
             /\ d \in dead => pc'[d] = "idle" /\ call'[d] = NoCall /\ lease'[d] = NoLease
             /\ d \notin dead => pc'[d] = pc[d] /\ call'[d] = call[d] /\ lease'[d] = lease[d]
    BY DEF Crash, Forgotten, rows
  <1>2. ASSUME NEW k \in Keys
        PROVE  \/ lost'[k] = lost[k]
               \/ fenceLock[k] \in dead /\ lost'[k] = call[fenceLock[k]].change
    BY CrashRows
  <1> HIDE DEF dead
  <1>3. ops' = [d \in Clients |-> IF d \in dead THEN [stage |-> "idle"] ELSE ops[d]]
    <2> SUFFICES ASSUME NEW d \in Clients
                 PROVE  OpOf(d)' = IF d \in dead THEN [stage |-> "idle"] ELSE OpOf(d)
      OBVIOUS
    <2>1. CASE d \in dead
      BY <1>1, <2>1 DEF OpOf, In
    <2>2. CASE d \notin dead
      BY <1>1, <2>2, OthersOps
    <2> QED
      BY <2>1, <2>2
  <1>4. ls' = [d \in Clients |-> IF d \in dead THEN [key |-> None, fence |-> 0] ELSE ls[d]]
    <2> SUFFICES ASSUME NEW d \in Clients
                 PROVE  [key |-> lease'[d].key, fence |-> lease'[d].fence]
                          = IF d \in dead THEN [key |-> None, fence |-> 0] ELSE ls[d]
      OBVIOUS
    <2>1. CASE d \in dead
      BY <1>1, <2>1 DEF NoLease
    <2>2. CASE d \notin dead
      BY <1>1, <2>2
    <2> QED
      BY <2>1, <2>2
  <1>5. Orphans' \subseteq open
    <2> SUFFICES ASSUME NEW o \in Orphans' PROVE o \in open
      OBVIOUS
    <2>1. PICK k \in Keys :
            /\ lost'[k].body # None
            /\ o = WriteOf(k, lost'[k].body, value[k], IF value[k] = Absent THEN "create" ELSE "update")
      BY <1>1 DEF Orphans, WriteOf
    <2>2. CASE lost'[k] = lost[k]
      BY <2>1, <2>2 DEF Orphans
    <2>3. CASE fenceLock[k] \in dead /\ lost'[k] = call[fenceLock[k]].change
      <3>1. PICK c \in dead : c = fenceLock[k]
        BY <2>3
      <3>2. c \in Clients /\ pc[c] = "commit" /\ call[c].key = k /\ call[c].kind \in Writes
        BY <1>1, <2>1, <2>3, <3>1, Staged
      <3>3. In(c, "commit", Writes)
        BY <3>2 DEF In
      <3>4. o = OpenWrite(c)
        BY <2>1, <2>3, <3>1, <3>2, <3>3, OpenFacts
      <3>5. ops[c] = [stage |-> "open", write |-> o]
        BY <3>2, <3>3, <3>4, OpenOnly
      <3> QED
        BY <3>5
    <2> QED
      BY <1>2, <2>2, <2>3
  <1>6. fs' = fs
    BY <1>1
  <1>7. CASE dead = {}
    <2>1. SameOps /\ SameLeases /\ SameFences
      BY <1>1, <1>7, OthersOps DEF SameOps, SameLeases, SameFences
    <2>2. Orphans' \subseteq Orphans
      BY <1>5, <1>7
    <2> QED
      BY <1>1, <2>1, <2>2, Dropped
  <1>8. CASE dead # {}
    <2>1. /\ {} \in SUBSET {w \in open : value[w.key] = w.prior}
          /\ \A w, x \in {} : w.key = x.key => w = x
          /\ value' = Contract!Settled({})
      <3>1. value = [k \in Keys |-> value[k]]
        BY DEF IInv, RowTypes
      <3> QED
        BY <1>1, <3>1 DEF Contract!Settled
    <2> QED
      BY <1>1, <1>3, <1>4, <1>5, <1>6, <1>8, <2>1
      DEF Contract!Crash, Contract!IsOpen, Contract!Idle, Contract!NoLease
  <1> QED
    BY <1>7, <1>8

LEMMA NextImpl ==
    ASSUME IInv, IInv', [Next]_vars PROVE [Contract!Next]_Contract!vars
  <1>1. ASSUME NEW c \in Clients, Begin(c) PROVE Contract!Next
    BY <1>1, BeginImpl DEF Contract!Next
  <1>2. ASSUME NEW c \in Clients, Continue(c) PROVE Contract!Next
    <2>1. CASE \/ InsertRow(c) \/ CreateExists(c) \/ SelectStoreRow(c) \/ RefuseUpdate(c)
               \/ LoseFence(c) \/ SettleReads(c) \/ SettleReturns(c) \/ SettlePolls(c)
               \/ AdvanceFence(c) \/ ExtendFence(c) \/ RenewSuperseded(c)
      BY <2>1, GoesOnImpl DEF Contract!Next
    <2>2. CASE UpsertFence(c) \/ UpdateRows(c)
      BY <2>2, StagesImpl DEF Contract!Next
    <2>3. CASE CommitWrite(c)
      BY <2>3, CommitWriteImpl DEF Contract!Next
    <2>4. CASE CommitLock(c)
      BY <2>4, CommitLockImpl DEF Contract!Next
    <2>5. CASE CommitRenew(c)
      BY <2>5, CommitRenewImpl DEF Contract!Next
    <2> QED
      BY <1>2, <2>1, <2>2, <2>3, <2>4, <2>5 DEF Continue
  <1>3. ASSUME NEW c \in Clients, LockTimeout(c) \/ DropConnection(c) \/ DropInCommit(c)
        PROVE  Contract!Next
    BY <1>3, FailsImpl, DropInCommitImpl DEF Contract!Next
  <1>4. ASSUME NEW k \in Keys, LostCommits(k) \/ LostAborts(k) PROVE Contract!Next
    BY <1>4, LostEndsImpl DEF Contract!Next
  <1>5. ASSUME NEW i \in Instances, Crash(i) PROVE Contract!Next
    BY <1>5, CrashImpl DEF Contract!Next
  <1>6. ASSUME Tick \/ UNCHANGED vars PROVE Contract!OrphansAreDropped
    <2>1. UNCHANGED <<lease, rows, pc, call, lost>>
      BY <1>6 DEF Tick, vars, leases
    <2>2. UNCHANGED value /\ SameFences /\ SameLeases /\ SameOps
      BY <2>1, OthersOps DEF rows, SameFences, SameLeases, SameOps
    <2>3. Orphans' \subseteq Orphans
      BY <2>1, <2>2, OrphansStay
    <2> QED
      BY <2>2, <2>3, Dropped
  <1> QED
    BY <1>1, <1>2, <1>3, <1>4, <1>5, <1>6 DEF Next, Contract!Next

LEMMA InitImpl == ASSUME Init PROVE Contract!Init
  <1>1. /\ value = [k \in Keys |-> Absent] /\ \A k \in Keys : fence[k] = NoFence /\ lost[k] = NoChange
        /\ \A c \in Clients : pc[c] = "idle" /\ lease[c] = NoLease
    BY DEF Init, LeasesInit
  <1>2. \A k \in Keys : fence[k].owner = 0
    <2>1. NoFence.owner = 0
      BY DEF NoFence
    <2> QED
      BY <1>1, <2>1
  <1>3. \A c \in Clients : OpOf(c) = [stage |-> "idle"]
    BY <1>1 DEF OpOf, In
  <1>4. \A c \in Clients : lease[c].key = None /\ lease[c].fence = 0
    BY <1>1 DEF NoLease
  <1>5. Orphans = {}
    BY <1>1, EmptyTypes DEF Orphans
  <1> QED
    BY <1>1, <1>2, <1>3, <1>4, <1>5 DEF Contract!Init, Contract!Idle, Contract!NoLease

\* PostgresBackend implements the store contract, for any processes, keys and
\* bodies and any lock timeouts, dropped connections and crashes: a write()
\* lands at its COMMIT, on the value and under the fence it has locked, or
\* never, or, after its caller has given up, late, on that value and under that
\* fence still, and lock() is refused its row for as long as such a write may land.
THEOREM RefinesContract == Spec => ImplementsContract
  <1>1. Init => IInv /\ Contract!Init
    BY InitIInv, InitImpl
  <1>2. IInv /\ [Next]_vars => IInv' /\ [Contract!Next]_Contract!vars
    BY NextIInv, NextImpl
  <1> QED
    BY <1>1, <1>2, PTL DEF Spec, ImplementsContract, Contract!Spec

=============================================================================
