--------------------------- MODULE McpServer_proofs ---------------------------
(***************************************************************************)
(* Proofs about McpServer, for any servers, registries and bodies.  Most   *)
(* messages are answered at once and touch one server's flags only; a      *)
(* write keeps its arguments and has stored nothing until the step that    *)
(* answers it.  Leases are distinct, and the entry of a lease is in the    *)
(* registry of its holder.                                                 *)
(***************************************************************************)
EXTENDS McpServer, TLAPS

AtWork == {"create", "lock", "persist"}

\* A write that is not answered yet has its body and has stored nothing.
WriteOK(s) == pc[s] \in AtWork => request[s].body \in Bodies /\ ~stored[s]

\* The flags are behind what the client has sent ...
HandshakeOK(s) ==
    /\ initialized[s] => handshake[s] \in Completed
    /\ awaiting[s] => handshake[s] \in {"offered", "reoffered"}

\* ... and so is every tool that runs or was served.
ServedOK(s) ==
    pc[s] # "idle" \/ (request[s].method \in Tools /\ answer[s].kind = "result")
    => handshake[s] \in Completed

HonestOK(s) ==
    /\ answer[s].kind = "result" /\ ~answer[s].isError
    /\ request[s].method \in {"create", "update"}
    => (answer[s].status = "OK" <=> stored[s])

\* Fences are handed out once, and entered in the registry of their holder.
LeasesOK ==
    /\ \A s \in Servers : lease[s] <= fence
    /\ \A r \in Registries : registry[r] <= fence
    /\ \A s, t \in Servers : lease[s] # NoLock /\ lease[s] = lease[t] => s = t
    /\ \A s \in Servers, r \in Registries :
          lease[s] # NoLock /\ registry[r] = lease[s] => r = RegistryOf[s]
    /\ LeasesAreReleased

IInv ==
    /\ TypeOK
    /\ \A s \in Servers : WriteOK(s) /\ HandshakeOK(s) /\ HonestOK(s)
    /\ LeasesOK

LEMMA InvImplies == IInv => TypeOK /\ UnflaggedIsHonest /\ LeasesAreReleased
  BY DEF IInv, HonestOK, LeasesOK, UnflaggedIsHonest

-----------------------------------------------------------------------------
(***************************************************************************)
(* Requests and answers.                                                   *)
(***************************************************************************)
LEMMA AnswerTypes ==
    /\ NoAnswer \in Answer /\ RpcError \in Answer /\ RpcResult \in Answer
    /\ \A status \in {"OK", "STALE", "EXISTS", "ERROR"} :
          /\ ToolResult(status) \in Answer
          /\ ToolResult(status).kind = "result"
          /\ ToolResult(status).status = status
          /\ ToolResult(status).isError <=> status = "ERROR"
  BY DEF NoAnswer, RpcError, RpcResult, ToolResult, Answer

LEMMA ReadType == ASSUME NEW failed \in BOOLEAN
                  PROVE  [RpcResult EXCEPT !.isError = failed] \in Answer
  <1>1. [RpcResult EXCEPT !.isError = failed]
          = [kind |-> "result", status |-> "none", isError |-> failed]
    BY DEF RpcResult
  <1> QED
    BY <1>1 DEF Answer

LEMMA NoRequestType == NoRequest \in Request
  BY DEF NoRequest, Request, Methods

\* A request whose arguments are dropped is a request for the same method.
LEMMA DroppedType ==
    ASSUME NEW r \in Request
    PROVE  /\ [r EXCEPT !.body = None, !.expected = None] \in Request
           /\ [r EXCEPT !.body = None, !.expected = None].method = r.method
  <1> DEFINE x1 == [r EXCEPT !.body = None]
             x  == [x1 EXCEPT !.expected = None]
             R  == [method: Methods, form: {"valid", "malformed", "bad", "refused"},
                    hasId: BOOLEAN, body: Bodies \cup {None}, expected: Bodies \cup {None}]
  <1>1. x = [r EXCEPT !.body = None, !.expected = None]
    OBVIOUS
  <1>2. r \in R /\ (r.form = "malformed" => r.method = "ping")
        /\ (r.form = "bad" => r.method = "update")
        /\ (r.form = "refused" => r.method \in {"create", "update"})
    BY DEF Request
  <1>3. x1 \in R /\ x1.body = None /\ x1.form = r.form /\ x1.method = r.method
    BY <1>2
  <1> HIDE DEF x1
  <1>4. x \in R /\ x.body = None /\ x.expected = None /\ x.form = r.form /\ x.method = r.method
    BY <1>3
  <1> HIDE DEF x
  <1>5. x \in Request
    BY <1>2, <1>4 DEF Request
  <1> QED
    BY <1>1, <1>4, <1>5

\* An answer that is given: nothing, or the response.
LEMMA RespondType ==
    ASSUME TypeOK, NEW s \in Servers, NEW r, NEW x \in Answer, Respond(s, r, x)
    PROVE  \E a \in {x, NoAnswer} : a \in Answer /\ answer' = [answer EXCEPT ![s] = a]
  BY AnswerTypes DEF Respond

-----------------------------------------------------------------------------
(***************************************************************************)
(* What the steps do.                                                      *)
(***************************************************************************)
\* A message that is answered at once: nothing is stored, and what it is
\* answered is true of a write.
AtOnce(s) ==
    /\ UNCHANGED <<store, pc, lease, orphaned>>
    /\ \E r \in Request, a \in Answer :
          /\ Arrives(s, r)
          /\ answer' = [answer EXCEPT ![s] = a]
          /\ r.method \in {"create", "update"} => a.kind # "result" \/ a.isError

Handshake(s) ==
    \/ UNCHANGED flags
    \/ /\ awaiting' = [awaiting EXCEPT ![s] = TRUE]
       /\ handshake' = [handshake EXCEPT ![s] = AfterInitialize(handshake[s])]
       /\ UNCHANGED initialized
    \/ /\ initialized' = [initialized EXCEPT ![s] = initialized[s] \/ awaiting[s]]
       /\ awaiting' = [awaiting EXCEPT ![s] = FALSE]
       /\ handshake' = [handshake EXCEPT ![s] = AfterInitialized(handshake[s])]
    \/ /\ initialized' = [initialized EXCEPT ![s] = FALSE]
       /\ awaiting' = [awaiting EXCEPT ![s] = FALSE]
       /\ handshake' = [handshake EXCEPT ![s] = "none"]

LEMMA AnsweredAtOnce ==
    ASSUME IInv, NEW s \in Servers,
           \/ Malformed(s) \/ Initialize(s) \/ Initialized(s) \/ Plain(s)
           \/ CallRejected(s) \/ CallRead(s) \/ CallRefused(s)
    PROVE  AtOnce(s) /\ Handshake(s)
  <1> USE AnswerTypes
  <1>0. TypeOK
    BY DEF IInv
  <1>1. CASE Malformed(s)
    <2>1. PICK r \in Request : /\ r.form = "malformed" /\ Arrives(s, r) /\ Respond(s, r, RpcError)
                               /\ UNCHANGED <<store, flags, pc, lease, orphaned>>
      BY <1>1 DEF Malformed
    <2>2. r.method = "ping"
      BY <2>1 DEF Request
    <2> QED
      BY <1>0, <2>1, <2>2, RespondType DEF AtOnce, Handshake
  <1>2. CASE Initialize(s)
    BY <1>0, <1>2, RespondType DEF Initialize, AtOnce, Handshake
  <1>3. CASE Initialized(s)
    <2>1. PICK r \in Request : /\ r.method = "initialized" /\ Arrives(s, r)
                               /\ answer' = [answer EXCEPT ![s] = NoAnswer]
                               /\ UNCHANGED <<store, pc, lease, orphaned>>
      BY <1>3 DEF Initialized
    <2>2. AtOnce(s)
      BY <2>1 DEF AtOnce
    <2>3. Handshake(s)
      BY <1>0, <1>3 DEF Initialized, Handshake, TypeOK
    <2> QED
      BY <2>2, <2>3
  <1>4. CASE Plain(s)
    <2>1. PICK r \in Request : /\ r.method \in {"ping", "unknown"} /\ Arrives(s, r)
                               /\ Respond(s, r, IF r.method = "ping" THEN RpcResult ELSE RpcError)
                               /\ UNCHANGED <<store, flags, pc, lease, orphaned>>
      BY <1>4 DEF Plain
    <2> DEFINE x == IF r.method = "ping" THEN RpcResult ELSE RpcError
    <2>2. x \in Answer
      OBVIOUS
    <2> HIDE DEF x
    <2>3. PICK a \in Answer : answer' = [answer EXCEPT ![s] = a]
      BY <1>0, <2>1, <2>2, RespondType DEF x
    <2> QED
      BY <2>1, <2>3 DEF AtOnce, Handshake
  <1>5. CASE CallRejected(s)
    <2>1. PICK r \in Request : /\ Arrives(s, r) /\ Respond(s, r, RpcError)
                               /\ UNCHANGED <<store, flags, pc, lease, orphaned>>
      BY <1>5 DEF CallRejected
    <2>2. PICK a \in {RpcError, NoAnswer} : answer' = [answer EXCEPT ![s] = a]
      BY <1>0, <2>1, RespondType
    <2>3. a \in Answer /\ a.kind # "result"
      BY DEF RpcError, NoAnswer, Answer
    <2> QED
      BY <2>1, <2>2, <2>3 DEF AtOnce, Handshake
  <1>6. CASE CallRead(s)
    <2>1. PICK r \in Request, failed \in BOOLEAN :
               /\ r.method = "read" /\ Arrives(s, r)
               /\ Respond(s, r, [RpcResult EXCEPT !.isError = failed])
               /\ UNCHANGED <<store, flags, pc, lease, orphaned>>
      BY <1>6 DEF CallRead
    <2> DEFINE x == [RpcResult EXCEPT !.isError = failed]
    <2>2. x \in Answer
      BY ReadType
    <2> HIDE DEF x
    <2>3. PICK a \in Answer : answer' = [answer EXCEPT ![s] = a]
      BY <1>0, <2>1, <2>2, RespondType DEF x
    <2> QED
      BY <2>1, <2>3 DEF AtOnce, Handshake
  <1>7. CASE CallRefused(s)
    <2>1. PICK r \in Request : /\ Arrives(s, r) /\ Respond(s, r, ToolResult("ERROR"))
                               /\ UNCHANGED <<store, flags, pc, lease, orphaned>>
      BY <1>7 DEF CallRefused
    <2>2. PICK a \in {ToolResult("ERROR"), NoAnswer} : answer' = [answer EXCEPT ![s] = a]
      BY <1>0, <2>1, RespondType
    <2>3. a \in Answer /\ (a.kind # "result" \/ a.isError)
      <3>1. NoAnswer.kind # "result"
        BY DEF NoAnswer
      <3> QED
        BY <3>1
    <2> QED
      BY <2>1, <2>2, <2>3 DEF AtOnce, Handshake
  <1> QED
    BY <1>1, <1>2, <1>3, <1>4, <1>5, <1>6, <1>7

\* A write that ends is answered with the truth, and loses its arguments.
Told(s) ==
    \E a \in Answer : /\ answer' = [answer EXCEPT ![s] = a]
                      /\ a.kind = "result" /\ ~a.isError => (a.status = "OK" <=> stored'[s])

LEMMA StatusIsTold ==
    ASSUME IInv, NEW s \in Servers, NEW status \in {"OK", "STALE", "EXISTS", "ERROR"},
           Respond(s, request[s], ToolResult(status)),
           status # "ERROR" => (status = "OK" <=> stored'[s])
    PROVE  Told(s)
  <1>1. PICK a \in {ToolResult(status), NoAnswer} : a \in Answer
                                                    /\ answer' = [answer EXCEPT ![s] = a]
    BY AnswerTypes, RespondType DEF IInv
  <1>2. CASE a = NoAnswer
    BY <1>1, <1>2 DEF Told, NoAnswer
  <1>3. CASE a = ToolResult(status)
    BY <1>1, <1>3, AnswerTypes DEF Told
  <1> QED
    BY <1>1, <1>2, <1>3

\* The body a write stores, if it does.
Stores(s) ==
    /\ value' \in Bodies \cup {Absent}
    /\ \E b \in BOOLEAN : stored' = [stored EXCEPT ![s] = b]

LEMMA Storing ==
    ASSUME IInv, NEW s \in Servers, pc[s] \in AtWork, NEW status,
           Applied(s, status) \/ NotApplied(s, status)
    PROVE  Stores(s) /\ (status # "ERROR" => (status = "OK" <=> stored'[s]))
  <1>1. request[s].body \in Bodies /\ stored \in [Servers -> BOOLEAN]
        /\ value \in Bodies \cup {Absent}
    BY DEF IInv, WriteOK, TypeOK
  <1>2. stored' = [stored EXCEPT ![s] = stored[s]] \/ stored' = [stored EXCEPT ![s] = TRUE]
    BY <1>1 DEF Applied, NotApplied
  <1> QED
    BY <1>1, <1>2 DEF Stores, Applied, NotApplied, Body

LEMMA CreateTells ==
    ASSUME IInv, NEW s \in Servers, Create(s)
    PROVE  Stores(s) /\ Told(s)
  <1>1. PICK status \in {"OK", "EXISTS", "ERROR"} :
           /\ pc[s] = "create"
           /\ \/ value = Absent /\ Applied(s, status)
              \/ NotApplied(s, status)
              \/ status = "OK" /\ stored' = [stored EXCEPT ![s] = TRUE] /\ UNCHANGED value
              \/ status = "EXISTS" /\ UNCHANGED <<value, stored>>
           /\ Respond(s, request[s], ToolResult(status))
    BY DEF Create
  <1>2. /\ pc[s] \in AtWork /\ ~stored[s] /\ stored \in [Servers -> BOOLEAN]
        /\ value \in Bodies \cup {Absent}
    BY <1>1 DEF IInv, WriteOK, TypeOK, AtWork
  <1>3. Stores(s) /\ (status # "ERROR" => (status = "OK" <=> stored'[s]))
    <2>1. CASE Applied(s, status) \/ NotApplied(s, status)
      BY <1>2, <2>1, Storing
    <2>2. CASE status = "OK" /\ stored' = [stored EXCEPT ![s] = TRUE] /\ UNCHANGED value
      BY <1>2, <2>2 DEF Stores
    <2>3. CASE status = "EXISTS" /\ UNCHANGED <<value, stored>>
      <3>1. stored' = [stored EXCEPT ![s] = FALSE]
        BY <1>2, <2>3
      <3> QED
        BY <1>2, <2>3, <3>1 DEF Stores
    <2> QED
      BY <1>1, <2>1, <2>2, <2>3
  <1> QED
    BY <1>1, <1>3, StatusIsTold

LEMMA PersistTells ==
    ASSUME IInv, NEW s \in Servers, Persist(s)
    PROVE  Stores(s) /\ Told(s)
  <1>1. PICK status \in {"OK", "STALE", "ERROR"} :
           /\ pc[s] = "persist"
           /\ \/ Applied(s, status)
              \/ NotApplied(s, status)
              \/ status = "STALE" /\ UNCHANGED <<value, stored>>
           /\ Respond(s, request[s], ToolResult(status))
    BY DEF Persist
  <1>2. /\ pc[s] \in AtWork /\ ~stored[s] /\ stored \in [Servers -> BOOLEAN]
        /\ value \in Bodies \cup {Absent}
    BY <1>1 DEF IInv, WriteOK, TypeOK, AtWork
  <1>3. Stores(s) /\ (status # "ERROR" => (status = "OK" <=> stored'[s]))
    <2>1. CASE Applied(s, status) \/ NotApplied(s, status)
      BY <1>2, <2>1, Storing
    <2>2. CASE status = "STALE" /\ UNCHANGED <<value, stored>>
      <3>1. stored' = [stored EXCEPT ![s] = FALSE]
        BY <1>2, <2>2
      <3> QED
        BY <1>2, <2>2, <3>1 DEF Stores
    <2> QED
      BY <1>1, <2>1, <2>2
  <1> QED
    BY <1>1, <1>3, StatusIsTold

-----------------------------------------------------------------------------
(***************************************************************************)
(* The inductive step, action by action.                                   *)
(***************************************************************************)
Labels == {"idle", "create", "lock", "persist", "unlock"}

LEMMA InitIInv == Init => IInv
  <1> SUFFICES ASSUME Init PROVE IInv
    OBVIOUS
  <1>1. TypeOK
    BY AnswerTypes, NoRequestType DEF Init, TypeOK, NoLock, Handshakes
  <1>2. ASSUME NEW s \in Servers PROVE WriteOK(s) /\ HandshakeOK(s) /\ HonestOK(s)
    BY DEF Init, WriteOK, HandshakeOK, HonestOK, AtWork, NoRequest, NoAnswer
  <1>3. LeasesOK
    BY DEF Init, LeasesOK, LeasesAreReleased, Live, NoLock
  <1> QED
    BY <1>1, <1>2, <1>3 DEF IInv

\* The handshake flags.
LEMMA HandshakeTypes ==
    ASSUME NEW h \in Handshakes
    PROVE  /\ AfterInitialize(h) \in {"offered", "reoffered"}
           /\ AfterInitialize(h) \in Handshakes /\ AfterInitialized(h) \in Handshakes
           /\ h \in Completed
                => AfterInitialize(h) \in Completed /\ AfterInitialized(h) \in Completed
           /\ h # "none" => AfterInitialized(h) \in Completed
  BY DEF Handshakes, Completed, AfterInitialize, AfterInitialized

LEMMA HandshakeStep ==
    ASSUME IInv, NEW s \in Servers, Handshake(s)
    PROVE  /\ initialized' \in [Servers -> BOOLEAN] /\ awaiting' \in [Servers -> BOOLEAN]
           /\ handshake' \in [Servers -> Handshakes]
           /\ \A t \in Servers : HandshakeOK(t)'
  <1>1. /\ initialized \in [Servers -> BOOLEAN] /\ awaiting \in [Servers -> BOOLEAN]
        /\ handshake \in [Servers -> Handshakes]
        /\ \A t \in Servers : HandshakeOK(t)
    BY DEF IInv, TypeOK
  <1>2. CASE UNCHANGED flags
    BY <1>1, <1>2 DEF flags, HandshakeOK
  <1>3. CASE /\ awaiting' = [awaiting EXCEPT ![s] = TRUE]
             /\ handshake' = [handshake EXCEPT ![s] = AfterInitialize(handshake[s])]
             /\ UNCHANGED initialized
    BY <1>1, <1>3, HandshakeTypes DEF HandshakeOK
  <1>4. CASE /\ initialized' = [initialized EXCEPT ![s] = initialized[s] \/ awaiting[s]]
             /\ awaiting' = [awaiting EXCEPT ![s] = FALSE]
             /\ handshake' = [handshake EXCEPT ![s] = AfterInitialized(handshake[s])]
    <2>1. /\ (initialized[s] \/ awaiting[s]) \in BOOLEAN
          /\ AfterInitialized(handshake[s]) \in Handshakes
      BY <1>1, HandshakeTypes
    <2>2. ASSUME NEW t \in Servers PROVE HandshakeOK(t)'
      <3>1. CASE t = s
        <4>1. initialized[s] \/ awaiting[s] => handshake[s] # "none"
          BY <1>1 DEF HandshakeOK, Completed
        <4> QED
          BY <1>1, <1>4, <3>1, <4>1, HandshakeTypes DEF HandshakeOK
      <3>2. CASE t # s
        BY <1>1, <1>4, <3>2 DEF HandshakeOK
      <3> QED
        BY <3>1, <3>2
    <2> QED
      BY <1>1, <1>4, <2>1, <2>2
  <1>5. CASE /\ initialized' = [initialized EXCEPT ![s] = FALSE]
             /\ awaiting' = [awaiting EXCEPT ![s] = FALSE]
             /\ handshake' = [handshake EXCEPT ![s] = "none"]
    BY <1>1, <1>5 DEF HandshakeOK, Handshakes
  <1> QED
    BY <1>2, <1>3, <1>4, <1>5 DEF Handshake

\* A step of one server: it goes to p with message r, answer a, lease l, and
\* the body is stored or not.
LEMMA ServerStep ==
    ASSUME IInv, NEW s \in Servers, NEW p \in Labels, NEW r \in Request, NEW a \in Answer,
           NEW b \in BOOLEAN, NEW l \in Nat,
           pc' = [pc EXCEPT ![s] = p], request' = [request EXCEPT ![s] = r],
           answer' = [answer EXCEPT ![s] = a], stored' = [stored EXCEPT ![s] = b],
           lease' = [lease EXCEPT ![s] = l], Handshake(s),
           p \in AtWork => r.body \in Bodies /\ ~b,
           a.kind = "result" /\ ~a.isError /\ r.method \in {"create", "update"}
             => (a.status = "OK" <=> b),
           l # NoLock <=> p \in {"persist", "unlock"},
           value' \in Bodies \cup {Absent}, fence' \in Nat, expired' \subseteq Nat,
           orphaned' \subseteq Nat, registry' \in [Registries -> Nat],
           LeasesOK'
    PROVE  IInv'
  <1>1. /\ pc \in [Servers -> Labels] /\ request \in [Servers -> Request]
        /\ answer \in [Servers -> Answer] /\ stored \in [Servers -> BOOLEAN]
        /\ lease \in [Servers -> Nat]
        /\ \A t \in Servers : /\ lease[t] # NoLock <=> pc[t] \in {"persist", "unlock"}
                              /\ WriteOK(t) /\ HonestOK(t)
    BY DEF IInv, TypeOK, Labels
  <1>2. /\ pc' \in [Servers -> Labels] /\ request' \in [Servers -> Request]
        /\ answer' \in [Servers -> Answer] /\ stored' \in [Servers -> BOOLEAN]
        /\ lease' \in [Servers -> Nat]
    BY <1>1
  <1>3. ASSUME NEW t \in Servers
        PROVE  /\ lease'[t] # NoLock <=> pc'[t] \in {"persist", "unlock"}
               /\ WriteOK(t)' /\ HonestOK(t)'
    <2>1. CASE t = s
      BY <1>1, <2>1 DEF WriteOK, HonestOK
    <2>2. CASE t # s
      <3>1. /\ pc'[t] = pc[t] /\ request'[t] = request[t] /\ answer'[t] = answer[t]
            /\ stored'[t] = stored[t] /\ lease'[t] = lease[t]
        BY <1>1, <2>2
      <3> QED
        BY <1>1, <3>1 DEF WriteOK, HonestOK
    <2> QED
      BY <2>1, <2>2
  <1>4. TypeOK'
    BY <1>2, <1>3, HandshakeStep DEF TypeOK, Labels
  <1> QED
    BY <1>3, <1>4, HandshakeStep DEF IInv

\* A step that changes nothing about leases.
LEMMA LeasesUnmoved ==
    ASSUME IInv, UNCHANGED <<fence, expired, registry, lease, orphaned>>
    PROVE  LeasesOK' /\ fence' \in Nat /\ expired' \subseteq Nat /\ orphaned' \subseteq Nat
           /\ registry' \in [Registries -> Nat] /\ lease' \in [Servers -> Nat]
  BY DEF IInv, TypeOK, LeasesOK, LeasesAreReleased, Live

\* What a server has does not change unless a step changes it.
LEMMA Same ==
    ASSUME IInv, NEW s \in Servers
    PROVE  /\ pc[s] \in Labels /\ request[s] \in Request /\ answer[s] \in Answer
           /\ stored[s] \in BOOLEAN /\ lease[s] \in Nat
           /\ pc = [pc EXCEPT ![s] = pc[s]] /\ request = [request EXCEPT ![s] = request[s]]
           /\ answer = [answer EXCEPT ![s] = answer[s]]
           /\ stored = [stored EXCEPT ![s] = stored[s]]
           /\ lease = [lease EXCEPT ![s] = lease[s]]
           /\ value \in Bodies \cup {Absent} /\ fence \in Nat /\ expired \subseteq Nat
           /\ orphaned \subseteq Nat /\ registry \in [Registries -> Nat]
           /\ WriteOK(s) /\ HonestOK(s)
           /\ lease[s] # NoLock <=> pc[s] \in {"persist", "unlock"}
           /\ UNCHANGED flags => Handshake(s)
  BY DEF IInv, TypeOK, Labels, Handshake

\* The arguments of a write that returns are dropped.
LEMMA ReturnType ==
    ASSUME IInv, NEW s \in Servers, Return(s)
    PROVE  /\ pc' = [pc EXCEPT ![s] = "idle"]
           /\ \E r \in Request : /\ r.method = request[s].method
                                 /\ request' = [request EXCEPT ![s] = r]
  BY DroppedType, Same DEF Return, Goto

LEMMA AtOnceStep ==
    ASSUME IInv, NEW s \in Servers, AtOnce(s), Handshake(s)
    PROVE  IInv'
  <1>1. PICK r \in Request, a \in Answer :
            /\ Arrives(s, r)
            /\ answer' = [answer EXCEPT ![s] = a]
            /\ r.method \in {"create", "update"} => a.kind # "result" \/ a.isError
    BY DEF AtOnce
  <1>2. /\ pc[s] = "idle" /\ request' = [request EXCEPT ![s] = r]
        /\ stored' = [stored EXCEPT ![s] = FALSE] /\ UNCHANGED <<store, pc, lease, orphaned>>
    BY <1>1 DEF Arrives, AtOnce
  <1>3. pc[s] \notin AtWork
    BY <1>2 DEF AtWork
  <1>4. pc' = [pc EXCEPT ![s] = pc[s]] /\ lease' = [lease EXCEPT ![s] = lease[s]]
        /\ UNCHANGED <<fence, expired, registry, lease, orphaned>> /\ UNCHANGED value
    BY <1>2, Same DEF store
  <1>5. value' \in Bodies \cup {Absent}
    BY <1>4, Same
  <1>6. ~FALSE /\ FALSE \in BOOLEAN
    OBVIOUS
  <1> QED
    BY <1>1, <1>2, <1>3, <1>4, <1>5, Same, LeasesUnmoved, ServerStep

LEMMA CallWriteStep == ASSUME IInv, NEW s \in Servers, CallWrite(s) PROVE IInv'
  <1>1. PICK r \in Request :
            /\ r \in Write /\ Arrives(s, r)
            /\ Goto(s, IF r.method = "update" THEN "lock" ELSE "create")
            /\ answer' = [answer EXCEPT ![s] = NoAnswer]
            /\ UNCHANGED <<store, flags, lease, orphaned>>
    BY DEF CallWrite
  <1> DEFINE p == IF r.method = "update" THEN "lock" ELSE "create"
  <1>2. p \in {"lock", "create"} /\ pc' = [pc EXCEPT ![s] = p]
    BY <1>1 DEF Goto
  <1> HIDE DEF p
  <1>3. r.body \in Bodies
    BY <1>1 DEF Write, Request
  <1>4. /\ pc[s] = "idle" /\ request' = [request EXCEPT ![s] = r]
        /\ stored' = [stored EXCEPT ![s] = FALSE]
    BY <1>1 DEF Arrives
  <1>5. lease' = [lease EXCEPT ![s] = lease[s]] /\ lease[s] = NoLock /\ Handshake(s)
        /\ UNCHANGED <<fence, expired, registry, lease, orphaned>> /\ UNCHANGED value
    BY <1>1, <1>4, Same DEF store
  <1>6. NoAnswer \in Answer /\ NoAnswer.kind # "result"
    BY AnswerTypes DEF NoAnswer
  <1>7. p \in Labels /\ p \notin {"persist", "unlock"}
    BY <1>2 DEF Labels
  <1> QED
    BY <1>1, <1>2, <1>3, <1>4, <1>5, <1>6, <1>7, Same, LeasesUnmoved, ServerStep

LEMMA CreateStep == ASSUME IInv, NEW s \in Servers, Create(s) PROVE IInv'
  <1>1. /\ pc[s] = "create" /\ Return(s)
        /\ UNCHANGED <<fence, expired, registry, flags, lease, orphaned>>
    BY DEF Create
  <1>2. PICK r \in Request : request' = [request EXCEPT ![s] = r]
    BY <1>1, ReturnType
  <1>3. PICK b \in BOOLEAN : stored' = [stored EXCEPT ![s] = b]
    BY CreateTells DEF Stores
  <1>4. PICK a \in Answer : /\ answer' = [answer EXCEPT ![s] = a]
                            /\ a.kind = "result" /\ ~a.isError => (a.status = "OK" <=> stored'[s])
    BY CreateTells DEF Told
  <1>5. stored'[s] = b /\ value' \in Bodies \cup {Absent}
    BY <1>3, CreateTells DEF Stores, IInv, TypeOK
  <1>6. lease' = [lease EXCEPT ![s] = lease[s]] /\ lease[s] = NoLock /\ Handshake(s)
    BY <1>1, Same
  <1>7. "idle" \in Labels \ AtWork /\ "idle" \notin {"persist", "unlock"}
    BY DEF Labels, AtWork
  <1>8. a.kind = "result" /\ ~a.isError /\ r.method \in {"create", "update"}
          => (a.status = "OK" <=> b)
    BY <1>4, <1>5
  <1>9. pc' = [pc EXCEPT ![s] = "idle"] /\ lease[s] \in Nat
    BY <1>1, ReturnType, Same
  <1>10. /\ LeasesOK' /\ fence' \in Nat /\ expired' \subseteq Nat /\ orphaned' \subseteq Nat
         /\ registry' \in [Registries -> Nat]
    BY <1>1, LeasesUnmoved
  <1> QED
    BY <1>2, <1>3, <1>4, <1>5, <1>6, <1>7, <1>8, <1>9, <1>10, ServerStep

LEMMA LockFailsStep == ASSUME IInv, NEW s \in Servers, LockFails(s) PROVE IInv'
  <1>1. /\ pc[s] = "lock" /\ Return(s) /\ Respond(s, request[s], ToolResult("ERROR"))
        /\ UNCHANGED <<store, flags, lease, stored, orphaned>>
    BY DEF LockFails
  <1>2. PICK r \in Request : request' = [request EXCEPT ![s] = r]
    BY <1>1, ReturnType
  <1>3. PICK a \in {ToolResult("ERROR"), NoAnswer} : a \in Answer
                                                     /\ answer' = [answer EXCEPT ![s] = a]
    BY <1>1, AnswerTypes, RespondType DEF IInv
  <1>4. ~(a.kind = "result" /\ ~a.isError)
    BY <1>3, AnswerTypes DEF NoAnswer
  <1>5. stored' = [stored EXCEPT ![s] = stored[s]]
        /\ lease' = [lease EXCEPT ![s] = lease[s]] /\ lease[s] = NoLock /\ Handshake(s)
        /\ UNCHANGED <<fence, expired, registry, lease, orphaned>> /\ UNCHANGED value
    BY <1>1, Same DEF store
  <1>6. "idle" \in Labels \ AtWork /\ "idle" \notin {"persist", "unlock"}
    BY DEF Labels, AtWork
  <1>7. value' \in Bodies \cup {Absent}
    BY <1>5, Same
  <1>8. pc' = [pc EXCEPT ![s] = "idle"] /\ lease[s] \in Nat /\ stored[s] \in BOOLEAN
    BY <1>1, ReturnType, Same
  <1>9. /\ LeasesOK' /\ fence' \in Nat /\ expired' \subseteq Nat /\ orphaned' \subseteq Nat
        /\ registry' \in [Registries -> Nat]
    BY <1>5, LeasesUnmoved
  <1>10. a.kind = "result" /\ ~a.isError /\ r.method \in {"create", "update"}
          => (a.status = "OK" <=> stored[s])
    BY <1>4
  <1>11. a \in Answer /\ answer' = [answer EXCEPT ![s] = a]
    BY <1>3
  <1> QED
    BY <1>2, <1>5, <1>6, <1>7, <1>8, <1>9, <1>10, <1>11, ServerStep

LEMMA PersistStep == ASSUME IInv, NEW s \in Servers, Persist(s) PROVE IInv'
  <1>1. /\ pc[s] = "persist" /\ pc' = [pc EXCEPT ![s] = "unlock"]
        /\ UNCHANGED <<fence, expired, registry, flags, request, lease, orphaned>>
    BY DEF Persist, Goto
  <1>2. PICK b \in BOOLEAN : stored' = [stored EXCEPT ![s] = b]
    BY PersistTells DEF Stores
  <1>3. PICK a \in Answer : /\ answer' = [answer EXCEPT ![s] = a]
                            /\ a.kind = "result" /\ ~a.isError => (a.status = "OK" <=> stored'[s])
    BY PersistTells DEF Told
  <1>4. stored'[s] = b /\ value' \in Bodies \cup {Absent}
    BY <1>2, PersistTells DEF Stores, IInv, TypeOK
  <1>5. lease' = [lease EXCEPT ![s] = lease[s]] /\ lease[s] # NoLock /\ Handshake(s)
        /\ request' = [request EXCEPT ![s] = request[s]]
    BY <1>1, Same
  <1>6. "unlock" \in Labels \ AtWork /\ "unlock" \in {"persist", "unlock"}
    BY DEF Labels, AtWork
  <1>7. a.kind = "result" /\ ~a.isError /\ request[s].method \in {"create", "update"}
          => (a.status = "OK" <=> b)
    BY <1>3, <1>4
  <1>8. lease[s] \in Nat /\ request[s] \in Request
    BY Same
  <1>9. /\ LeasesOK' /\ fence' \in Nat /\ expired' \subseteq Nat /\ orphaned' \subseteq Nat
        /\ registry' \in [Registries -> Nat]
    BY <1>1, LeasesUnmoved
  <1> QED
    BY <1>1, <1>2, <1>3, <1>4, <1>5, <1>6, <1>7, <1>8, <1>9, ServerStep

-----------------------------------------------------------------------------
\* A new fence is nobody else's; the entry it replaces was dead.
LEMMA LockGrantedStep == ASSUME IInv, NEW s \in Servers, LockGranted(s) PROVE IInv'
  <1> DEFINE q == RegistryOf[s]
  <1>1. /\ pc[s] = "lock" /\ ~Live(registry[q]) /\ fence' = fence + 1
        /\ registry' = [registry EXCEPT ![q] = fence + 1]
        /\ lease' = [lease EXCEPT ![s] = fence + 1]
        /\ pc' = [pc EXCEPT ![s] = "persist"]
        /\ UNCHANGED <<value, expired, flags, request, answer, stored, orphaned>>
    BY DEF LockGranted, Goto, Entry
  <1>2. /\ q \in Registries /\ lease[s] = NoLock /\ fence \in Nat
        /\ registry \in [Registries -> Nat] /\ lease \in [Servers -> Nat]
        /\ request[s].body \in Bodies /\ ~stored[s]
    BY <1>1, Same DEF Registries, WriteOK, AtWork, IInv, TypeOK
  <1>3. fence + 1 \in Nat /\ fence + 1 # NoLock
    BY <1>2 DEF NoLock
  <1>4. LeasesOK
    BY DEF IInv
  <1> HIDE DEF q
  <1>5. /\ \A t \in Servers : lease'[t] = IF t = s THEN fence + 1 ELSE lease[t]
        /\ \A r \in Registries : registry'[r] = IF r = q THEN fence + 1 ELSE registry[r]
        /\ \A t \in Servers : lease[t] <= fence /\ lease[t] \in Nat
        /\ \A r \in Registries : registry[r] <= fence /\ registry[r] \in Nat
    BY <1>1, <1>2, <1>4 DEF LeasesOK
  <1>6. LeasesOK'
    <2>1. \A t \in Servers : lease'[t] <= fence'
      BY <1>1, <1>2, <1>5
    <2>2. \A r \in Registries : registry'[r] <= fence'
      BY <1>1, <1>2, <1>5
    <2>3. ASSUME NEW t \in Servers, NEW u \in Servers, lease'[t] # NoLock,
                 lease'[t] = lease'[u]
          PROVE  t = u
      BY <1>2, <1>4, <1>5, <2>3 DEF LeasesOK
    <2>4. ASSUME NEW t \in Servers, NEW r \in Registries, lease'[t] # NoLock,
                 registry'[r] = lease'[t]
          PROVE  r = RegistryOf[t]
      BY <1>2, <1>4, <1>5, <2>4 DEF LeasesOK, q
    <2>5. LeasesAreReleased'
      <3>1. ASSUME NEW r \in Registries, Live(registry[r])'
            PROVE  registry'[r] \in orphaned' \cup {lease'[t] : t \in Servers}
        <4>1. CASE r = q
          BY <1>5, <4>1
        <4>2. CASE r # q
          <5>1. Live(registry[r]) /\ registry'[r] = registry[r]
            BY <1>1, <1>5, <3>1, <4>2 DEF Live
          <5>2. registry[r] \in orphaned \/ \E t \in Servers : registry[r] = lease[t]
            BY <1>4, <5>1 DEF LeasesOK, LeasesAreReleased
          <5>3. ASSUME NEW t \in Servers, registry[r] = lease[t] PROVE t # s
            BY <1>2, <5>1, <5>3 DEF Live
          <5> QED
            BY <1>1, <1>5, <5>1, <5>2, <5>3
        <4> QED
          BY <4>1, <4>2
      <3> QED
        BY <3>1 DEF LeasesAreReleased
    <2> QED
      BY <2>1, <2>2, <2>3, <2>4, <2>5 DEF LeasesOK
  <1>7. /\ fence' \in Nat /\ registry' \in [Registries -> Nat]
        /\ value' \in Bodies \cup {Absent} /\ expired' \subseteq Nat /\ orphaned' \subseteq Nat
    BY <1>1, <1>2, <1>3, Same
  <1>8. /\ request' = [request EXCEPT ![s] = request[s]]
        /\ answer' = [answer EXCEPT ![s] = answer[s]]
        /\ stored' = [stored EXCEPT ![s] = stored[s]] /\ Handshake(s)
    BY <1>1, Same
  <1>9. "persist" \in Labels /\ "persist" \in {"persist", "unlock"}
    BY DEF Labels
  <1>10. answer[s].kind = "result" /\ ~answer[s].isError
         /\ request[s].method \in {"create", "update"}
           => (answer[s].status = "OK" <=> stored[s])
    BY Same DEF HonestOK
  <1>11. request[s] \in Request /\ answer[s] \in Answer /\ stored[s] \in BOOLEAN
    BY Same
  <1> QED
    BY <1>1, <1>2, <1>3, <1>6, <1>7, <1>8, <1>9, <1>10, <1>11, ServerStep

\* A server drops its lease: its entry is cleared, or the lease is orphaned.
LEMMA Dropping ==
    ASSUME IInv, NEW s \in Servers, lease' = [lease EXCEPT ![s] = NoLock],
           UNCHANGED <<fence, expired>>,
           \/ /\ registry' = IF Entry(s) = lease[s]
                             THEN [registry EXCEPT ![RegistryOf[s]] = NoLock] ELSE registry
              /\ UNCHANGED orphaned
           \/ UNCHANGED registry /\ orphaned' = orphaned \cup ({lease[s]} \ {NoLock})
    PROVE  /\ LeasesOK' /\ fence' \in Nat /\ expired' \subseteq Nat /\ orphaned' \subseteq Nat
           /\ registry' \in [Registries -> Nat]
  <1> DEFINE q == RegistryOf[s]
  <1>1. /\ q \in Registries /\ fence \in Nat /\ expired \subseteq Nat /\ orphaned \subseteq Nat
        /\ registry \in [Registries -> Nat] /\ lease \in [Servers -> Nat] /\ lease[s] \in Nat
    BY DEF Registries, IInv, TypeOK
  <1>2. LeasesOK
    BY DEF IInv
  <1>3. /\ \A t \in Servers : lease'[t] = IF t = s THEN NoLock ELSE lease[t]
        /\ NoLock \in Nat /\ NoLock <= fence
    BY <1>1 DEF NoLock
  <1>4. /\ registry' \in [Registries -> Nat]
        /\ \A r \in Registries : registry'[r] = registry[r] \/ registry'[r] = NoLock
    BY <1>1, <1>3 DEF Entry
  <1>5. orphaned' \subseteq Nat /\ orphaned \subseteq orphaned'
    BY <1>1
  <1>6. /\ \A t \in Servers : lease'[t] <= fence'
        /\ \A r \in Registries : registry'[r] <= fence'
    BY <1>2, <1>3, <1>4 DEF LeasesOK
  <1>7. /\ \A t, u \in Servers : lease'[t] # NoLock /\ lease'[t] = lease'[u] => t = u
        /\ \A t \in Servers, r \in Registries :
              lease'[t] # NoLock /\ registry'[r] = lease'[t] => r = RegistryOf[t]
    BY <1>2, <1>3, <1>4 DEF LeasesOK
  <1>8. ASSUME NEW r \in Registries, Live(registry[r])'
        PROVE  registry'[r] \in orphaned' \cup {lease'[t] : t \in Servers}
    <2>1. registry'[r] = registry[r] /\ registry[r] # NoLock /\ Live(registry[r])
      BY <1>4, <1>8 DEF Live
    <2>2. registry[r] \in orphaned \/ \E t \in Servers : registry[r] = lease[t]
      BY <1>2, <2>1 DEF LeasesOK, LeasesAreReleased
    <2>3. ASSUME registry[r] = lease[s] PROVE registry[r] \in orphaned'
      <3>1. r = q
        BY <1>2, <2>1, <2>3 DEF LeasesOK
      <3>2. ~(registry' = [registry EXCEPT ![q] = NoLock])
        BY <1>1, <2>1, <3>1
      <3>3. orphaned' = orphaned \cup ({lease[s]} \ {NoLock})
        BY <2>3, <3>1, <3>2 DEF Entry
      <3> QED
        BY <2>1, <2>3, <3>3
    <2>4. ASSUME NEW t \in Servers, t # s, registry[r] = lease[t]
          PROVE  registry[r] \in {lease'[u] : u \in Servers}
      BY <1>3, <2>4
    <2> QED
      BY <1>5, <2>1, <2>2, <2>3, <2>4
  <1> QED
    BY <1>1, <1>4, <1>5, <1>6, <1>7, <1>8 DEF LeasesOK, LeasesAreReleased

LEMMA UnlockStep ==
    ASSUME IInv, NEW s \in Servers, Unlock(s) \/ UnlockFails(s)
    PROVE  IInv'
  <1>1. /\ pc[s] = "unlock" /\ Return(s) /\ lease' = [lease EXCEPT ![s] = NoLock]
        /\ UNCHANGED <<value, fence, expired, flags, answer, stored>>
    BY DEF Unlock, UnlockFails, store
  <1>2. PICK r \in Request : r.method = request[s].method /\ request' = [request EXCEPT ![s] = r]
    BY <1>1, ReturnType
  <1>3. lease[s] # NoLock
    BY <1>1, Same
  <1>4. /\ LeasesOK' /\ fence' \in Nat /\ expired' \subseteq Nat /\ orphaned' \subseteq Nat
        /\ registry' \in [Registries -> Nat]
    <2>1. CASE Unlock(s)
      BY <1>1, <2>1, Dropping DEF Unlock
    <2>2. CASE UnlockFails(s)
      <3>1. UNCHANGED registry /\ orphaned' = orphaned \cup ({lease[s]} \ {NoLock})
        BY <1>3, <2>2 DEF UnlockFails, store
      <3> QED
        BY <1>1, <3>1, Dropping
    <2> QED
      BY <2>1, <2>2
  <1>5. /\ answer' = [answer EXCEPT ![s] = answer[s]]
        /\ stored' = [stored EXCEPT ![s] = stored[s]] /\ Handshake(s)
        /\ value' \in Bodies \cup {Absent}
    BY <1>1, Same
  <1>6. "idle" \in Labels \ AtWork /\ "idle" \notin {"persist", "unlock"} /\ NoLock \in Nat
    BY DEF Labels, AtWork, NoLock
  <1>7. answer[s].kind = "result" /\ ~answer[s].isError
        /\ r.method \in {"create", "update"}
          => (answer[s].status = "OK" <=> stored[s])
    BY <1>2, Same DEF HonestOK
  <1>8. /\ answer[s] \in Answer /\ stored[s] \in BOOLEAN /\ pc' = [pc EXCEPT ![s] = "idle"]
    BY <1>1, ReturnType, Same
  <1> QED
    BY <1>1, <1>2, <1>4, <1>5, <1>6, <1>7, <1>8, ServerStep

LEMMA RestartStep == ASSUME IInv, NEW s \in Servers, Restart(s) PROVE IInv'
  <1>1. /\ pc' = [pc EXCEPT ![s] = "idle"] /\ request' = [request EXCEPT ![s] = NoRequest]
        /\ lease' = [lease EXCEPT ![s] = NoLock] /\ answer' = [answer EXCEPT ![s] = NoAnswer]
        /\ stored' = [stored EXCEPT ![s] = FALSE]
        /\ orphaned' = orphaned \cup ({lease[s]} \ {NoLock})
        /\ UNCHANGED <<value, fence, expired, registry>> /\ Handshake(s)
    BY DEF Restart, Handshake, store
  <1>2. /\ NoRequest \in Request /\ NoAnswer \in Answer /\ NoAnswer.kind # "result"
        /\ "idle" \in Labels \ AtWork /\ "idle" \notin {"persist", "unlock"} /\ NoLock \in Nat
    BY AnswerTypes, NoRequestType DEF NoAnswer, Labels, AtWork, NoLock
  <1>3. /\ LeasesOK' /\ fence' \in Nat /\ expired' \subseteq Nat /\ orphaned' \subseteq Nat
        /\ registry' \in [Registries -> Nat]
    BY <1>1, Dropping
  <1>4. value' \in Bodies \cup {Absent}
    BY <1>1, Same
  <1> QED
    BY <1>1, <1>2, <1>3, <1>4, ServerStep

LEMMA ExpireStep == ASSUME IInv, Expire PROVE IInv'
  <1>1. /\ UNCHANGED <<value, fence, registry, flags, pc, request, lease, answer, stored, orphaned>>
        /\ \E f \in 1..fence : expired' = expired \cup {f}
    BY DEF Expire
  <1>2. TypeOK'
    BY <1>1 DEF IInv, TypeOK, flags
  <1>3. \A s \in Servers : WriteOK(s)' /\ HandshakeOK(s)' /\ HonestOK(s)'
    BY <1>1 DEF IInv, WriteOK, HandshakeOK, HonestOK, flags
  <1>4. LeasesOK'
    BY <1>1 DEF IInv, LeasesOK, LeasesAreReleased, Live
  <1> QED
    BY <1>2, <1>3, <1>4 DEF IInv

LEMMA Unchanged == ASSUME IInv, UNCHANGED vars PROVE IInv'
  BY DEF IInv, TypeOK, WriteOK, HandshakeOK, HonestOK, LeasesOK, LeasesAreReleased, Live, vars,
         store, flags

LEMMA NextIInv == IInv /\ [Next]_vars => IInv'
  <1> SUFFICES ASSUME IInv, [Next]_vars PROVE IInv'
    OBVIOUS
  <1>1. ASSUME NEW s \in Servers,
               \/ Malformed(s) \/ Initialize(s) \/ Initialized(s) \/ Plain(s)
               \/ CallRejected(s) \/ CallRead(s) \/ CallRefused(s)
        PROVE  IInv'
    BY <1>1, AnsweredAtOnce, AtOnceStep
  <1>2. ASSUME NEW s \in Servers,
               \/ CallWrite(s) \/ Create(s) \/ LockGranted(s) \/ LockFails(s) \/ Persist(s)
               \/ Unlock(s) \/ UnlockFails(s) \/ Restart(s)
        PROVE  IInv'
    BY <1>2, CallWriteStep, CreateStep, LockGrantedStep, LockFailsStep, PersistStep,
       UnlockStep, RestartStep
  <1> QED
    BY <1>1, <1>2, ExpireStep, Unchanged DEF Next

-----------------------------------------------------------------------------
(***************************************************************************)
(* The theorems.                                                           *)
(***************************************************************************)
\* handle() keeps what it knows of a write in progress, of the handshake and
\* of the leases, whatever the clients send and whichever servers die.
THEOREM InductiveInvariant == Spec => []IInv
  <1> QED
    BY InitIInv, NextIInv, PTL DEF Spec

\* Types: a server holds a lease only inside an update.
THEOREM TypeCorrect == Spec => []TypeOK
  <1> QED
    BY InductiveInvariant, InvImplies, PTL

\* What a server does to the handshake and to the tool it runs.
Serves(s) ==
    /\ UNCHANGED handshake
    /\ \A t \in Servers \ {s} : UNCHANGED <<pc[t], request[t], answer[t]>>
    /\ \/ handshake[s] \in Completed
       \/ pc'[s] = "idle" /\ (request'[s].method \notin Tools \/ answer'[s].kind # "result")

LEMMA ServesStep ==
    ASSUME NEW s \in Servers, Serves(s), \A t \in Servers : ServedOK(t)
    PROVE  \A t \in Servers : ServedOK(t)'
  BY DEF Serves, ServedOK

\* A message that does not reach a tool.
LEMMA MessageServes ==
    ASSUME IInv, NEW s \in Servers, Malformed(s) \/ Plain(s) \/ CallRejected(s)
    PROVE  Serves(s)
  <1>1. /\ request \in [Servers -> Request] /\ answer \in [Servers -> Answer]
        /\ pc \in [Servers -> Labels]
    BY DEF IInv, TypeOK, Labels
  <1>2. PICK r \in Request, x \in Answer :
           /\ Arrives(s, r) /\ Respond(s, r, x) /\ UNCHANGED <<flags, pc>>
           /\ r.method \notin Tools \/ x.kind # "result"
    <2>1. CASE Malformed(s)
      BY <2>1, AnswerTypes DEF Malformed, RpcError
    <2>2. CASE Plain(s)
      BY <2>2, AnswerTypes DEF Plain, Tools
    <2>3. CASE CallRejected(s)
      BY <2>3, AnswerTypes DEF CallRejected, RpcError
    <2> QED
      BY <2>1, <2>2, <2>3
  <1>3. PICK a \in {x, NoAnswer} : answer' = [answer EXCEPT ![s] = a]
    BY <1>2 DEF Respond
  <1>4. r.method \notin Tools \/ a.kind # "result"
    BY <1>2, <1>3 DEF NoAnswer
  <1> QED
    BY <1>1, <1>2, <1>3, <1>4 DEF Serves, Arrives, flags

\* A tool that is called.
LEMMA CallServes ==
    ASSUME IInv, NEW s \in Servers, CallRead(s) \/ CallRefused(s) \/ CallWrite(s)
    PROVE  Serves(s)
  <1>1. initialized[s] /\ UNCHANGED handshake
    BY DEF CallRead, CallRefused, CallWrite, flags
  <1>2. handshake[s] \in Completed
    BY <1>1 DEF IInv, HandshakeOK
  <1>3. ASSUME NEW t \in Servers \ {s} PROVE UNCHANGED <<pc[t], request[t], answer[t]>>
    BY DEF IInv, TypeOK, CallRead, CallRefused, CallWrite, Arrives, Respond, Goto
  <1> QED
    BY <1>1, <1>2, <1>3 DEF Serves

\* A write that goes on: it was let in.
LEMMA WriteServes ==
    ASSUME IInv, NEW s \in Servers, ServedOK(s),
           \/ Create(s) \/ LockGranted(s) \/ LockFails(s) \/ Persist(s)
           \/ Unlock(s) \/ UnlockFails(s)
    PROVE  Serves(s)
  <1>1. pc[s] # "idle" /\ UNCHANGED handshake
    BY DEF Create, LockGranted, LockFails, Persist, Unlock, UnlockFails, flags
  <1>2. handshake[s] \in Completed
    BY <1>1 DEF ServedOK
  <1>3. ASSUME NEW t \in Servers \ {s} PROVE UNCHANGED <<pc[t], request[t], answer[t]>>
    BY DEF IInv, TypeOK, Create, LockGranted, LockFails, Persist, Unlock, UnlockFails,
           Return, Respond, Goto
  <1> QED
    BY <1>1, <1>2, <1>3 DEF Serves

\* The handshake goes on, or starts again with a new process.
LEMMA HandshakeServes ==
    ASSUME IInv, NEW s \in Servers, Initialize(s) \/ Initialized(s) \/ Restart(s),
           \A t \in Servers : ServedOK(t)
    PROVE  \A t \in Servers : ServedOK(t)'
  <1>1. /\ request \in [Servers -> Request] /\ answer \in [Servers -> Answer]
        /\ pc \in [Servers -> Labels] /\ handshake \in [Servers -> Handshakes]
    BY DEF IInv, TypeOK, Labels
  <1>2. ASSUME NEW t \in Servers \ {s} PROVE ServedOK(t)'
    BY <1>1 DEF ServedOK, Initialize, Initialized, Restart, Arrives, Respond
  <1>3. ServedOK(s)'
    <2>1. CASE Initialize(s) \/ Initialized(s)
      <3>1. PICK r \in Request : r.method \notin Tools /\ Arrives(s, r) /\ UNCHANGED pc
        BY <2>1 DEF Initialize, Initialized, Tools
      <3>2. request'[s].method \notin Tools /\ pc'[s] = "idle"
        BY <1>1, <3>1 DEF Arrives
      <3> QED
        BY <3>2 DEF ServedOK
    <2>2. CASE Restart(s)
      <3>1. pc'[s] = "idle" /\ answer'[s] = NoAnswer
        BY <1>1, <2>2 DEF Restart
      <3> QED
        BY <3>1 DEF ServedOK, NoAnswer
    <2> QED
      BY <2>1, <2>2
  <1> QED
    BY <1>2, <1>3

LEMMA NextServed ==
    IInv /\ (\A s \in Servers : ServedOK(s)) /\ [Next]_vars => (\A s \in Servers : ServedOK(s))'
  <1> SUFFICES ASSUME IInv, \A s \in Servers : ServedOK(s), [Next]_vars
               PROVE  \A s \in Servers : ServedOK(s)'
    OBVIOUS
  <1>1. ASSUME NEW s \in Servers,
               \/ Malformed(s) \/ Plain(s) \/ CallRejected(s)
               \/ CallRead(s) \/ CallRefused(s) \/ CallWrite(s)
               \/ Create(s) \/ LockGranted(s) \/ LockFails(s) \/ Persist(s)
               \/ Unlock(s) \/ UnlockFails(s)
        PROVE  \A t \in Servers : ServedOK(t)'
    BY <1>1, MessageServes, CallServes, WriteServes, ServesStep
  <1>2. ASSUME NEW s \in Servers, Initialize(s) \/ Initialized(s) \/ Restart(s)
        PROVE  \A t \in Servers : ServedOK(t)'
    BY <1>2, HandshakeServes
  <1>3. CASE Expire \/ UNCHANGED vars
    BY <1>3 DEF Expire, vars, flags, ServedOK
  <1> QED
    BY <1>1, <1>2, <1>3 DEF Next

\* handle(), _handle_initialize(): a tool runs, or has been served, only in a
\* process whose client sent initialize and, after it, initialized.
THEOREM ToolsFollowTheHandshake == Spec => []NoToolBeforeHandshake
  <1>1. Init => \A s \in Servers : ServedOK(s)
    BY DEF Init, ServedOK, NoAnswer
  <1>2. (\A s \in Servers : ServedOK(s)) <=> NoToolBeforeHandshake
    BY DEF ServedOK, NoToolBeforeHandshake
  <1>3. IInv /\ NoToolBeforeHandshake /\ [Next]_vars => NoToolBeforeHandshake'
    BY <1>2, NextServed DEF ServedOK, NoToolBeforeHandshake
  <1> QED
    BY <1>1, <1>2, <1>3, InductiveInvariant, PTL DEF Spec

\* _tool_result(): a write answered without isError says what became of it.
THEOREM UnflaggedAnswersAreTrue == Spec => []UnflaggedIsHonest
  <1> QED
    BY InductiveInvariant, InvImplies, PTL

\* knokeep_write: a live entry has its holder inside the call, or an unlock()
\* that failed or a process that died behind it.
THEOREM NoLeaseOutlivesItsCall == Spec => []LeasesAreReleased
  <1> QED
    BY InductiveInvariant, InvImplies, PTL

-----------------------------------------------------------------------------
(***************************************************************************)
(* Servers that share a registry (a local store) do not overtake one       *)
(* another: a lease that is live has the fence allocated last.             *)
(***************************************************************************)
SharedRegistry == \A s, t \in Servers : RegistryOf[s] = RegistryOf[t]

HolderOK(s) ==
    lease[s] # NoLock /\ Live(lease[s])
    => lease[s] = fence /\ registry[RegistryOf[s]] = lease[s]

SharedOK == \A s \in Servers : HolderOK(s)

LEMMA SharedUnmoved ==
    ASSUME SharedOK, UNCHANGED <<fence, expired, registry, lease>>
    PROVE  SharedOK'
  BY DEF SharedOK, HolderOK, Live

\* lock() is granted only if no other lease is live.
LEMMA SharedGranted ==
    ASSUME SharedRegistry, IInv, SharedOK, NEW s \in Servers, LockGranted(s)
    PROVE  SharedOK'
  <1> DEFINE q == RegistryOf[s]
  <1>1. /\ ~Live(registry[q]) /\ fence' = fence + 1
        /\ registry' = [registry EXCEPT ![q] = fence + 1]
        /\ lease' = [lease EXCEPT ![s] = fence + 1] /\ UNCHANGED expired
    BY DEF LockGranted, Entry
  <1>2. q \in Registries /\ registry \in [Registries -> Nat] /\ lease \in [Servers -> Nat]
    BY DEF Registries, IInv, TypeOK
  <1>3. \A t \in Servers : RegistryOf[t] = q
    BY DEF SharedRegistry
  <1> HIDE DEF q
  <1>4. ASSUME NEW t \in Servers PROVE HolderOK(t)'
    <2>1. CASE t = s
      BY <1>1, <1>2, <1>3, <2>1 DEF HolderOK
    <2>2. CASE t # s
      <3>1. lease'[t] = lease[t] /\ Live(lease[t])' = Live(lease[t])
        BY <1>1, <1>2, <2>2 DEF Live
      <3>2. lease[t] # NoLock /\ Live(lease[t]) => registry[q] = lease[t]
        BY <1>3 DEF SharedOK, HolderOK
      <3> QED
        BY <1>1, <3>1, <3>2 DEF HolderOK
    <2> QED
      BY <2>1, <2>2
  <1> QED
    BY <1>4 DEF SharedOK

\* unlock() clears the own entry only.
LEMMA SharedDropped ==
    ASSUME SharedRegistry, IInv, SharedOK, NEW s \in Servers,
           lease' = [lease EXCEPT ![s] = NoLock], UNCHANGED <<fence, expired>>,
           \/ registry' = IF Entry(s) = lease[s] THEN [registry EXCEPT ![RegistryOf[s]] = NoLock]
                          ELSE registry
           \/ UNCHANGED registry
    PROVE  SharedOK'
  <1>1. /\ registry \in [Registries -> Nat] /\ lease \in [Servers -> Nat] /\ LeasesOK
        /\ \A t \in Servers : RegistryOf[t] = RegistryOf[s]
    BY DEF SharedRegistry, IInv, TypeOK
  <1>2. ASSUME NEW t \in Servers PROVE HolderOK(t)'
    <2>1. CASE t = s
      BY <1>1, <2>1 DEF HolderOK
    <2>2. CASE t # s
      <3> SUFFICES ASSUME lease'[t] # NoLock, Live(lease[t])'
                   PROVE  lease'[t] = fence' /\ registry'[RegistryOf[t]] = lease'[t]
        BY DEF HolderOK
      <3>1. lease'[t] = lease[t] /\ Live(lease[t])
        BY <1>1, <2>2 DEF Live
      <3>2. lease[t] = fence /\ registry[RegistryOf[t]] = lease[t]
        BY <3>1 DEF SharedOK, HolderOK
      <3>3. Entry(s) # lease[s]
        BY <1>1, <2>2, <3>1, <3>2 DEF LeasesOK, Entry
      <3> QED
        BY <3>1, <3>2, <3>3
    <2> QED
      BY <2>1, <2>2
  <1> QED
    BY <1>2 DEF SharedOK

LEMMA NextShared ==
    ASSUME SharedRegistry PROVE IInv /\ SharedOK /\ [Next]_vars => SharedOK'
  <1> SUFFICES ASSUME IInv, SharedOK, [Next]_vars PROVE SharedOK'
    OBVIOUS
  <1>1. ASSUME NEW s \in Servers,
               \/ Malformed(s) \/ Initialize(s) \/ Initialized(s) \/ Plain(s)
               \/ CallRejected(s) \/ CallRead(s) \/ CallRefused(s)
        PROVE  SharedOK'
    BY <1>1, AnsweredAtOnce, SharedUnmoved DEF AtOnce, store
  <1>2. ASSUME NEW s \in Servers, CallWrite(s) \/ Create(s) \/ LockFails(s) \/ Persist(s)
        PROVE  SharedOK'
    BY <1>2, SharedUnmoved DEF CallWrite, Create, LockFails, Persist, store
  <1>3. ASSUME NEW s \in Servers, Unlock(s) PROVE SharedOK'
    BY <1>3, SharedDropped DEF Unlock
  <1>4. ASSUME NEW s \in Servers, UnlockFails(s) PROVE SharedOK'
    BY <1>4, SharedDropped DEF UnlockFails, store
  <1>5. ASSUME NEW s \in Servers, Restart(s) PROVE SharedOK'
    BY <1>5, SharedDropped DEF Restart, store
  <1>6. ASSUME Expire PROVE SharedOK'
    BY <1>6 DEF Expire, SharedOK, HolderOK, Live
  <1>7. ASSUME UNCHANGED vars PROVE SharedOK'
    BY <1>7, SharedUnmoved DEF vars, store
  <1> QED
    BY <1>1, <1>2, SharedGranted, <1>3, <1>4, <1>5, <1>6, <1>7 DEF Next

LEMMA InitShared == Init => SharedOK
  BY DEF Init, SharedOK, HolderOK

\* A live lease is current, so the write it is for is refused for its hash only.
LEMMA NotSpurious ==
    ASSUME IInv, SharedOK, NEW s \in Servers, Persist(s),
           value = request[s].expected, Live(lease[s]), request[s].hasId
    PROVE  answer'[s].status # "STALE"
  <1>1. FenceOk(s)
    BY DEF SharedOK, HolderOK, FenceOk, Live
  <1>2. PICK status \in {"OK", "STALE", "ERROR"} :
            /\ Applied(s, status) \/ NotApplied(s, status)
            /\ Respond(s, request[s], ToolResult(status))
    BY <1>1 DEF Persist
  <1>3. status # "STALE"
    BY <1>2 DEF Applied, NotApplied
  <1>4. answer'[s] = ToolResult(status)
    BY <1>2 DEF Respond, IInv, TypeOK
  <1> QED
    BY <1>3, <1>4, AnswerTypes

\* knokeep_write holds its lease across persist(): servers over one registry
\* never refuse a write whose expected hash is current and whose lease is live.
THEOREM NoSpuriousRefusal == ASSUME SharedRegistry PROVE Spec => NoSpuriousStale
  <1>1. IInv /\ SharedOK /\ [Next]_vars
          => [\A s \in Servers :
                Persist(s) /\ value = request[s].expected /\ Live(lease[s]) /\ request[s].hasId
                => answer'[s].status # "STALE"]_vars
    BY NotSpurious
  <1>2. IInv /\ SharedOK /\ [Next]_vars => SharedOK'
    BY NextShared
  <1> QED
    BY <1>1, <1>2, InitShared, InductiveInvariant, PTL DEF Spec, NoSpuriousStale

=============================================================================
