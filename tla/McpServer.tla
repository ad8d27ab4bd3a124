------------------------------ MODULE McpServer ------------------------------
(***************************************************************************)
(* KnoKeepServer (src/mcp/server.py): the handshake flags, the dispatch of *)
(* one message after the other, and knokeep_write over a store that other  *)
(* servers write too.  A server is a process with one client on stdio; it  *)
(* handles a message to its end before it reads the next one.              *)
(*                                                                         *)
(* The store is reduced to what knokeep_write sees of it: every backend    *)
(* call is one step.  lock() is BUSY while another lease on the key is     *)
(* live in the same registry (a file for LocalBackend, the memory of the   *)
(* process for the others) and advances the fence in any registry.  Leases *)
(* expire at any time (the ttl is 30 s).  Tools that only read are one.    *)
(*                                                                         *)
(* A definition named X_fault is X with a plausible programming fault.     *)
(***************************************************************************)
EXTENDS Integers

CONSTANTS
    Bodies, Absent, None,
    Servers,
    RegistryOf,  \* the advisory lock registry a server's backend uses
    MaxLocks     \* bound: lock() calls that are granted

ASSUME SentinelAssumption == {Absent, None} \cap Bodies = {} /\ Absent # None
ASSUME LocksAssumption == MaxLocks \in Nat

Registries == {RegistryOf[s] : s \in Servers}
NoLock == 0

VARIABLES
    value,        \* the body at the key, or Absent
    fence,        \* the fence lock() allocated last
    expired,      \* fences of leases that have run out
    registry,     \* the fence of the lease entered in each registry, or NoLock
    initialized,  \* _initialized of each server
    awaiting,     \* _awaiting_initialized_ack of each server
    pc,           \* where each server is in handle()
    request,      \* the message it is handling, or handled last
    lease,        \* the fence of the lease knokeep_write holds
    answer,       \* the answer to that message
    stored,       \* history: the body of that message is at the key because of it
    handshake,    \* history: how far the client has come with the handshake
    orphaned      \* history: fences of leases whose unlock() failed or never came

store == <<value, fence, expired, registry>>
flags == <<initialized, awaiting, handshake>>
vars == <<store, flags, pc, request, lease, answer, stored, orphaned>>

-----------------------------------------------------------------------------
Methods == {"initialize", "initialized", "ping", "read", "create", "update", "unknown"}
Tools == {"read", "create", "update"}

\* form: "valid"; "malformed" (no object, a null or invalid id, no jsonrpc);
\* "bad" arguments, which every tool refuses alike; "refused" by validate_write().
Request ==
    {r \in [method: Methods, form: {"valid", "malformed", "bad", "refused"}, hasId: BOOLEAN,
            body: Bodies \cup {None}, expected: Bodies \cup {None}] :
        /\ r.body # None => r.form = "valid" /\ r.method \in {"create", "update"}
        /\ r.expected # None => r.body # None /\ r.method = "update"
        /\ r.form = "malformed" => r.method = "ping"
        /\ r.form = "bad" => r.method = "update"
        /\ r.form = "refused" => r.method \in {"create", "update"}}
NoRequest == [method |-> "ping", form |-> "valid", hasId |-> FALSE, body |-> None,
              expected |-> None]

\* The valid arguments of a write.
Write == {r \in Request : /\ r.method \in {"create", "update"} /\ r.form = "valid"
                          /\ r.body # None
                          /\ r.method = "update" => r.expected # None}

\* A response: a JSON-RPC error or result, and for a tool its status and
\* isError.  "none" is no response.
Answer == [kind: {"none", "error", "result"}, status: {"none", "OK", "STALE", "EXISTS", "ERROR"},
           isError: BOOLEAN]
NoAnswer == [kind |-> "none", status |-> "none", isError |-> FALSE]

\* What the client has sent since the server started: no initialize; one, and
\* no initialized after it; both; both, and then another initialize.
Handshakes == {"none", "offered", "complete", "reoffered"}
Completed == {"complete", "reoffered"}
AfterInitialize(h) == IF h \in Completed THEN "reoffered" ELSE "offered"
AfterInitialized(h) == IF h = "none" THEN "none" ELSE "complete"

\* Types.  A server holds a lease only inside an update.
TypeOK ==
    /\ value \in Bodies \cup {Absent}
    /\ fence \in Nat /\ expired \subseteq Nat /\ orphaned \subseteq Nat
    /\ registry \in [Registries -> Nat]
    /\ initialized \in [Servers -> BOOLEAN] /\ awaiting \in [Servers -> BOOLEAN]
    /\ handshake \in [Servers -> Handshakes]
    /\ pc \in [Servers -> {"idle", "create", "lock", "persist", "unlock"}]
    /\ request \in [Servers -> Request]
    /\ lease \in [Servers -> Nat]
    /\ answer \in [Servers -> Answer]
    /\ stored \in [Servers -> BOOLEAN]
    /\ \A s \in Servers : lease[s] # NoLock <=> pc[s] \in {"persist", "unlock"}

Init ==
    /\ value = Absent
    /\ fence = 0 /\ expired = {} /\ orphaned = {}
    /\ registry = [r \in Registries |-> NoLock]
    /\ initialized = [s \in Servers |-> FALSE]
    /\ awaiting = [s \in Servers |-> FALSE]
    /\ handshake = [s \in Servers |-> "none"]
    /\ pc = [s \in Servers |-> "idle"]
    /\ request = [s \in Servers |-> NoRequest]
    /\ lease = [s \in Servers |-> NoLock]
    /\ answer = [s \in Servers |-> NoAnswer]
    /\ stored = [s \in Servers |-> FALSE]

Goto(s, label) == pc' = [pc EXCEPT ![s] = label]

\* handle() returns: the arguments are gone.
Return(s) ==
    /\ Goto(s, "idle")
    /\ request' = [request EXCEPT ![s] = [@ EXCEPT !.body = None, !.expected = None]]

\* A request gets its response, a notification none.
Respond(s, r, response) ==
    answer' = [answer EXCEPT ![s] = IF r.hasId THEN response ELSE NoAnswer]
RpcError  == [kind |-> "error", status |-> "none", isError |-> FALSE]
RpcResult == [kind |-> "result", status |-> "none", isError |-> FALSE]

\* Fault: only a blocked secret is flagged.
ToolResult_flagless(status) ==
    [kind |-> "result", status |-> status, isError |-> FALSE]

\* _handle_tools_call(): the result of a write, isError for every ERROR.
ToolResult(status) ==
    [kind |-> "result", status |-> status, isError |-> status = "ERROR"]

-----------------------------------------------------------------------------
(* handle(): messages that are answered at once.                           *)

Arrives(s, r) ==
    /\ pc[s] = "idle"
    /\ request' = [request EXCEPT ![s] = r]
    /\ stored' = [stored EXCEPT ![s] = FALSE]

\* Refused before any dispatch.  Without an id it is a notification, unless it
\* is its id that is wrong.
Malformed(s) ==
    \E r \in Request :
        /\ r.form = "malformed"
        /\ Arrives(s, r)
        /\ Respond(s, r, RpcError)
        /\ UNCHANGED <<store, flags, pc, lease, orphaned>>

\* Fault: the handshake counts as complete.
Initialize_completes(s) ==
    \E r \in Request :
        /\ r.method = "initialize" /\ r.form = "valid"
        /\ Arrives(s, r)
        /\ initialized' = [initialized EXCEPT ![s] = TRUE]
        /\ awaiting' = [awaiting EXCEPT ![s] = TRUE]
        /\ handshake' = [handshake EXCEPT ![s] = AfterInitialize(@)]
        /\ Respond(s, r, RpcResult)
        /\ UNCHANGED <<store, pc, lease, orphaned>>

\* The server offers a session, again if it has one already.
Initialize(s) ==
    \E r \in Request :
        /\ r.method = "initialize" /\ r.form = "valid"
        /\ Arrives(s, r)
        /\ awaiting' = [awaiting EXCEPT ![s] = TRUE]
        /\ handshake' = [handshake EXCEPT ![s] = AfterInitialize(@)]
        /\ Respond(s, r, RpcResult)
        /\ UNCHANGED <<store, initialized, pc, lease, orphaned>>

\* Accepted after an initialize only; never answered, not even with an id.
Initialized(s) ==
    \E r \in Request :
        /\ r.method = "initialized" /\ r.form = "valid"
        /\ Arrives(s, r)
        /\ initialized' = [initialized EXCEPT ![s] = @ \/ awaiting[s]]
        /\ awaiting' = [awaiting EXCEPT ![s] = FALSE]
        /\ handshake' = [handshake EXCEPT ![s] = AfterInitialized(@)]
        /\ answer' = [answer EXCEPT ![s] = NoAnswer]
        /\ UNCHANGED <<store, pc, lease, orphaned>>

\* ping, tools/list, and methods that do not exist.
Plain(s) ==
    \E r \in Request :
        /\ r.method \in {"ping", "unknown"} /\ r.form = "valid"
        /\ Arrives(s, r)
        /\ Respond(s, r, IF r.method = "ping" THEN RpcResult ELSE RpcError)
        /\ UNCHANGED <<store, flags, pc, lease, orphaned>>

-----------------------------------------------------------------------------
(* tools/call.                                                             *)

\* Before the handshake, or with arguments the tool refuses.
CallRejected(s) ==
    \E r \in Request :
        /\ r.method \in Tools /\ r.body = None
        /\ ~initialized[s] \/ r.form = "bad"
        /\ Arrives(s, r)
        /\ Respond(s, r, RpcError)
        /\ UNCHANGED <<store, flags, pc, lease, orphaned>>

\* A tool that only reads answers, or its backend raises.
CallRead(s) ==
    \E r \in Request :
        /\ r.method = "read" /\ r.form = "valid"
        /\ initialized[s]
        /\ Arrives(s, r)
        /\ \E failed \in BOOLEAN : Respond(s, r, [RpcResult EXCEPT !.isError = failed])
        /\ UNCHANGED <<store, flags, pc, lease, orphaned>>

\* validate_write() refuses the write, in persist() or before the lock.
CallRefused(s) ==
    \E r \in Request :
        /\ r.form = "refused"
        /\ initialized[s]
        /\ Arrives(s, r)
        /\ Respond(s, r, ToolResult("ERROR"))
        /\ UNCHANGED <<store, flags, pc, lease, orphaned>>

\* Fault: a write does not wait for the handshake.
CallWrite_anyTime(s) ==
    \E r \in Request :
        /\ r \in Write
        /\ Arrives(s, r)
        /\ Goto(s, IF r.method = "update" THEN "lock" ELSE "create")
        /\ answer' = [answer EXCEPT ![s] = NoAnswer]
        /\ UNCHANGED <<store, flags, lease, orphaned>>

CallWrite(s) ==
    \E r \in Request :
        /\ r \in Write
        /\ initialized[s]
        /\ Arrives(s, r)
        /\ Goto(s, IF r.method = "update" THEN "lock" ELSE "create")
        /\ answer' = [answer EXCEPT ![s] = NoAnswer]
        /\ UNCHANGED <<store, flags, lease, orphaned>>

Body(s) == request[s].body

\* The three ways a write that the store accepts ends: OK, an ERROR or an
\* exception after it was applied, an ERROR or an exception before.
Applied(s, status) ==
    /\ value' = Body(s)
    /\ stored' = [stored EXCEPT ![s] = TRUE]
    /\ status \in {"OK", "ERROR"}
NotApplied(s, status) ==
    /\ status = "ERROR"
    /\ UNCHANGED <<value, stored>>

Create(s) ==
    \E status \in {"OK", "EXISTS", "ERROR"} :
        /\ pc[s] = "create"
        /\ \/ value = Absent /\ Applied(s, status)
           \/ NotApplied(s, status)
           \/ /\ value = Body(s) /\ status = "OK"
              /\ stored' = [stored EXCEPT ![s] = TRUE]
              /\ UNCHANGED value
           \/ value \notin {Absent, Body(s)} /\ status = "EXISTS" /\ UNCHANGED <<value, stored>>
        /\ Respond(s, request[s], ToolResult(status))
        /\ Return(s)
        /\ UNCHANGED <<fence, expired, registry, flags, lease, orphaned>>

-----------------------------------------------------------------------------
(* knokeep_write with an expected hash: lock, persist, unlock.             *)

Entry(s) == registry[RegistryOf[s]]
Live(f) == f # NoLock /\ f \notin expired

\* Fault: the lease is released before the write it is for.
LockGranted_releasing(s) ==
    /\ pc[s] = "lock"
    /\ ~Live(Entry(s))
    /\ fence < MaxLocks
    /\ fence' = fence + 1
    /\ registry' = [registry EXCEPT ![RegistryOf[s]] = NoLock]
    /\ lease' = [lease EXCEPT ![s] = fence + 1]
    /\ Goto(s, "persist")
    /\ UNCHANGED <<value, expired, flags, request, answer, stored, orphaned>>

LockGranted(s) ==
    /\ pc[s] = "lock"
    /\ ~Live(Entry(s))
    /\ fence < MaxLocks
    /\ fence' = fence + 1
    /\ registry' = [registry EXCEPT ![RegistryOf[s]] = fence + 1]
    /\ lease' = [lease EXCEPT ![s] = fence + 1]
    /\ Goto(s, "persist")
    /\ UNCHANGED <<value, expired, flags, request, answer, stored, orphaned>>

\* ERROR(BUSY), or TOOL_EXCEPTION when the backend raises anything else.
LockFails(s) ==
    /\ pc[s] = "lock"
    /\ Respond(s, request[s], ToolResult("ERROR"))
    /\ Return(s)
    /\ UNCHANGED <<store, flags, lease, stored, orphaned>>

FenceOk(s) == lease[s] = fence /\ Live(lease[s])

\* persist(): the answer is decided, and given after the unlock.
Persist(s) ==
    \E status \in {"OK", "STALE", "ERROR"} :
        /\ pc[s] = "persist"
        /\ \/ FenceOk(s) /\ value = request[s].expected /\ Applied(s, status)
           \/ NotApplied(s, status)
           \/ /\ ~FenceOk(s) \/ value # request[s].expected
              /\ status = "STALE" /\ UNCHANGED <<value, stored>>
        /\ Respond(s, request[s], ToolResult(status))
        /\ Goto(s, "unlock")
        /\ UNCHANGED <<fence, expired, registry, flags, request, lease, orphaned>>

\* Fault: no finally, an exception leaves without unlock().
Unlock_notInFinally(s) ==
    /\ pc[s] = "unlock"
    /\ registry' = IF Entry(s) = lease[s] /\ answer[s].status # "ERROR"
                   THEN [registry EXCEPT ![RegistryOf[s]] = NoLock] ELSE registry
    /\ lease' = [lease EXCEPT ![s] = NoLock]
    /\ Return(s)
    /\ UNCHANGED <<value, fence, expired, flags, answer, stored, orphaned>>

\* Only the own entry; the answer is not changed by what unlock() does.
Unlock(s) ==
    /\ pc[s] = "unlock"
    /\ registry' = IF Entry(s) = lease[s] THEN [registry EXCEPT ![RegistryOf[s]] = NoLock]
                   ELSE registry
    /\ lease' = [lease EXCEPT ![s] = NoLock]
    /\ Return(s)
    /\ UNCHANGED <<value, fence, expired, flags, answer, stored, orphaned>>

\* unlock() raises; the exception is swallowed.
UnlockFails(s) ==
    /\ pc[s] = "unlock"
    /\ orphaned' = orphaned \cup {lease[s]}
    /\ lease' = [lease EXCEPT ![s] = NoLock]
    /\ Return(s)
    /\ UNCHANGED <<store, flags, answer, stored>>

-----------------------------------------------------------------------------
\* A lease runs out.
Expire ==
    /\ \E f \in 1..fence : expired' = expired \cup {f}
    /\ UNCHANGED <<value, fence, registry, flags, pc, request, lease, answer, stored, orphaned>>

\* A server process dies and a new one is started.
Restart(s) ==
    /\ initialized' = [initialized EXCEPT ![s] = FALSE]
    /\ awaiting' = [awaiting EXCEPT ![s] = FALSE]
    /\ handshake' = [handshake EXCEPT ![s] = "none"]
    /\ pc' = [pc EXCEPT ![s] = "idle"]
    /\ request' = [request EXCEPT ![s] = NoRequest]
    /\ lease' = [lease EXCEPT ![s] = NoLock]
    /\ answer' = [answer EXCEPT ![s] = NoAnswer]
    /\ stored' = [stored EXCEPT ![s] = FALSE]
    /\ orphaned' = orphaned \cup ({lease[s]} \ {NoLock})
    /\ UNCHANGED store

Next ==
    \/ \E s \in Servers :
        \/ Malformed(s) \/ Initialize(s) \/ Initialized(s) \/ Plain(s)
        \/ CallRejected(s) \/ CallRead(s) \/ CallRefused(s) \/ CallWrite(s)
        \/ Create(s) \/ LockGranted(s) \/ LockFails(s) \/ Persist(s)
        \/ Unlock(s) \/ UnlockFails(s)
        \/ Restart(s)
    \/ Expire

Spec == Init /\ [][Next]_vars

-----------------------------------------------------------------------------
\* A server runs a tool, or has given a tool's result, only after its client
\* sent initialize and, after that, initialized, in whatever order, how often
\* and in whatever form messages come, across restarts.
NoToolBeforeHandshake ==
    \A s \in Servers :
        pc[s] # "idle" \/ (request[s].method \in Tools /\ answer[s].kind = "result")
        => handshake[s] \in Completed

\* A response without isError is the truth about the store: the body is there
\* because of this request if it says OK, and not if it says STALE or EXISTS.
UnflaggedIsHonest ==
    \A s \in Servers :
        /\ answer[s].kind = "result" /\ ~answer[s].isError
        /\ request[s].method \in {"create", "update"}
        => (answer[s].status = "OK" <=> stored[s])

\* No lease outlives its call: a live entry belongs to a server inside
\* knokeep_write, unless unlock() failed or the process died.
LeasesAreReleased ==
    \A r \in Registries :
        Live(registry[r])
        => registry[r] \in orphaned \cup {lease[s] : s \in Servers}

\* A write whose expected hash is current is refused only if its lease expired:
\* the lease is held across persist(), so nobody advances the fence meanwhile.
NoSpuriousStale ==
    [][\A s \in Servers :
        Persist(s) /\ value = request[s].expected /\ Live(lease[s]) /\ request[s].hasId
        => answer'[s].status # "STALE"]_vars

-----------------------------------------------------------------------------
(* What the comments say and the code does not do.                         *)

\* Comment of _initialized: a tools/call between initialize and initialized is
\* rejected, not served.
NoToolBeforeAck == \A s \in Servers : pc[s] # "idle" => handshake[s] = "complete"

\* Docstring of handle(): None only for a notification; a request is answered.
RequestsAreAnswered ==
    \A s \in Servers :
        pc[s] = "idle" /\ request[s].hasId => answer[s].kind # "none"

=============================================================================
