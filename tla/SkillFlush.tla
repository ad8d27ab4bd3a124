----------------------------- MODULE SkillFlush -----------------------------
(***************************************************************************)
(* flush_state() and flush_log() of the skill (src/skill/knokeep_state.py) *)
(* on one document of a LocalBackend store that is shared with other       *)
(* sessions and with MCP clients.  A flush replaces the document, or one   *)
(* "## section" of it, reading and writing it under a lease of its key; a  *)
(* flush that loses parks its text under a conflict key.                   *)
(*                                                                         *)
(* A document is its revision and its sections, and is its own hash.  Each *)
(* backend call is a step.  A lease runs out at any time (the ttl is 30 s).*)
(* A document always has frontmatter here.                                 *)
(*                                                                         *)
(* A write that fails may be in the journal of the store, unpublished: it  *)
(* is an orphan, which the next LocalBackend that is constructed publishes *)
(* unless a later write has come before it.  Every command of the skill    *)
(* constructs one.                                                         *)
(*                                                                         *)
(* A definition named X_fault is X with a plausible programming fault.     *)
(***************************************************************************)
EXTENDS Integers

CONSTANTS
    Writers, Sections, Contents, None,
    Secrets,      \* contents the gate refuses to store
    MaxAttempts,  \* _MAX_CAS_ATTEMPTS
    ParkTries,    \* creates of a conflict key: 3
    MaxCalls,     \* bound: flushes of each writer
    MaxOthers     \* bound: writes of MCP clients

ASSUME NoneAssumption == None \notin Contents \cup Sections \cup Writers
ASSUME BoundsAssumption ==
    {MaxAttempts, ParkTries} \subseteq Nat \ {0} /\ {MaxCalls, MaxOthers} \subseteq Nat

Absent == "absent"  \* no such heading
Twice == "twice"    \* the heading is there more than once
Texts == [Sections -> Contents \cup {Absent, Twice}]
Doc == [rev: Nat, text: Texts]
NoDoc == [rev |-> 0, text |-> [s \in Sections |-> Absent]]

VARIABLES
    doc,      \* the document at the key, or NoDoc
    fence,    \* the fence lock() allocated last
    live,     \* is the lease with that fence held and not expired?
    orphan,   \* a write of a dead or failed flush that is journaled only, or None
    parked,   \* conflict keys and what is parked there
    notes,    \* conflict keys the "conflicts" journal names
    flush,    \* the flush each writer is in, or was in last
    known,    \* the version each writer has bootstrapped
    calls,    \* how many flushes each writer has begun
    others    \* bound: writes of MCP clients

store == <<doc, fence, live, orphan>>
vars == <<store, parked, notes, flush, known, calls, others>>

-----------------------------------------------------------------------------
\* section = None replaces the document; expect = None is a call without
\* --expect-hash.  base is the section as it was when first seen (established);
\* read is the document read.  stored is history.
Flush == [pc: {"idle", "lock", "read", "persist", "park", "note"},
          section: Sections \cup {None}, content: Contents \cup {Twice},
          expect: Doc \cup {None}, base: Contents \cup {Absent}, established: BOOLEAN,
          read: Doc, attempt: 1..MaxAttempts, lease: Nat, tries: 0..ParkTries,
          result: {"none", "ok", "refused", "error", "secret", "park_failed", "parked"},
          stored: BOOLEAN]
NoFlush == [pc |-> "idle", section |-> None, content |-> Twice, expect |-> None,
            base |-> Absent, established |-> FALSE, read |-> NoDoc, attempt |-> 1,
            lease |-> 0, tries |-> 0, result |-> "none", stored |-> FALSE]

Conflict == [writer: Writers, call: Nat, section: Sections \cup {None},
             content: Contents \cup {Twice}]

\* Types.  What a journal note names has been parked, and no secret has.
TypeOK ==
    /\ doc \in Doc /\ fence \in Nat /\ live \in BOOLEAN
    /\ orphan \in [doc: Doc, by: Writers] \cup {None}
    /\ parked \subseteq Conflict /\ notes \subseteq parked
    /\ \A c \in parked : c.content \notin Secrets
    /\ flush \in [Writers -> Flush]
    /\ known \in [Writers -> Doc]
    /\ calls \in [Writers -> 0..MaxCalls] /\ others \in 0..MaxOthers

Init ==
    /\ doc = NoDoc /\ fence = 0 /\ live = FALSE /\ orphan = None
    /\ parked = {} /\ notes = {}
    /\ flush = [w \in Writers |-> NoFlush]
    /\ known = [w \in Writers |-> NoDoc]
    /\ calls = [w \in Writers |-> 0] /\ others = 0

At(w, label) == flush[w].pc = label
Set(w, f) == flush' = [flush EXCEPT ![w] = f]
\* The call returns: only what it was given, and its answer, are left of it.
Ends(w, result) ==
    [NoFlush EXCEPT !.section = flush[w].section, !.content = flush[w].content,
                    !.expect = flush[w].expect, !.result = result]
Owns(w) == flush[w].lease = fence /\ live
Unlocked(w) == live /\ ~Owns(w)  \* after unlock(): somebody else's lease stays

-----------------------------------------------------------------------------
\* LocalBackend(): the constructor replays the journal.
Resume ==
    /\ orphan # None
    /\ doc' = orphan.doc /\ orphan' = None
    /\ flush' = [flush EXCEPT ![orphan.by].stored = TRUE]
    /\ UNCHANGED <<fence, live, parked, notes, known, calls, others>>

\* bootstrap(), on a new LocalBackend: the caller learns the version it will
\* declare (bound: while it has a flush left to begin).
Bootstrap(w) ==
    /\ At(w, "idle") /\ calls[w] < MaxCalls /\ orphan = None
    /\ known' = [known EXCEPT ![w] = doc]
    /\ UNCHANGED <<store, parked, notes, flush, calls, others>>

\* A flush, on a new LocalBackend, with the hash the caller knows or with none.
Begin(w) ==
    \E section \in Sections \cup {None}, content \in Contents \cup {Twice},
       expect \in {None, known[w]} :
        /\ At(w, "idle") /\ calls[w] < MaxCalls /\ orphan = None
        /\ expect # NoDoc
        /\ section # None => content # Twice
        /\ Set(w, [NoFlush EXCEPT !.pc = "lock", !.section = section, !.content = content,
                                  !.expect = expect])
        /\ calls' = [calls EXCEPT ![w] = @ + 1]
        /\ UNCHANGED <<store, parked, notes, known, others>>

\* _hold(): a fresh lease for every attempt.
Lock(w) ==
    /\ At(w, "lock") /\ ~live
    /\ fence' = fence + 1 /\ live' = TRUE
    /\ Set(w, [flush[w] EXCEPT !.pc = "read", !.lease = fence + 1])
    /\ UNCHANGED <<doc, orphan, parked, notes, known, calls, others>>

\* BUSY is waited out, for no attempt; at the deadline the flush parks.
BusyDeadline(w) ==
    /\ At(w, "lock") /\ live
    /\ Set(w, [flush[w] EXCEPT !.pc = "park"])
    /\ UNCHANGED <<store, parked, notes, known, calls, others>>

\* The section as the flush sees it.
Seen(w) == doc.text[flush[w].section]

\* Fault: the base is whatever the first attempt reads.
BaseHolds_first(w) == flush[w].established => Seen(w) = flush[w].base

\* The first attempt must read the version the caller declared, a later one
\* the same section.
BaseHolds(w) ==
    IF flush[w].established THEN Seen(w) = flush[w].base
    ELSE flush[w].expect = None \/ doc = flush[w].expect

\* An update without a hash is refused.
HashRequired(w) ==
    /\ At(w, "read")
    /\ doc # NoDoc /\ flush[w].expect = None /\ flush[w].attempt = 1
    /\ Set(w, Ends(w, "refused"))
    /\ live' = Unlocked(w)
    /\ UNCHANGED <<doc, fence, orphan, parked, notes, known, calls, others>>

Reads(w) == At(w, "read") /\ (doc = NoDoc \/ flush[w].expect # None \/ flush[w].attempt > 1)

\* The whole document, compared with the declared version when it is written.
ReadWhole(w) ==
    /\ Reads(w) /\ flush[w].section = None
    /\ Set(w, [flush[w] EXCEPT !.pc = "persist", !.read = doc])
    /\ UNCHANGED <<store, parked, notes, known, calls, others>>

ReadSection(w) ==
    /\ Reads(w) /\ flush[w].section # None
    /\ Seen(w) # Twice /\ BaseHolds(w)
    /\ Set(w, [flush[w] EXCEPT !.pc = "persist", !.read = doc, !.base = Seen(w),
                               !.established = TRUE])
    /\ UNCHANGED <<store, parked, notes, known, calls, others>>

\* A duplicate heading, or a section that is not what the caller saw: parked
\* after the lease is released.
SectionConflict(w) ==
    /\ Reads(w) /\ flush[w].section # None
    /\ Seen(w) = Twice \/ ~BaseHolds(w)
    /\ Set(w, [flush[w] EXCEPT !.pc = "park"])
    /\ live' = Unlocked(w)
    /\ UNCHANGED <<doc, fence, orphan, parked, notes, known, calls, others>>

-----------------------------------------------------------------------------
(* _persist(), and what becomes of its outcome once the lease is released. *)

IsSecret(w) == flush[w].content \in Secrets

\* The document written over the one that was read: the section is replaced,
\* or appended.
Out(w) ==
    LET f == flush[w] IN
    [rev |-> f.read.rev + 1,
     text |-> [s \in Sections |-> IF f.section \in {None, s} THEN f.content ELSE f.read.text[s]]]

\* CreateOnly on an absent document, else an Overwrite of the version expected.
Expected(w) ==
    IF flush[w].section = None /\ flush[w].read # NoDoc THEN flush[w].expect ELSE flush[w].read
Admitted(w) == doc = Expected(w) /\ (Expected(w) # NoDoc => Owns(w))

\* A write is admitted, journaled and published; or it stops in between, or
\* before the journal.  The later record is the one that is replayed.
Publishes(w, result) ==
    /\ ~IsSecret(w) /\ Admitted(w)
    /\ doc' = Out(w) /\ orphan' = None
    /\ Set(w, [Ends(w, result) EXCEPT !.stored = TRUE])
JournalsOnly(w, result) ==
    /\ ~IsSecret(w) /\ Admitted(w)
    /\ orphan' = [doc |-> Out(w), by |-> w]
    /\ Set(w, Ends(w, result))
    /\ UNCHANGED doc
WritesNothing(w, result) == Set(w, Ends(w, result)) /\ UNCHANGED <<doc, orphan>>

Stores(w) ==
    /\ At(w, "persist")
    /\ Publishes(w, "ok")
    /\ live' = Unlocked(w)
    /\ UNCHANGED <<fence, parked, notes, known, calls, others>>

\* STALE or EXISTS: a section flush starts over, MaxAttempts times.
Loses(w) ==
    /\ At(w, "persist") /\ ~IsSecret(w)
    /\ ~Admitted(w)
    /\ Set(w, IF flush[w].section # None /\ flush[w].attempt < MaxAttempts
              THEN [flush[w] EXCEPT !.pc = "lock", !.attempt = @ + 1]
              ELSE [flush[w] EXCEPT !.pc = "park"])
    /\ live' = Unlocked(w)
    /\ UNCHANGED <<doc, fence, orphan, parked, notes, known, calls, others>>

\* ERROR, or an exception: a secret, or a failure of the store, such as BUSY,
\* which comes before the journal, after it, or after the document is there.
PersistError(w) ==
    /\ At(w, "persist")
    /\ \/ WritesNothing(w, IF IsSecret(w) THEN "secret" ELSE "error")
       \/ Publishes(w, "error")
       \/ JournalsOnly(w, "error")
    /\ live' = Unlocked(w)
    /\ UNCHANGED <<fence, parked, notes, known, calls, others>>

-----------------------------------------------------------------------------
(* _park_conflict().                                                       *)

ConflictOf(w) == [writer |-> w, call |-> calls[w], section |-> flush[w].section,
                  content |-> flush[w].content]

\* Fault: a conflict key is written past the gate.
Park_unscanned(w) ==
    /\ At(w, "park")
    /\ parked' = parked \cup {ConflictOf(w)}
    /\ Set(w, [flush[w] EXCEPT !.pc = "note"])
    /\ UNCHANGED <<store, notes, known, calls, others>>

\* A create-only write of the losing text under a key of its own.
Park(w) ==
    /\ At(w, "park") /\ ~IsSecret(w)
    /\ parked' = parked \cup {ConflictOf(w)}
    /\ Set(w, [flush[w] EXCEPT !.pc = "note"])
    /\ UNCHANGED <<store, notes, known, calls, others>>

ParkBlocked(w) ==
    /\ At(w, "park") /\ IsSecret(w)
    /\ Set(w, Ends(w, "secret"))
    /\ UNCHANGED <<store, parked, notes, known, calls, others>>

\* Fault: after the last try the flush goes on as if it had parked.
ParkFails_goesOn(w) ==
    /\ At(w, "park") /\ ~IsSecret(w)
    /\ Set(w, IF flush[w].tries + 1 < ParkTries THEN [flush[w] EXCEPT !.tries = @ + 1]
              ELSE Ends(w, "parked"))
    /\ UNCHANGED <<store, parked, notes, known, calls, others>>

\* Fault: the write is tried until it succeeds.
ParkFails_forever(w) ==
    /\ At(w, "park") /\ ~IsSecret(w)
    /\ Set(w, [flush[w] EXCEPT !.tries = (@ + 1) % 2])
    /\ UNCHANGED <<store, parked, notes, known, calls, others>>

\* The key is taken, or the store fails, and may publish the text all the same:
\* the next try, under another key, or an error of its own.
ParkFails(w) ==
    /\ At(w, "park") /\ ~IsSecret(w)
    /\ parked' \in {parked, parked \cup {ConflictOf(w)}}
    /\ Set(w, IF flush[w].tries + 1 < ParkTries THEN [flush[w] EXCEPT !.tries = @ + 1]
              ELSE Ends(w, "park_failed"))
    /\ UNCHANGED <<store, notes, known, calls, others>>

\* session_append() of a note; its failure is reported and changes nothing.
Note(w) ==
    /\ At(w, "note")
    /\ \/ notes' = notes \cup {ConflictOf(w)}
       \/ UNCHANGED notes
    /\ Set(w, Ends(w, "parked"))
    /\ UNCHANGED <<store, parked, known, calls, others>>

-----------------------------------------------------------------------------
\* A writer's process dies, anywhere in its write, of which the caller learns no
\* more than that it failed; its lease stays until it runs out.
Crash(w) ==
    /\ ~At(w, "idle")
    /\ \/ Set(w, NoFlush) /\ UNCHANGED <<doc, orphan>>
       \/ At(w, "persist") /\ (Publishes(w, "error") \/ JournalsOnly(w, "error"))
    /\ UNCHANGED <<fence, live, parked, notes, known, calls, others>>

Expire ==
    /\ live /\ live' = FALSE
    /\ UNCHANGED <<doc, fence, orphan, parked, notes, flush, known, calls, others>>

\* init(), or an MCP client, creates the document without a lease; an MCP
\* client replaces it under one.  An orphan is not the latest record any more.
OthersWrite ==
    \E c \in (Contents \ Secrets) \cup {Twice}, s \in Sections :
        /\ others < MaxOthers /\ others' = others + 1
        /\ \/ doc = NoDoc /\ UNCHANGED fence
           \/ doc # NoDoc /\ ~live /\ fence' = fence + 1
        /\ orphan' = None
        /\ doc' = [rev |-> doc.rev + 1, text |-> [doc.text EXCEPT ![s] = c]]
        /\ UNCHANGED <<live, parked, notes, flush, known, calls>>

Step(w) ==
    \/ Lock(w) \/ BusyDeadline(w) \/ HashRequired(w)
    \/ ReadWhole(w) \/ ReadSection(w) \/ SectionConflict(w)
    \/ Stores(w) \/ Loses(w) \/ PersistError(w)
    \/ Park(w) \/ ParkBlocked(w) \/ ParkFails(w) \/ Note(w)

Next ==
    \/ \E w \in Writers : Bootstrap(w) \/ Begin(w) \/ Step(w) \/ Crash(w)
    \/ Expire \/ Resume
    \/ OthersWrite

Spec == Init /\ [][Next]_vars

\* A flush runs on, and BUSY ends at the deadline at the latest.
FairSpec == Spec /\ \A w \in Writers : WF_vars(Step(w))

-----------------------------------------------------------------------------
\* No text is dropped without a word, and none is stored against the answer: OK
\* is told of a text that was stored; "parked" of one that is parked as it was
\* given, for the section it was given for; and a text whose flush was refused or
\* parked, or failed to park, is never stored.  An error leaves open whether it is,
\* and may be followed by a replay that stores it.
NothingLostSilently ==
    \A w \in Writers :
        At(w, "idle") /\ flush[w].result # "none" =>
            /\ flush[w].result = "ok" => flush[w].stored
            /\ flush[w].result = "parked" => ConflictOf(w) \in parked
            /\ flush[w].stored => flush[w].result \in {"ok", "error"}

\* A flush writes over nothing its caller has not seen: the whole document only
\* over the version declared; a section only over the text that version had, and
\* every other section stays as somebody else may have changed it since.  That
\* holds as well of a failed flush that a replay publishes.
OverwritesOnlyWhatWasSeen ==
    [][\A w \in Writers :
        LET f == flush[w]
            seen == IF f.expect = None THEN NoDoc ELSE f.expect IN
        flush'[w].stored /\ ~f.stored /\ calls'[w] = calls[w] =>
            IF f.section = None THEN doc = seen
            ELSE /\ doc.text[f.section] = seen.text[f.section]
                 /\ \A s \in Sections \ {f.section} : doc'.text[s] = doc.text[s]]_vars

\* Every flush ends.
FlushesEnd == \A w \in Writers : At(w, "lock") ~> At(w, "idle")

=============================================================================
