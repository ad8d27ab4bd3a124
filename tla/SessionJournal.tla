--------------------------- MODULE SessionJournal ---------------------------
(***************************************************************************)
(* session_append() of the skill (src/skill/knokeep_state.py): processes   *)
(* that append entries to the journal of one session, which is a single    *)
(* document that is read and written back with the entry at its end.  The  *)
(* "conflicts" journal of _park_conflict() is one of them, and is shared   *)
(* by every process of a project.                                          *)
(*                                                                         *)
(* A journal is the sequence of its entries, and is its own hash.  A lease *)
(* runs out at any time (the ttl is 30 s).  A write that fails may be      *)
(* journaled by the store only, and published by the next LocalBackend     *)
(* that is constructed, as in SkillFlush.                                  *)
(*                                                                         *)
(* A definition named X_fault is X with a plausible programming fault.     *)
(***************************************************************************)
EXTENDS Integers, Sequences

CONSTANTS
    Appenders,
    MaxAppends,   \* 50 in the code
    MaxEntries    \* bound: calls of each writer

ASSUME JournalAssumption == MaxAppends \in Nat \ {0} /\ MaxEntries \in Nat

VARIABLES
    journal,       \* the entries, or <<>> if there is no document
    journalFence,  \* the fence lock() allocated last
    journalLive,   \* is the lease with that fence held and not expired?
    journalOrphan, \* what such a write would publish, or <<>>
    call,          \* the call each writer is in, or was in last
    told           \* history: the entries whose writers were told OK

journalVars == <<journal, journalFence, journalLive, journalOrphan, call, told>>

Entry == [writer: Appenders, number: 1..MaxEntries]
Call == [pc: {"idle", "lock", "read", "persist"}, number: 0..MaxEntries, lease: Nat,
         read: Seq(Entry), attempt: 1..MaxAppends,
         result: {"none", "ok", "blocked", "error", "exhausted"}]
NewCall(n) == [pc |-> IF n = 0 THEN "idle" ELSE "lock", number |-> n, lease |-> 0,
               read |-> <<>>, attempt |-> 1, result |-> "none"]

\* Types.  A call reads its journal under a lease.
JournalTypeOK ==
    /\ journal \in Seq(Entry) /\ journalFence \in Nat /\ journalLive \in BOOLEAN
    /\ journalOrphan \in Seq(Entry)
    /\ call \in [Appenders -> Call]
    /\ told \subseteq Entry
    /\ \A w \in Appenders : call[w].pc \in {"read", "persist"} => call[w].lease \in 1..journalFence

JournalInit ==
    /\ journal = <<>> /\ journalFence = 0 /\ journalLive = FALSE
    /\ journalOrphan = <<>>
    /\ call = [w \in Appenders |-> NewCall(0)]
    /\ told = {}

AppendAt(w, label) == call[w].pc = label
SetCall(w, c) == call' = [call EXCEPT ![w] = c]
AppendEnds(w, result) == SetCall(w, [call[w] EXCEPT !.pc = "idle", !.result = result])
OwnsJournal(w) == call[w].lease = journalFence /\ journalLive
JournalUnlocked(w) == journalLive /\ ~OwnsJournal(w)  \* after unlock(): somebody else's lease stays
EntryOf(w) == [writer |-> w, number |-> call[w].number]

\* LocalBackend(): the constructor replays the journal of the store.
ResumeJournal ==
    /\ journalOrphan # <<>>
    /\ journal' = journalOrphan /\ journalOrphan' = <<>>
    /\ UNCHANGED <<journalFence, journalLive, call, told>>

\* session_append(), on a new LocalBackend.
BeginAppend(w) ==
    /\ AppendAt(w, "idle") /\ call[w].number < MaxEntries
    /\ journalOrphan = <<>>
    /\ SetCall(w, NewCall(call[w].number + 1))
    /\ UNCHANGED <<journal, journalFence, journalLive, journalOrphan, told>>

LockJournal(w) ==
    /\ AppendAt(w, "lock") /\ ~journalLive
    /\ journalFence' = journalFence + 1 /\ journalLive' = TRUE
    /\ SetCall(w, [call[w] EXCEPT !.pc = "read", !.lease = journalFence + 1])
    /\ UNCHANGED <<journal, journalOrphan, told>>

\* Fault: one attempt too many.
NextAttempt_oneMore(w) ==
    IF call[w].attempt <= MaxAppends
    THEN SetCall(w, [call[w] EXCEPT !.pc = "lock", !.attempt = @ + 1])
    ELSE AppendEnds(w, "exhausted")

\* The for loop: the next attempt, or append_retry_exhausted.
NextAttempt(w) ==
    IF call[w].attempt < MaxAppends
    THEN SetCall(w, [call[w] EXCEPT !.pc = "lock", !.attempt = @ + 1])
    ELSE AppendEnds(w, "exhausted")

\* BUSY is an attempt.
JournalBusy(w) ==
    /\ AppendAt(w, "lock") /\ journalLive
    /\ NextAttempt(w)
    /\ UNCHANGED <<journal, journalFence, journalLive, journalOrphan, told>>

ReadJournal(w) ==
    /\ AppendAt(w, "read")
    /\ SetCall(w, [call[w] EXCEPT !.pc = "persist", !.read = journal])
    /\ UNCHANGED <<journal, journalFence, journalLive, journalOrphan, told>>

\* Fault: the lease alone protects the journal.
AppendAdmitted_anyHash(w) == call[w].read # <<>> => OwnsJournal(w)

\* A create of the document, or an Overwrite of what was read under the lease.
AppendAdmitted(w) == journal = call[w].read /\ (journal # <<>> => OwnsJournal(w))

\* A write that is admitted is journaled and published, or journaled only: the
\* later record is the one that is replayed.
Appends(w) ==
    /\ AppendAdmitted(w)
    /\ journal' = Append(call[w].read, EntryOf(w)) /\ journalOrphan' = <<>>
AppendsLater(w) ==
    /\ AppendAdmitted(w)
    /\ journalOrphan' = Append(call[w].read, EntryOf(w)) /\ UNCHANGED journal

AppendStores(w) ==
    /\ AppendAt(w, "persist") /\ Appends(w)
    /\ journalLive' = JournalUnlocked(w)
    /\ AppendEnds(w, "ok")
    /\ told' = told \cup {EntryOf(w)}
    /\ UNCHANGED journalFence

\* Fault: a conflict is taken for success.
AppendLoses_isOk(w) ==
    /\ AppendAt(w, "persist") /\ ~AppendAdmitted(w)
    /\ journalLive' = JournalUnlocked(w)
    /\ AppendEnds(w, "ok")
    /\ told' = told \cup {EntryOf(w)}
    /\ UNCHANGED <<journal, journalFence, journalOrphan>>

\* STALE or EXISTS: read again.
AppendLoses(w) ==
    /\ AppendAt(w, "persist") /\ ~AppendAdmitted(w)
    /\ journalLive' = JournalUnlocked(w)
    /\ NextAttempt(w)
    /\ UNCHANGED <<journal, journalFence, journalOrphan, told>>

\* ERROR, or an exception: the gate found a secret; or the store failed, before
\* the write was journaled, after it, or after the document was there.
AppendError(w) ==
    /\ AppendAt(w, "persist")
    /\ journalLive' = JournalUnlocked(w)
    /\ \/ UNCHANGED <<journal, journalOrphan>> /\ AppendEnds(w, "blocked")
       \/ UNCHANGED <<journal, journalOrphan>> /\ AppendEnds(w, "error")
       \/ (Appends(w) \/ AppendsLater(w)) /\ AppendEnds(w, "error")
    /\ UNCHANGED <<journalFence, told>>

\* The process dies, anywhere in its write; its lease stays until it runs out.
AppendCrash(w) ==
    /\ ~AppendAt(w, "idle")
    /\ \/ UNCHANGED <<journal, journalOrphan>>
       \/ AppendAt(w, "persist") /\ (Appends(w) \/ AppendsLater(w))
    /\ AppendEnds(w, "none")
    /\ UNCHANGED <<journalFence, journalLive, told>>

JournalExpire ==
    /\ journalLive /\ journalLive' = FALSE
    /\ UNCHANGED <<journal, journalFence, journalOrphan, call, told>>

AppendStep(w) ==
    \/ LockJournal(w) \/ JournalBusy(w) \/ ReadJournal(w)
    \/ AppendStores(w) \/ AppendLoses(w) \/ AppendError(w)

JournalNext ==
    \/ \E w \in Appenders : BeginAppend(w) \/ AppendStep(w) \/ AppendCrash(w)
    \/ JournalExpire \/ ResumeJournal

JournalSpec == JournalInit /\ [][JournalNext]_journalVars

-----------------------------------------------------------------------------
\* No append ever loses or reorders the entries that are there, whoever wrote
\* them and whichever lease has run out.
AppendOnly ==
    [][/\ Len(journal) <= Len(journal')
       /\ \A i \in DOMAIN journal : journal'[i] = journal[i]]_journalVars

\* An entry is in the journal at most once, whatever was retried, and it is there
\* if its writer was told so.
ToldIsThereOnce ==
    /\ \A i, j \in DOMAIN journal : journal[i] = journal[j] => i = j
    /\ told \subseteq {journal[i] : i \in DOMAIN journal}

=============================================================================
