----------------------------- MODULE Skill_proofs -----------------------------
(***************************************************************************)
(* Proofs about the skill: SkillFlush, then SessionJournal.                *)
(*                                                                         *)
(* Flushes, for any writers, sections, contents and secrets, and flushes,  *)
(* leases and processes that fail as they like.  What a flush is about to  *)
(* write over is what its caller declared it had seen: the base of a       *)
(* section, once established, is the text the declared version had,        *)
(* however many attempts follow.  So it is of a write that was journaled   *)
(* only: nothing has changed the document since.                           *)
(*                                                                         *)
(* Journals, for any appenders, attempts and calls.  The invariant that    *)
(* carries the proofs is Numbered: an appender's entries carry the numbers *)
(* of its earlier calls, and the one of the call it is in only once that   *)
(* call is over, so whatever a call retries, it appends its entry for the  *)
(* first time.  A write that was journaled only extends the journal as it  *)
(* is, with the entry of a call that is over.                              *)
(***************************************************************************)
EXTENDS SkillFlush, SessionJournal, TLAPS

-----------------------------------------------------------------------------
(* SkillFlush.                                                             *)


\* The version a flush's caller has seen; without a hash, that there is none.
Declared(f) == IF f.expect = None THEN NoDoc ELSE f.expect

\* A flush f: where it stands, what it has answered and what it has seen.
FlushOK(f) ==
    /\ f.result = "ok" => f.stored
    /\ f.stored => f.result \in {"ok", "error"}
    /\ f.pc # "idle" => f.result = "none"
    /\ f.attempt > 1 => f.established /\ f.section # None
    /\ f.established => f.section # None /\ f.base = Declared(f).text[f.section]
    /\ f.pc = "persist" => IF f.section # None
                           THEN f.established /\ f.read.text[f.section] = f.base
                           ELSE f.read = NoDoc <=> f.expect = None
    /\ f.expect # None => f.expect.rev >= 1

\* The document is never removed, so a version once seen is not the absent one.
SeenOK ==
    /\ doc.rev = 0 => doc = NoDoc
    /\ \A w \in Writers : /\ known[w] # NoDoc => known[w].rev >= 1 /\ doc.rev >= 1
                          /\ flush[w].expect # None => doc.rev >= 1

\* What a flush f writes over is what its caller has seen.
Over(f, old, new) ==
    IF f.section = None THEN old = Declared(f)
    ELSE /\ old.text[f.section] = Declared(f).text[f.section]
         /\ \A s \in Sections \ {f.section} : new.text[s] = old.text[s]

\* An orphan is of a flush that failed, and would be admitted as it was.
OrphanOK ==
    orphan # None =>
        /\ flush[orphan.by].pc = "idle" /\ flush[orphan.by].result = "error"
        /\ orphan.doc.rev >= 1 /\ Over(flush[orphan.by], doc, orphan.doc)

Parked(w, f) == f.pc = "note" \/ f.result = "parked" => ConflictOf(w) \in parked

IInv ==
    /\ TypeOK /\ SeenOK /\ OrphanOK
    /\ \A w \in Writers : FlushOK(flush[w]) /\ Parked(w, flush[w])

LEMMA NoDocType == NoDoc \in Doc /\ NoDoc.rev = 0
  BY DEF NoDoc, Doc, Texts

LEMMA NoFlushOK ==
    /\ NoFlush \in Flush /\ FlushOK(NoFlush) /\ NoFlush.expect = None
    /\ NoFlush.pc = "idle" /\ NoFlush.result = "none" /\ NoFlush.stored = FALSE
  BY NoDocType, BoundsAssumption DEF NoFlush, Flush, FlushOK

LEMMA InitIInv == Init => IInv
  <1> SUFFICES ASSUME Init PROVE IInv
    OBVIOUS
  <1>1. TypeOK
    <2>1. /\ doc \in Doc /\ fence \in Nat /\ live \in BOOLEAN
          /\ orphan \in [doc: Doc, by: Writers] \cup {None}
          /\ parked \subseteq Conflict /\ notes \subseteq parked
          /\ \A c \in parked : c.content \notin Secrets
      BY NoDocType DEF Init
    <2>2. flush \in [Writers -> Flush] /\ known \in [Writers -> Doc]
      BY NoDocType, NoFlushOK DEF Init
    <2>3. 0 \in 0..MaxCalls /\ 0 \in 0..MaxOthers
      BY BoundsAssumption
    <2>4. calls \in [Writers -> 0..MaxCalls] /\ others \in 0..MaxOthers
      BY <2>3 DEF Init
    <2> QED
      BY <2>1, <2>2, <2>4 DEF TypeOK
  <1>2. SeenOK
    BY NoDocType, NoFlushOK DEF Init, SeenOK
  <1>3. OrphanOK /\ \A w \in Writers : FlushOK(flush[w]) /\ Parked(w, flush[w])
    BY NoFlushOK DEF Init, Parked, OrphanOK
  <1> QED
    BY <1>1, <1>2, <1>3 DEF IInv

-----------------------------------------------------------------------------
(***************************************************************************)
(* A step of a writer makes its flush f, and may write the document or     *)
(* park.                                                                   *)
(***************************************************************************)
\* What may become of the store and of the parked texts.
Kept ==
    /\ doc' \in Doc /\ (doc'.rev = 0 => doc' = doc)
    /\ fence' \in Nat /\ live' \in BOOLEAN
    /\ orphan' \in [doc: Doc, by: Writers] \cup {None}
    /\ parked \subseteq parked' /\ parked' \subseteq Conflict /\ notes' \subseteq parked'
    /\ \A c \in parked' : c.content \notin Secrets
    /\ known' = known

Same(f, g) == f.expect = g.expect /\ f.section = g.section /\ f.content = g.content

\* What may become of an orphan in a step of w, which makes its flush f.
OrphanKept(w, f) ==
    \/ orphan' = None
    \/ UNCHANGED <<doc, orphan>> /\ flush[w].pc # "idle"
    \/ /\ orphan'.by = w /\ f.pc = "idle" /\ f.result = "error"
       /\ orphan'.doc.rev >= 1 /\ Over(f, doc', orphan'.doc)

LEMMA StepKeeps ==
    ASSUME IInv, NEW w \in Writers, NEW f \in Flush, Set(w, f), FlushOK(f),
           Same(f, flush[w]), Kept, OrphanKept(w, f), UNCHANGED <<calls, others>>,
           f.pc = "note" \/ f.result = "parked" => ConflictOf(w) \in parked'
    PROVE  IInv'
  <1>1. flush' \in [Writers -> Flush] /\ flush'[w] = f
    BY DEF IInv, TypeOK, Set
  <1>2. \A v \in Writers : v # w => flush'[v] = flush[v]
    BY DEF IInv, TypeOK, Set
  <1>3. TypeOK'
    BY <1>1 DEF IInv, TypeOK, Kept
  <1>4. doc.rev \in Nat /\ doc'.rev \in Nat
    BY DEF IInv, TypeOK, Kept, Doc
  <1>5. SeenOK'
    BY <1>1, <1>2, <1>4 DEF IInv, SeenOK, Kept, Same
  <1>6. ASSUME NEW v \in Writers PROVE FlushOK(flush'[v]) /\ Parked(v, flush[v])'
    <2>1. CASE v = w
      BY <1>1, <2>1 DEF Parked, ConflictOf, Same
    <2>2. CASE v # w
      BY <1>2, <2>2 DEF IInv, Parked, ConflictOf, Kept
    <2> QED
      BY <2>1, <2>2
  <1>7. OrphanOK'
    <2>1. CASE orphan' = None
      BY <2>1 DEF OrphanOK
    <2>2. CASE UNCHANGED <<doc, orphan>> /\ flush[w].pc # "idle"
      <3> SUFFICES ASSUME orphan # None PROVE OrphanOK'
        BY <2>2 DEF OrphanOK
      <3>1. orphan.by \in Writers /\ orphan.by # w
        BY <2>2 DEF IInv, TypeOK, OrphanOK
      <3>2. flush'[orphan.by] = flush[orphan.by]
        BY <1>2, <3>1
      <3> QED
        BY <2>2, <3>2 DEF IInv, OrphanOK
    <2>3. CASE /\ orphan'.by = w /\ f.pc = "idle" /\ f.result = "error"
               /\ orphan'.doc.rev >= 1 /\ Over(f, doc', orphan'.doc)
      BY <1>1, <2>3 DEF OrphanOK
    <2> QED
      BY <2>1, <2>2, <2>3 DEF OrphanKept
  <1> QED
    BY <1>3, <1>5, <1>6, <1>7 DEF IInv

\* What a step that leaves the document and the parked texts alone keeps.
LEMMA NothingWritten ==
    ASSUME IInv, UNCHANGED <<doc, orphan, parked, notes, known>>, fence' \in Nat, live' \in BOOLEAN
    PROVE  Kept
  BY DEF IInv, TypeOK, SeenOK, Kept, Doc

\* The flush goes on to another place, where nothing is relied on.
LEMMA MovesOK ==
    ASSUME NEW f \in Flush, FlushOK(f), f.pc # "idle", NEW p \in {"lock", "read", "park", "note"}
    PROVE  LET g == [f EXCEPT !.pc = p] IN
           /\ g \in Flush /\ FlushOK(g) /\ Same(g, f) /\ g.pc = p /\ g.result = "none"
           /\ g.attempt = f.attempt /\ g.lease = f.lease /\ g.tries = f.tries
  <1> DEFINE g == [f EXCEPT !.pc = p]
  <1>1. /\ g \in Flush /\ g.pc = p /\ g.section = f.section /\ g.content = f.content
        /\ g.expect = f.expect /\ g.base = f.base /\ g.established = f.established
        /\ g.attempt = f.attempt /\ g.result = f.result /\ g.stored = f.stored /\ g.read = f.read
        /\ g.lease = f.lease /\ g.tries = f.tries
    BY DEF Flush
  <1> HIDE DEF g
  <1>2. FlushOK(g)
    BY <1>1 DEF FlushOK, Declared
  <1>3. g.result = "none"
    BY <1>1 DEF FlushOK
  <1> QED
    BY <1>1, <1>2, <1>3 DEF Same, g

\* It ends: nothing is stored by that alone.
LEMMA EndsOK ==
    ASSUME IInv, NEW w \in Writers,
           NEW r \in {"ok", "refused", "error", "secret", "park_failed", "parked"}
    PROVE  /\ Ends(w, r) \in Flush /\ Same(Ends(w, r), flush[w])
           /\ r # "ok" => FlushOK(Ends(w, r))
           /\ Ends(w, r).pc = "idle" /\ Ends(w, r).result = r /\ Ends(w, r).stored = FALSE
           /\ Ends(w, r).established = FALSE /\ Ends(w, r).attempt = 1
  <1> DEFINE f == flush[w]
             g == [NoFlush EXCEPT !.section = f.section]
             h == [g EXCEPT !.content = f.content]
             i == [h EXCEPT !.expect = f.expect]
             j == [i EXCEPT !.result = r]
  <1>1. f \in Flush /\ FlushOK(f)
    BY DEF IInv, TypeOK
  <1>2. Ends(w, r) = j
    BY DEF Ends
  <1> HIDE DEF f
  <1>3. /\ g \in Flush /\ g.pc = "idle" /\ g.section = f.section /\ g.attempt = 1
        /\ g.established = FALSE /\ g.stored = FALSE
    BY <1>1, NoFlushOK DEF Flush, NoFlush
  <1> HIDE DEF g
  <1>4. /\ h \in Flush /\ h.pc = "idle" /\ h.section = f.section /\ h.attempt = 1
        /\ h.established = FALSE /\ h.stored = FALSE /\ h.content = f.content
    BY <1>1, <1>3 DEF Flush
  <1> HIDE DEF h
  <1>5. /\ i \in Flush /\ i.pc = "idle" /\ i.section = f.section /\ i.attempt = 1
        /\ i.established = FALSE /\ i.stored = FALSE /\ i.content = f.content
        /\ i.expect = f.expect
    BY <1>1, <1>4 DEF Flush
  <1> HIDE DEF i
  <1>6. /\ j \in Flush /\ j.pc = "idle" /\ j.section = f.section /\ j.attempt = 1
        /\ j.established = FALSE /\ j.stored = FALSE /\ j.content = f.content
        /\ j.expect = f.expect /\ j.result = r
    BY <1>5 DEF Flush
  <1> HIDE DEF j
  <1>7. r # "ok" => FlushOK(j)
    BY <1>1, <1>6 DEF FlushOK
  <1> QED
    BY <1>1, <1>2, <1>6, <1>7 DEF Same, f

-----------------------------------------------------------------------------
(***************************************************************************)
(* The actions.                                                            *)
(***************************************************************************)
LEMMA BootstrapStep == ASSUME IInv, NEW w \in Writers, Bootstrap(w) PROVE IInv'
  <1>1. UNCHANGED <<doc, fence, live, orphan, parked, notes, flush, calls, others>>
    BY DEF Bootstrap, store
  <1>2. known' = [known EXCEPT ![w] = doc] /\ known' \in [Writers -> Doc]
    BY DEF Bootstrap, IInv, TypeOK
  <1>3. TypeOK'
    BY <1>1, <1>2 DEF IInv, TypeOK
  <1>4. doc.rev \in Nat
    BY DEF IInv, TypeOK, Doc
  <1>5. SeenOK'
    BY <1>1, <1>2, <1>4 DEF IInv, TypeOK, SeenOK
  <1> QED
    BY <1>1, <1>3, <1>5 DEF IInv, Parked, ConflictOf, OrphanOK

LEMMA BeginStep == ASSUME IInv, NEW w \in Writers, Begin(w) PROVE IInv'
  <1>1. PICK section \in Sections \cup {None}, content \in Contents \cup {Twice},
             expect \in {None, known[w]} :
          /\ calls[w] < MaxCalls /\ orphan = None /\ expect # NoDoc
          /\ Set(w, [NoFlush EXCEPT !.pc = "lock", !.section = section, !.content = content,
                                    !.expect = expect])
          /\ calls' = [calls EXCEPT ![w] = calls[w] + 1]
          /\ UNCHANGED <<store, parked, notes, known, others>>
    BY DEF Begin, IInv, TypeOK
  <1> DEFINE f == [NoFlush EXCEPT !.pc = "lock", !.section = section, !.content = content,
                                  !.expect = expect]
  <1>2. known[w] \in Doc /\ doc \in Doc /\ doc.rev \in Nat
    BY DEF IInv, TypeOK, Doc
  <1> DEFINE f1 == [NoFlush EXCEPT !.pc = "lock"]
             f2 == [f1 EXCEPT !.section = section]
             f3 == [f2 EXCEPT !.content = content]
             f4 == [f3 EXCEPT !.expect = expect]
  <1>3. /\ f1 \in Flush /\ f1.pc = "lock" /\ f1.attempt = 1 /\ f1.established = FALSE
        /\ f1.result = "none" /\ f1.stored = FALSE
    BY NoFlushOK DEF Flush, NoFlush
  <1> HIDE DEF f1
  <1>4. /\ f2 \in Flush /\ f2.pc = "lock" /\ f2.attempt = 1 /\ f2.established = FALSE
        /\ f2.result = "none" /\ f2.stored = FALSE
    BY <1>3 DEF Flush
  <1> HIDE DEF f2
  <1>13. /\ f3 \in Flush /\ f3.pc = "lock" /\ f3.attempt = 1 /\ f3.established = FALSE
         /\ f3.result = "none" /\ f3.stored = FALSE
    BY <1>4 DEF Flush
  <1> HIDE DEF f3
  <1>14. /\ f4 \in Flush /\ f4.pc = "lock" /\ f4.attempt = 1 /\ f4.established = FALSE
         /\ f4.result = "none" /\ f4.stored = FALSE /\ f4.expect = expect
    BY <1>2, <1>13 DEF Flush
  <1>15. f = f4
    BY DEF f1, f2, f3
  <1> HIDE DEF f4
  <1>7. flush' = [flush EXCEPT ![w] = f]
    BY <1>1 DEF Set
  <1> HIDE DEF f
  <1>5. expect # None => expect.rev >= 1 /\ doc.rev >= 1
    BY <1>1 DEF IInv, SeenOK
  <1>6. FlushOK(f) /\ f.expect = expect /\ f.pc = "lock" /\ f.result = "none"
    BY <1>5, <1>14, <1>15 DEF FlushOK
  <1>8. flush' \in [Writers -> Flush] /\ flush'[w] = f
    BY <1>7, <1>14, <1>15 DEF IInv, TypeOK
  <1>9. calls' \in [Writers -> 0..MaxCalls] /\ \A v \in Writers : v # w => calls'[v] = calls[v]
    BY <1>1, BoundsAssumption DEF IInv, TypeOK
  <1>10. TypeOK'
    BY <1>1, <1>8, <1>9 DEF IInv, TypeOK, store
  <1>11. SeenOK'
    BY <1>1, <1>5, <1>6, <1>7, <1>8 DEF IInv, TypeOK, SeenOK, store
  <1>12. ASSUME NEW v \in Writers PROVE FlushOK(flush'[v]) /\ Parked(v, flush[v])'
    <2>1. CASE v = w
      BY <1>6, <1>8, <2>1 DEF Parked
    <2>2. CASE v # w
      BY <1>1, <1>7, <1>9, <2>2 DEF IInv, TypeOK, Parked, ConflictOf
    <2> QED
      BY <2>1, <2>2
  <1>16. OrphanOK'
    BY <1>1 DEF OrphanOK, store
  <1> QED
    BY <1>10, <1>11, <1>12, <1>16 DEF IInv

LEMMA LockStep == ASSUME IInv, NEW w \in Writers, Lock(w) PROVE IInv'
  <1> DEFINE f == flush[w]
             g == [f EXCEPT !.pc = "read"]
             h == [g EXCEPT !.lease = fence + 1]
  <1>1. f \in Flush /\ FlushOK(f) /\ f.pc # "idle" /\ fence + 1 \in Nat
    BY DEF IInv, TypeOK, Lock, At
  <1>2. Set(w, h) /\ UNCHANGED <<calls, others>>
    BY DEF Lock
  <1>3. Kept /\ UNCHANGED <<doc, orphan>>
    BY <1>1, NothingWritten DEF Lock
  <1> HIDE DEF f
  <1>4. g \in Flush /\ FlushOK(g) /\ Same(g, f) /\ g.pc = "read" /\ g.result = "none"
    BY <1>1, MovesOK
  <1> HIDE DEF g
  <1>5. /\ h \in Flush /\ h.pc = g.pc /\ h.section = g.section /\ h.content = g.content
        /\ h.expect = g.expect /\ h.base = g.base /\ h.established = g.established
        /\ h.attempt = g.attempt /\ h.result = g.result /\ h.stored = g.stored /\ h.read = g.read
    BY <1>1, <1>4 DEF Flush
  <1> HIDE DEF h
  <1>6. FlushOK(h) /\ Same(h, flush[w]) /\ OrphanKept(w, h)
    BY <1>1, <1>3, <1>4, <1>5 DEF FlushOK, Declared, Same, OrphanKept, f
  <1> QED
    BY <1>2, <1>3, <1>4, <1>5, <1>6, StepKeeps

\* The flush goes to its end without writing anything.
LEMMA QuietStep ==
    ASSUME IInv, NEW w \in Writers, NEW f \in Flush, Set(w, f), FlushOK(f), Same(f, flush[w]),
           f.pc # "note" /\ f.result # "parked", flush[w].pc # "idle",
           UNCHANGED <<doc, fence, orphan, parked, notes, known, calls, others>>,
           live' \in BOOLEAN
    PROVE  IInv'
  <1>1. Kept /\ OrphanKept(w, f)
    BY NothingWritten DEF IInv, TypeOK, OrphanKept
  <1> QED
    BY <1>1, StepKeeps

\* The lease is freed, or is another's.
LEMMA UnlockedType == ASSUME IInv, NEW w PROVE Unlocked(w) \in BOOLEAN
  BY DEF IInv, TypeOK, Unlocked, Owns

\* Steps to the park place.
LEMMA LeavesStep ==
    ASSUME IInv, NEW w \in Writers, BusyDeadline(w) \/ SectionConflict(w)
    PROVE  IInv'
  <1>1. /\ Set(w, [flush[w] EXCEPT !.pc = "park"])
        /\ UNCHANGED <<doc, fence, orphan, parked, notes, known, calls, others>>
        /\ ~At(w, "idle")
    BY DEF BusyDeadline, SectionConflict, Reads, At, store
  <1>2. flush[w] \in Flush /\ FlushOK(flush[w]) /\ flush[w].pc # "idle"
    BY <1>1 DEF IInv, TypeOK, At
  <1>3. live' \in BOOLEAN
    BY UnlockedType DEF BusyDeadline, SectionConflict, store, IInv, TypeOK
  <1> DEFINE g == [flush[w] EXCEPT !.pc = "park"]
  <1>4. g \in Flush /\ FlushOK(g) /\ Same(g, flush[w]) /\ g.pc = "park" /\ g.result = "none"
    BY <1>2, MovesOK
  <1> HIDE DEF g
  <1>5. Set(w, g)
    BY <1>1 DEF g
  <1> QED
    BY <1>1, <1>2, <1>3, <1>4, <1>5, QuietStep

\* Ends that write nothing.
LEMMA RefusesStep ==
    ASSUME IInv, NEW w \in Writers, HashRequired(w) \/ ParkBlocked(w)
    PROVE  IInv'
  <1>1. /\ \E r \in {"refused", "secret"} : Set(w, Ends(w, r))
        /\ UNCHANGED <<doc, fence, orphan, parked, notes, known, calls, others>>
        /\ flush[w].pc # "idle"
    BY DEF HashRequired, ParkBlocked, At, store
  <1>2. live' \in BOOLEAN
    BY UnlockedType DEF HashRequired, ParkBlocked, store, IInv, TypeOK
  <1> QED
    BY <1>1, <1>2, EndsOK, QuietStep

-----------------------------------------------------------------------------
\* A section's base is the text of the version declared: at first because the
\* document is that version, later because the section is still the base.
LEMMA BaseIsDeclared ==
    ASSUME IInv, NEW w \in Writers, ReadSection(w)
    PROVE  Seen(w) = Declared(flush[w]).text[flush[w].section]
  <1> DEFINE f == flush[w]
  <1>1. f \in Flush /\ FlushOK(f) /\ Reads(w) /\ BaseHolds(w)
    BY DEF IInv, TypeOK, ReadSection
  <1>2. CASE f.established
    BY <1>1, <1>2 DEF BaseHolds, FlushOK
  <1>3. CASE ~f.established /\ f.expect # None
    BY <1>1, <1>3 DEF BaseHolds, Declared, Seen
  <1>4. CASE ~f.established /\ f.expect = None
    <2>1. ~(f.attempt > 1)
      BY <1>1, <1>4 DEF FlushOK
    <2> QED
      BY <1>1, <1>4, <2>1 DEF Reads, Declared, Seen
  <1> QED
    BY <1>2, <1>3, <1>4

LEMMA ReadSectionStep == ASSUME IInv, NEW w \in Writers, ReadSection(w) PROVE IInv'
  <1> DEFINE f == flush[w]
             g1 == [f EXCEPT !.pc = "persist"]
             g2 == [g1 EXCEPT !.read = doc]
             g3 == [g2 EXCEPT !.base = Seen(w)]
             g  == [g3 EXCEPT !.established = TRUE]
  <1>1. /\ f \in Flush /\ FlushOK(f) /\ f.pc # "idle" /\ doc \in Doc
        /\ f.section \in Sections
    BY DEF IInv, TypeOK, ReadSection, Reads, At, Flush
  <1>2. Seen(w) \in Contents \cup {Absent} /\ Seen(w) = doc.text[f.section]
    BY <1>1 DEF ReadSection, Doc, Texts, Seen
  <1>3. Seen(w) = Declared(f).text[f.section]
    BY BaseIsDeclared
  <1>4. Set(w, g) /\ UNCHANGED <<doc, fence, live, orphan, parked, notes, known, calls, others>>
    BY DEF ReadSection, store
  <1>5. /\ g1 \in Flush /\ g1.pc = "persist" /\ g1.section = f.section /\ g1.content = f.content
        /\ g1.expect = f.expect /\ g1.attempt = f.attempt /\ g1.result = f.result
        /\ g1.stored = f.stored
    BY <1>1 DEF Flush
  <1> HIDE DEF g1
  <1>6. /\ g2 \in Flush /\ g2.pc = "persist" /\ g2.section = f.section /\ g2.content = f.content
        /\ g2.expect = f.expect /\ g2.attempt = f.attempt /\ g2.result = f.result
        /\ g2.stored = f.stored /\ g2.read = doc
    BY <1>1, <1>5 DEF Flush
  <1> HIDE DEF g2
  <1>7. /\ g3 \in Flush /\ g3.pc = "persist" /\ g3.section = f.section /\ g3.content = f.content
        /\ g3.expect = f.expect /\ g3.attempt = f.attempt /\ g3.result = f.result
        /\ g3.stored = f.stored /\ g3.read = doc /\ g3.base = Seen(w)
    BY <1>2, <1>6 DEF Flush
  <1> HIDE DEF g3
  <1>8. /\ g \in Flush /\ g.pc = "persist" /\ g.section = f.section /\ g.content = f.content
        /\ g.expect = f.expect /\ g.attempt = f.attempt /\ g.result = f.result
        /\ g.stored = f.stored /\ g.read = doc /\ g.base = Seen(w) /\ g.established = TRUE
    BY <1>7 DEF Flush
  <1> HIDE DEF g
  <1>9. f.section # None /\ f.result = "none" /\ live' \in BOOLEAN
    BY <1>1, <1>4, NoneAssumption DEF FlushOK, IInv, TypeOK
  <1>10. FlushOK(g)
    BY <1>1, <1>2, <1>3, <1>8, <1>9 DEF FlushOK, Declared
  <1>11. Same(g, flush[w])
    BY <1>8 DEF Same
  <1> QED
    BY <1>1, <1>4, <1>8, <1>9, <1>10, <1>11, QuietStep

\* A whole document was declared if there is one.
LEMMA ReadWholeStep == ASSUME IInv, NEW w \in Writers, ReadWhole(w) PROVE IInv'
  <1> DEFINE f == flush[w]
             g1 == [f EXCEPT !.pc = "persist"]
             g  == [g1 EXCEPT !.read = doc]
  <1>1. f \in Flush /\ FlushOK(f) /\ f.pc # "idle" /\ doc \in Doc /\ f.section = None
    BY DEF IInv, TypeOK, ReadWhole, Reads, At
  <1>2. Set(w, g) /\ UNCHANGED <<doc, fence, live, orphan, parked, notes, known, calls, others>>
    BY DEF ReadWhole, store
  <1>3. /\ g1 \in Flush /\ g1.pc = "persist" /\ g1.section = f.section /\ g1.content = f.content
        /\ g1.expect = f.expect /\ g1.attempt = f.attempt /\ g1.result = f.result
        /\ g1.stored = f.stored /\ g1.established = f.established
    BY <1>1 DEF Flush
  <1> HIDE DEF g1
  <1>4. /\ g \in Flush /\ g.pc = "persist" /\ g.section = f.section /\ g.content = f.content
        /\ g.expect = f.expect /\ g.attempt = f.attempt /\ g.result = f.result
        /\ g.stored = f.stored /\ g.established = f.established /\ g.read = doc
    BY <1>1, <1>3 DEF Flush
  <1> HIDE DEF g
  <1>5. doc = NoDoc <=> f.expect = None
    <2>1. f.expect # None => doc # NoDoc
      BY NoDocType DEF IInv, SeenOK
    <2>2. f.expect = None => doc = NoDoc
      BY <1>1 DEF ReadWhole, Reads, FlushOK
    <2> QED
      BY <2>1, <2>2
  <1>6. FlushOK(g)
    BY <1>1, <1>4, <1>5 DEF FlushOK
  <1>7. Same(g, flush[w]) /\ g.result = "none" /\ live' \in BOOLEAN
    BY <1>1, <1>2, <1>4 DEF Same, FlushOK, IInv, TypeOK
  <1> QED
    BY <1>1, <1>2, <1>4, <1>6, <1>7, QuietStep

\* STALE or EXISTS: the base stays.
LEMMA LosesStep == ASSUME IInv, NEW w \in Writers, Loses(w) PROVE IInv'
  <1> DEFINE f == flush[w]
  <1>1. f \in Flush /\ FlushOK(f) /\ f.pc = "persist"
    BY DEF IInv, TypeOK, Loses, At
  <1>2. UNCHANGED <<doc, fence, orphan, parked, notes, known, calls, others>> /\ live' \in BOOLEAN
    BY UnlockedType DEF Loses
  <1>3. CASE f.section # None /\ f.attempt < MaxAttempts
    <2> DEFINE g == [f EXCEPT !.pc = "lock"]
               h == [g EXCEPT !.attempt = f.attempt + 1]
    <2>1. Set(w, h)
      BY <1>3 DEF Loses
    <2>2. f.established /\ f.attempt + 1 \in 1..MaxAttempts
      BY <1>1, <1>3, BoundsAssumption DEF FlushOK, Flush
    <2>3. /\ g \in Flush /\ g.pc = "lock" /\ g.section = f.section /\ g.content = f.content
          /\ g.expect = f.expect /\ g.base = f.base /\ g.established = f.established
          /\ g.result = f.result /\ g.stored = f.stored
      BY <1>1 DEF Flush
    <2> HIDE DEF g
    <2>4. /\ h \in Flush /\ h.pc = "lock" /\ h.section = f.section /\ h.content = f.content
          /\ h.expect = f.expect /\ h.base = f.base /\ h.established = f.established
          /\ h.result = f.result /\ h.stored = f.stored
      BY <2>2, <2>3 DEF Flush
    <2> HIDE DEF h
    <2>5. FlushOK(h) /\ Same(h, flush[w]) /\ h.result = "none"
      BY <1>1, <1>3, <2>2, <2>4 DEF FlushOK, Declared, Same
    <2> QED
      BY <1>1, <1>2, <2>1, <2>4, <2>5, QuietStep
  <1>4. CASE ~(f.section # None /\ f.attempt < MaxAttempts)
    <2> DEFINE g == [f EXCEPT !.pc = "park"]
    <2>1. Set(w, g)
      BY <1>4 DEF Loses
    <2>2. g \in Flush /\ FlushOK(g) /\ Same(g, flush[w]) /\ g.pc = "park" /\ g.result = "none"
      BY <1>1, MovesOK
    <2> HIDE DEF g
    <2> QED
      BY <1>1, <1>2, <2>1, <2>2, QuietStep
  <1> QED
    BY <1>3, <1>4

\* The document written has a later revision.
LEMMA OutType ==
    ASSUME NEW w \in Writers, flush[w] \in Flush
    PROVE  Out(w) \in Doc /\ Out(w).rev = flush[w].read.rev + 1 /\ Out(w).rev >= 1
           /\ \A s \in Sections : Out(w).text[s] = IF flush[w].section \in {None, s}
                                                   THEN flush[w].content ELSE flush[w].read.text[s]
  <1>1. /\ flush[w].read \in Doc /\ flush[w].content \in Contents \cup {Twice}
    BY DEF Flush
  <1>2. flush[w].read.rev \in Nat /\ flush[w].read.text \in Texts
    BY <1>1 DEF Doc
  <1> QED
    BY <1>1, <1>2 DEF Out, Doc, Texts

\* What a flush whose write is admitted writes over.
LEMMA AdmittedOver ==
    ASSUME IInv, NEW w \in Writers, At(w, "persist"), Admitted(w)
    PROVE  Over(flush[w], doc, Out(w))
  <1> DEFINE f == flush[w]
  <1>1. f \in Flush /\ FlushOK(f) /\ f.pc = "persist" /\ doc = Expected(w)
    BY DEF IInv, TypeOK, At, Admitted
  <1>2. CASE f.section = None
    BY <1>1, <1>2 DEF Expected, FlushOK, Declared, Over
  <1>3. CASE f.section # None
    <2>1. doc = f.read
      BY <1>1, <1>3 DEF Expected
    <2>2. doc.text[f.section] = Declared(f).text[f.section]
      BY <1>1, <1>3, <2>1 DEF FlushOK
    <2>3. \A s \in Sections \ {f.section} : Out(w).text[s] = doc.text[s]
      BY <1>1, <1>3, <2>1, OutType, NoneAssumption
    <2> QED
      BY <1>3, <2>2, <2>3 DEF Over
  <1> QED
    BY <1>2, <1>3

\* The document is written, whatever is answered.
LEMMA PublishesStep ==
    ASSUME IInv, NEW w \in Writers, NEW r \in {"ok", "error"}, At(w, "persist"), Publishes(w, r),
           UNCHANGED <<fence, parked, notes, known, calls, others>>, live' \in BOOLEAN
    PROVE  IInv'
  <1> DEFINE g == [Ends(w, r) EXCEPT !.stored = TRUE]
  <1>1. Set(w, g) /\ doc' = Out(w) /\ orphan' = None
    BY DEF Publishes
  <1>2. /\ Ends(w, r) \in Flush /\ Same(Ends(w, r), flush[w]) /\ Ends(w, r).pc = "idle"
        /\ Ends(w, r).result = r /\ Ends(w, r).established = FALSE /\ Ends(w, r).attempt = 1
    BY EndsOK
  <1>3. flush[w] \in Flush /\ FlushOK(flush[w])
    BY DEF IInv, TypeOK
  <1>4. /\ g \in Flush /\ g.pc = "idle" /\ g.result = r /\ g.established = FALSE
        /\ g.attempt = 1 /\ g.stored = TRUE /\ Same(g, flush[w])
    BY <1>2 DEF Flush, Same
  <1> HIDE DEF g
  <1>5. FlushOK(g)
    BY <1>3, <1>4 DEF FlushOK, Same
  <1>6. doc' \in Doc /\ doc'.rev >= 1
    BY <1>1, <1>3, OutType
  <1>7. doc'.rev # 0
    BY <1>6
  <1>8. Kept /\ OrphanKept(w, g)
    BY <1>1, <1>6, <1>7 DEF Kept, OrphanKept, IInv, TypeOK
  <1>9. g.pc # "note" /\ g.result # "parked"
    BY <1>4
  <1> QED
    BY <1>1, <1>4, <1>5, <1>8, <1>9, StepKeeps

\* The write is journaled, and may be published later.
LEMMA JournalsOnlyStep ==
    ASSUME IInv, NEW w \in Writers, At(w, "persist"), JournalsOnly(w, "error"),
           UNCHANGED <<fence, parked, notes, known, calls, others>>, live' \in BOOLEAN
    PROVE  IInv'
  <1> DEFINE g == Ends(w, "error")
  <1>1. Set(w, g) /\ doc' = doc /\ orphan' = [doc |-> Out(w), by |-> w]
    BY DEF JournalsOnly
  <1>2. /\ g \in Flush /\ Same(g, flush[w]) /\ FlushOK(g)
        /\ g.pc = "idle" /\ g.result = "error"
    BY EndsOK
  <1> HIDE DEF g
  <1>3. Out(w) \in Doc /\ Out(w).rev >= 1
    BY OutType DEF IInv, TypeOK
  <1>4. Over(flush[w], doc, Out(w))
    BY AdmittedOver DEF JournalsOnly
  <1>5. Over(g, doc', Out(w))
    BY <1>1, <1>2, <1>4 DEF Over, Declared, Same
  <1>6. OrphanKept(w, g)
    BY <1>1, <1>2, <1>3, <1>5 DEF OrphanKept
  <1>7. Kept
    BY <1>1, <1>3 DEF Kept, IInv, TypeOK, SeenOK
  <1> QED
    BY <1>1, <1>2, <1>6, <1>7, StepKeeps

LEMMA StoresStep == ASSUME IInv, NEW w \in Writers, Stores(w) PROVE IInv'
  BY UnlockedType, PublishesStep DEF Stores

LEMMA PersistErrorStep == ASSUME IInv, NEW w \in Writers, PersistError(w) PROVE IInv'
  <1>1. /\ At(w, "persist") /\ live' \in BOOLEAN
        /\ UNCHANGED <<fence, parked, notes, known, calls, others>>
    BY UnlockedType DEF PersistError
  <1>2. ASSUME NEW r \in {"secret", "error"}, WritesNothing(w, r) PROVE IInv'
    BY <1>1, <1>2, EndsOK, QuietStep DEF WritesNothing, At
  <1>3. CASE Publishes(w, "error")
    BY <1>1, <1>3, PublishesStep
  <1>4. CASE JournalsOnly(w, "error")
    BY <1>1, <1>4, JournalsOnlyStep
  <1> QED
    BY <1>2, <1>3, <1>4 DEF PersistError

-----------------------------------------------------------------------------
\* What is parked is the text of the flush, and no secret.
LEMMA ConflictType ==
    ASSUME IInv, NEW w \in Writers, ~IsSecret(w)
    PROVE  ConflictOf(w) \in Conflict /\ ConflictOf(w).content \notin Secrets
  <1>1. calls[w] \in Nat
    BY BoundsAssumption DEF IInv, TypeOK
  <1>2. flush[w].section \in Sections \cup {None} /\ flush[w].content \in Contents \cup {Twice}
    BY DEF IInv, TypeOK, Flush
  <1> QED
    BY <1>1, <1>2 DEF Conflict, ConflictOf, IsSecret

LEMMA ParkStep == ASSUME IInv, NEW w \in Writers, Park(w) PROVE IInv'
  <1> DEFINE g == [flush[w] EXCEPT !.pc = "note"]
  <1>1. flush[w] \in Flush /\ FlushOK(flush[w]) /\ flush[w].pc # "idle"
    BY DEF IInv, TypeOK, Park, At
  <1>2. /\ Set(w, g) /\ parked' = parked \cup {ConflictOf(w)}
        /\ UNCHANGED <<doc, fence, live, orphan, notes, known, calls, others>>
    BY DEF Park, store
  <1>3. g \in Flush /\ FlushOK(g) /\ Same(g, flush[w])
    BY <1>1, MovesOK
  <1> HIDE DEF g
  <1>4. ConflictOf(w) \in Conflict /\ ConflictOf(w).content \notin Secrets
    BY ConflictType DEF Park
  <1>5. Kept /\ OrphanKept(w, g)
    BY <1>1, <1>2, <1>4 DEF Kept, OrphanKept, IInv, TypeOK
  <1>6. ConflictOf(w) \in parked'
    BY <1>2
  <1> QED
    BY <1>2, <1>3, <1>5, <1>6, StepKeeps

\* Another try, or the end.
LEMMA ParkFailsStep == ASSUME IInv, NEW w \in Writers, ParkFails(w) PROVE IInv'
  <1> DEFINE f == flush[w]
  <1>1. f \in Flush /\ FlushOK(f) /\ f.pc = "park" /\ f.result = "none"
    BY DEF IInv, TypeOK, ParkFails, At, FlushOK
  <1>2. /\ UNCHANGED <<doc, fence, live, orphan, notes, known, calls, others>>
        /\ parked' \in {parked, parked \cup {ConflictOf(w)}}
    BY DEF ParkFails, store
  <1>5. ConflictOf(w) \in Conflict /\ ConflictOf(w).content \notin Secrets
    BY ConflictType DEF ParkFails
  <1>6. Kept /\ \A g : OrphanKept(w, g)
    BY <1>1, <1>2, <1>5 DEF Kept, OrphanKept, IInv, TypeOK
  <1>3. CASE f.tries + 1 < ParkTries
    <2> DEFINE g == [f EXCEPT !.tries = f.tries + 1]
    <2>1. Set(w, g)
      BY <1>3 DEF ParkFails
    <2>2. f.tries + 1 \in 0..ParkTries
      BY <1>1, <1>3, BoundsAssumption DEF Flush
    <2>3. /\ g \in Flush /\ g.pc = f.pc /\ g.section = f.section /\ g.content = f.content
          /\ g.expect = f.expect /\ g.base = f.base /\ g.established = f.established
          /\ g.result = f.result /\ g.stored = f.stored /\ g.attempt = f.attempt
      BY <1>1, <2>2 DEF Flush
    <2> HIDE DEF g
    <2>4. FlushOK(g) /\ Same(g, flush[w]) /\ g.result = "none" /\ g.pc # "note"
      BY <1>1, <2>3 DEF FlushOK, Declared, Same
    <2> QED
      BY <1>2, <1>6, <2>1, <2>3, <2>4, StepKeeps
  <1>4. CASE ~(f.tries + 1 < ParkTries)
    <2>1. Set(w, Ends(w, "park_failed"))
      BY <1>4 DEF ParkFails
    <2>2. /\ Ends(w, "park_failed") \in Flush /\ FlushOK(Ends(w, "park_failed"))
          /\ Same(Ends(w, "park_failed"), f) /\ Ends(w, "park_failed").pc = "idle"
          /\ Ends(w, "park_failed").result = "park_failed"
      BY EndsOK
    <2> QED
      BY <1>2, <1>6, <2>1, <2>2, StepKeeps
  <1> QED
    BY <1>3, <1>4

\* "parked" is said of a text that Park has parked.
LEMMA NoteStep == ASSUME IInv, NEW w \in Writers, Note(w) PROVE IInv'
  <1>1. /\ Set(w, Ends(w, "parked")) /\ flush[w].pc # "idle"
        /\ notes' = notes \cup {ConflictOf(w)} \/ notes' = notes
        /\ UNCHANGED <<doc, fence, live, orphan, parked, known, calls, others>>
    BY DEF Note, store, At
  <1>2. ConflictOf(w) \in parked
    BY DEF IInv, Parked, Note, At
  <1>3. Kept /\ OrphanKept(w, Ends(w, "parked"))
    BY <1>1, <1>2 DEF Kept, OrphanKept, IInv, TypeOK
  <1>4. ConflictOf(w) \in parked'
    BY <1>1, <1>2
  <1> QED
    BY <1>1, <1>3, <1>4, EndsOK, StepKeeps

LEMMA CrashStep == ASSUME IInv, NEW w \in Writers, Crash(w) PROVE IInv'
  <1>1. UNCHANGED <<fence, live, parked, notes, known, calls, others>> /\ flush[w].pc # "idle"
    BY DEF Crash, At
  <1>2. CASE Set(w, NoFlush) /\ UNCHANGED <<doc, orphan>>
    <2>1. /\ flush' \in [Writers -> Flush] /\ flush'[w] = NoFlush
          /\ \A v \in Writers : v # w => flush'[v] = flush[v]
      BY <1>2, NoFlushOK DEF IInv, TypeOK, Set
    <2>2. TypeOK'
      BY <1>1, <1>2, <2>1 DEF IInv, TypeOK
    <2>3. SeenOK'
      BY <1>1, <1>2, <2>1, NoFlushOK DEF IInv, SeenOK
    <2>4. OrphanOK'
      <3> SUFFICES ASSUME orphan # None PROVE OrphanOK'
        BY <1>2 DEF OrphanOK
      <3>1. orphan.by \in Writers /\ orphan.by # w
        BY <1>1 DEF IInv, TypeOK, OrphanOK
      <3>2. flush'[orphan.by] = flush[orphan.by]
        BY <2>1, <3>1
      <3> QED
        BY <1>2, <3>2 DEF IInv, OrphanOK
    <2>5. ASSUME NEW v \in Writers PROVE FlushOK(flush'[v]) /\ Parked(v, flush[v])'
      <3>1. CASE v = w
        BY <2>1, <3>1, NoFlushOK DEF Parked
      <3>2. CASE v # w
        BY <1>1, <2>1, <3>2 DEF IInv, Parked, ConflictOf
      <3> QED
        BY <3>1, <3>2
    <2> QED
      BY <2>2, <2>3, <2>4, <2>5 DEF IInv
  <1>3. CASE At(w, "persist") /\ (Publishes(w, "error") \/ JournalsOnly(w, "error"))
    <2>1. live' \in BOOLEAN
      BY <1>1 DEF IInv, TypeOK
    <2> QED
      BY <1>1, <1>3, <2>1, PublishesStep, JournalsOnlyStep
  <1> QED
    BY <1>2, <1>3 DEF Crash

\* A replay: the document is the orphan's, which nothing has overtaken.
LEMMA ResumeStep ==
    ASSUME IInv, Resume
    PROVE  /\ IInv'
           /\ \A w \in Writers : flush'[w].stored /\ ~flush[w].stored => Over(flush[w], doc, doc')
  <1> DEFINE u == orphan.by
             g == [flush[u] EXCEPT !.stored = TRUE]
  <1>1. /\ u \in Writers /\ orphan.doc \in Doc /\ doc' = orphan.doc /\ orphan' = None
        /\ flush' = [flush EXCEPT ![u] = g]
        /\ UNCHANGED <<fence, live, parked, notes, known, calls, others>>
    BY DEF Resume, IInv, TypeOK
  <1>2. /\ flush[u] \in Flush /\ FlushOK(flush[u]) /\ flush[u].pc = "idle"
        /\ flush[u].result = "error" /\ doc'.rev >= 1 /\ Over(flush[u], doc, doc')
    BY <1>1 DEF Resume, IInv, TypeOK, OrphanOK
  <1> HIDE DEF u
  <1>3. /\ g \in Flush /\ g.pc = "idle" /\ g.result = "error" /\ g.stored = TRUE
        /\ g.attempt = flush[u].attempt /\ g.established = flush[u].established
        /\ g.base = flush[u].base /\ Same(g, flush[u])
    BY <1>2 DEF Flush, Same
  <1> HIDE DEF g
  <1>4. FlushOK(g)
    BY <1>2, <1>3 DEF FlushOK, Same, Declared
  <1>5. /\ flush' \in [Writers -> Flush] /\ flush'[u] = g
        /\ \A v \in Writers : v # u => flush'[v] = flush[v]
    BY <1>1, <1>3 DEF IInv, TypeOK
  <1>6. TypeOK'
    BY <1>1, <1>5 DEF IInv, TypeOK
  <1>7. doc.rev \in Nat /\ doc'.rev \in Nat
    BY <1>1 DEF IInv, TypeOK, Doc
  <1>8. SeenOK'
    <2>1. doc'.rev # 0
      BY <1>2, <1>7
    <2> QED
      BY <1>1, <1>2, <1>3, <1>5, <2>1 DEF IInv, SeenOK, Same
  <1>9. OrphanOK'
    BY <1>1 DEF OrphanOK
  <1>10. ASSUME NEW v \in Writers PROVE FlushOK(flush'[v]) /\ Parked(v, flush[v])'
    <2>1. CASE v = u
      BY <1>3, <1>4, <1>5, <2>1 DEF Parked
    <2>2. CASE v # u
      BY <1>1, <1>5, <2>2 DEF IInv, Parked, ConflictOf
    <2> QED
      BY <2>1, <2>2
  <1> QED
    BY <1>2, <1>5, <1>6, <1>8, <1>9, <1>10 DEF IInv

\* A change of the store by nobody's flush.
LEMMA StoreStep ==
    ASSUME IInv, doc' \in Doc, doc'.rev = 0 => doc' = doc, fence' \in Nat, live' \in BOOLEAN,
           others' \in 0..MaxOthers, UNCHANGED <<parked, notes, flush, known, calls>>,
           orphan' = None \/ UNCHANGED <<doc, orphan>>
    PROVE  IInv'
  <1>1. TypeOK'
    BY DEF IInv, TypeOK
  <1>2. doc.rev \in Nat /\ doc'.rev \in Nat
    BY DEF IInv, TypeOK, Doc
  <1>3. SeenOK'
    BY <1>2 DEF IInv, SeenOK
  <1>4. \A v \in Writers : FlushOK(flush'[v]) /\ Parked(v, flush[v])'
    BY DEF IInv, Parked, ConflictOf
  <1>5. OrphanOK'
    BY DEF IInv, OrphanOK
  <1> QED
    BY <1>1, <1>3, <1>4, <1>5 DEF IInv

LEMMA ExpireStep == ASSUME IInv, Expire PROVE IInv'
  <1>1. doc' = doc /\ UNCHANGED <<fence, orphan, parked, notes, flush, known, calls, others>>
        /\ live' \in BOOLEAN
    BY DEF Expire
  <1>2. doc \in Doc /\ fence \in Nat /\ others \in 0..MaxOthers
    BY DEF IInv, TypeOK
  <1> QED
    BY <1>1, <1>2, StoreStep

LEMMA OthersWriteStep == ASSUME IInv, OthersWrite PROVE IInv'
  <1>1. PICK c \in (Contents \ Secrets) \cup {Twice}, s \in Sections :
          /\ others < MaxOthers /\ others' = others + 1
          /\ fence' = fence \/ fence' = fence + 1
          /\ orphan' = None
          /\ doc' = [rev |-> doc.rev + 1, text |-> [doc.text EXCEPT ![s] = c]]
          /\ UNCHANGED <<live, parked, notes, flush, known, calls>>
    BY DEF OthersWrite
  <1>2. doc \in Doc /\ doc.rev \in Nat /\ doc.text \in Texts
    BY DEF IInv, TypeOK, Doc
  <1>3. doc' \in Doc /\ doc'.rev # 0
    BY <1>1, <1>2 DEF Doc, Texts
  <1>4. fence' \in Nat /\ live' \in BOOLEAN
    BY <1>1 DEF IInv, TypeOK
  <1>5. others' \in 0..MaxOthers
    BY <1>1, BoundsAssumption DEF IInv, TypeOK
  <1> QED
    BY <1>1, <1>3, <1>4, <1>5, StoreStep

LEMMA StutterIInv == IInv /\ UNCHANGED vars => IInv'
  <1> SUFFICES ASSUME IInv, UNCHANGED vars PROVE IInv'
    OBVIOUS
  <1>1. UNCHANGED <<doc, fence, live, orphan, parked, notes, flush, known, calls, others>>
    BY DEF vars, store
  <1>2. doc \in Doc /\ fence \in Nat /\ live \in BOOLEAN /\ others \in 0..MaxOthers
    BY DEF IInv, TypeOK
  <1> QED
    BY <1>1, <1>2, StoreStep

LEMMA NextIInv == IInv /\ Next => IInv'
  <1> SUFFICES ASSUME IInv, Next PROVE IInv'
    OBVIOUS
  <1>1. ASSUME NEW w \in Writers, Step(w) PROVE IInv'
    BY <1>1, LockStep, LeavesStep, RefusesStep, ReadWholeStep, ReadSectionStep, StoresStep,
       LosesStep, PersistErrorStep, ParkStep, ParkFailsStep, NoteStep DEF Step
  <1> QED
    BY <1>1, BootstrapStep, BeginStep, CrashStep, ResumeStep, ExpireStep, OthersWriteStep
       DEF Next

-----------------------------------------------------------------------------
(***************************************************************************)
(* The theorems.                                                           *)
(***************************************************************************)
\* The inductive invariant of flush_state and flush_log: types, that no version
\* once seen becomes the absent one, and what each flush has seen and parked.
THEOREM InductiveInvariant == Spec => []IInv
  BY InitIInv, NextIInv, StutterIInv, PTL DEF Spec

\* Every variable keeps its type, and no secret is ever parked under a conflict
\* key (_park_conflict goes through the gate).
THEOREM TypeCorrect == Spec => []TypeOK
  BY InductiveInvariant, PTL DEF IInv

LEMMA NothingLostFromIInv == IInv => NothingLostSilently
  BY DEF IInv, NothingLostSilently, FlushOK, Parked, At

\* No flush drops a text without a word, or stores one against its answer: OK is
\* said of a stored text, "parked" of one that is parked, and a text that was
\* refused, or parked, or failed to park, is never stored, whatever an error of the
\* store left in its journal and whenever that is replayed.
THEOREM NoSilentLoss == Spec => []NothingLostSilently
  BY InductiveInvariant, NothingLostFromIInv, PTL

\* Only a write that is admitted, or its replay, begins to have stored.
LEMMA StoredByAdmitted ==
    ASSUME IInv, Next, NEW w \in Writers, flush'[w].stored, ~flush[w].stored,
           calls'[w] = calls[w]
    PROVE  \/ Resume
           \/ At(w, "persist") /\ \E r : Publishes(w, r)
  <1> SUFFICES ASSUME ~Resume PROVE At(w, "persist") /\ \E r : Publishes(w, r)
    OBVIOUS
  <1> USE DEF Set
  <1>1. flush \in [Writers -> Flush] /\ calls \in [Writers -> 0..MaxCalls]
    BY DEF IInv, TypeOK
  <1>2. UNCHANGED flush => FALSE
    OBVIOUS
  <1>3. ~Expire /\ ~OthersWrite
    BY <1>2 DEF Expire, OthersWrite
  <1>4. PICK v \in Writers : Bootstrap(v) \/ Begin(v) \/ Step(v) \/ Crash(v)
    BY <1>3 DEF Next
  <1>5. ~Bootstrap(v)
    BY <1>2 DEF Bootstrap
  <1>6. \E g : flush' = [flush EXCEPT ![v] = g]
    BY <1>4, <1>5 DEF Begin, Crash, Step, Lock, BusyDeadline, HashRequired, ReadWhole,
       ReadSection, SectionConflict, Stores, Loses, PersistError, Publishes, JournalsOnly,
       WritesNothing, Park, ParkBlocked, ParkFails, Note
  <1>7. v = w
    BY <1>1, <1>6
  <1>8. ~Begin(w)
    <2> SUFFICES ASSUME Begin(w) PROVE FALSE
      OBVIOUS
    <2>1. calls' = [calls EXCEPT ![w] = calls[w] + 1] /\ calls[w] \in Int
      BY <1>1, BoundsAssumption DEF Begin
    <2>2. calls'[w] = calls[w] + 1
      BY <1>1, <2>1
    <2> QED
      BY <2>1, <2>2
  <1>10. flush[w] \in Flush
    BY <1>1
  <1>11. ASSUME NEW r, flush' = [flush EXCEPT ![w] = Ends(w, r)] PROVE FALSE
    <2>1. flush'[w] = Ends(w, r)
      BY <1>1, <1>11
    <2>2. Ends(w, r).stored = FALSE
      BY DEF Ends, NoFlush
    <2> QED
      BY <2>1, <2>2
  <1>9. Crash(w) => At(w, "persist") /\ Publishes(w, "error")
    BY <1>1, <1>11, NoFlushOK DEF Crash, JournalsOnly
  <1>20. PersistError(w) => At(w, "persist") /\ Publishes(w, "error")
    BY <1>11 DEF PersistError, WritesNothing, JournalsOnly
  <1>21. Stores(w) => At(w, "persist") /\ Publishes(w, "ok")
    BY DEF Stores
  <1>12. ~HashRequired(w) /\ ~ParkBlocked(w) /\ ~Note(w)
    BY <1>11 DEF HashRequired, ParkBlocked, Note
  <1>13. ASSUME NEW p, flush' = [flush EXCEPT ![w] = [flush[w] EXCEPT !.pc = p]] PROVE FALSE
    BY <1>1, <1>10, <1>13 DEF Flush
  <1>14. ~BusyDeadline(w) /\ ~SectionConflict(w) /\ ~Park(w)
    BY <1>13 DEF BusyDeadline, SectionConflict, Park
  <1>15. ~Lock(w)
    <2> SUFFICES ASSUME Lock(w) PROVE FALSE
      OBVIOUS
    <2>1. flush'[w] = [flush[w] EXCEPT !.pc = "read", !.lease = fence + 1]
      BY <1>1 DEF Lock
    <2> QED
      BY <1>10, <2>1 DEF Flush
  <1>16. ~ReadWhole(w)
    <2> SUFFICES ASSUME ReadWhole(w) PROVE FALSE
      OBVIOUS
    <2>1. flush'[w] = [flush[w] EXCEPT !.pc = "persist", !.read = doc]
      BY <1>1 DEF ReadWhole
    <2> QED
      BY <1>10, <2>1 DEF Flush
  <1>17. ~ReadSection(w)
    <2> SUFFICES ASSUME ReadSection(w) PROVE FALSE
      OBVIOUS
    <2>1. flush'[w] = [flush[w] EXCEPT !.pc = "persist", !.read = doc, !.base = Seen(w),
                                 !.established = TRUE]
      BY <1>1 DEF ReadSection
    <2> QED
      BY <1>10, <2>1 DEF Flush
  <1>18. ~Loses(w)
    <2> SUFFICES ASSUME Loses(w) PROVE FALSE
      OBVIOUS
    <2>1. CASE flush[w].section # None /\ flush[w].attempt < MaxAttempts
      <3>1. flush'[w] = [flush[w] EXCEPT !.pc = "lock", !.attempt = flush[w].attempt + 1]
        BY <1>1, <2>1 DEF Loses
      <3> QED
        BY <1>10, <3>1 DEF Flush
    <2>2. CASE ~(flush[w].section # None /\ flush[w].attempt < MaxAttempts)
      BY <1>13, <2>2 DEF Loses
    <2> QED
      BY <2>1, <2>2
  <1>19. ~ParkFails(w)
    <2> SUFFICES ASSUME ParkFails(w) PROVE FALSE
      OBVIOUS
    <2>1. CASE flush[w].tries + 1 < ParkTries
      <3>1. flush'[w] = [flush[w] EXCEPT !.tries = flush[w].tries + 1]
        BY <1>1, <2>1 DEF ParkFails
      <3> QED
        BY <1>10, <3>1 DEF Flush
    <2>2. CASE ~(flush[w].tries + 1 < ParkTries)
      BY <1>11, <2>2 DEF ParkFails
    <2> QED
      BY <2>1, <2>2
  <1> QED
    BY <1>4, <1>5, <1>7, <1>8, <1>9, <1>12, <1>14, <1>15, <1>16, <1>17, <1>18, <1>19, <1>20, <1>21
       DEF Step

LEMMA OverwritesStep ==
    ASSUME IInv, [Next]_vars, NEW w \in Writers, flush'[w].stored, ~flush[w].stored,
           calls'[w] = calls[w]
    PROVE  LET f == flush[w]
               seen == IF f.expect = None THEN NoDoc ELSE f.expect IN
           IF f.section = None THEN doc = seen
           ELSE /\ doc.text[f.section] = seen.text[f.section]
                /\ \A s \in Sections \ {f.section} : doc'.text[s] = doc.text[s]
  <1>1. Next
    BY DEF vars
  <1>2. CASE Resume
    BY <1>2, ResumeStep DEF Over, Declared
  <1>3. ASSUME NEW r, At(w, "persist"), Publishes(w, r)
        PROVE  Over(flush[w], doc, doc')
    BY <1>3, AdmittedOver DEF Publishes
  <1> QED
    BY <1>1, <1>2, <1>3, StoredByAdmitted DEF Over, Declared

\* A flush never writes over what its caller has not seen, however its attempts
\* and other writers' updates interleave: the whole document only over the version
\* declared, a section only over the text that version had.
THEOREM OnlyTheSeenIsOverwritten == Spec => OverwritesOnlyWhatWasSeen
  <1> DEFINE A == \A w \in Writers :
        LET f == flush[w]
            seen == IF f.expect = None THEN NoDoc ELSE f.expect IN
        flush'[w].stored /\ ~f.stored /\ calls'[w] = calls[w] =>
            IF f.section = None THEN doc = seen
            ELSE /\ doc.text[f.section] = seen.text[f.section]
                 /\ \A s \in Sections \ {f.section} : doc'.text[s] = doc.text[s]
  <1>1. IInv /\ [Next]_vars => [A]_vars
    BY OverwritesStep
  <1> QED
    BY <1>1, InductiveInvariant, PTL DEF Spec, OverwritesOnlyWhatWasSeen

-----------------------------------------------------------------------------
(* SessionJournal.                                                         *)

\* A call that runs has a number.
Begun == \A w \in Appenders : call[w].pc # "idle" => call[w].number >= 1

\* No entry of a writer is ahead of its calls, or of the call it is in.
Numbered ==
    \A i \in DOMAIN journal : \A w \in Appenders :
        journal[i].writer = w =>
            /\ journal[i].number <= call[w].number
            /\ call[w].pc # "idle" => journal[i].number < call[w].number

IsNew(w) == \A i \in DOMAIN journal : journal[i] # EntryOf(w)

\* A replay would append a new entry, of a call that is over.
OrphanIsNew ==
    journalOrphan # <<>> =>
        \E w \in Appenders : /\ call[w].pc = "idle" /\ call[w].number >= 1 /\ IsNew(w)
                             /\ journalOrphan = Append(journal, EntryOf(w))

JournalIInv == JournalTypeOK /\ Begun /\ Numbered /\ ToldIsThereOnce /\ OrphanIsNew

\* The journal with the entry of a call at its end.
LEMMA AppendExtends ==
    ASSUME NEW w \in Appenders, JournalTypeOK, call[w].number >= 1,
           journal' = Append(journal, EntryOf(w))
    PROVE  /\ EntryOf(w) \in Entry
           /\ journal' \in Seq(Entry)
           /\ Len(journal') = Len(journal) + 1
           /\ \A i \in DOMAIN journal : journal'[i] = journal[i]
           /\ journal'[Len(journal) + 1] = EntryOf(w)
           /\ DOMAIN journal = 1..Len(journal)
           /\ DOMAIN journal' = 1..(Len(journal) + 1)
  <1>1. call[w] \in Call /\ journal \in Seq(Entry)
    BY DEF JournalTypeOK
  <1>2. call[w].number \in 1..MaxEntries
    BY <1>1, JournalAssumption DEF Call
  <1>3. EntryOf(w) \in Entry
    BY <1>2 DEF EntryOf, Entry
  <1> QED
    BY <1>1, <1>3

\* What an admitted write appends to is the journal as it is, and its entry is new.
LEMMA AdmittedIsNew ==
    ASSUME JournalIInv, NEW w \in Appenders, AppendAt(w, "persist"), AppendAdmitted(w)
    PROVE  call[w].read = journal /\ call[w].number >= 1 /\ IsNew(w)
  <1>1. call[w].read = journal /\ call[w].number >= 1 /\ call[w].number \in Int
    BY DEF JournalIInv, JournalTypeOK, Call, Begun, AppendAt, AppendAdmitted
  <1>2. ASSUME NEW i \in DOMAIN journal, journal[i] = EntryOf(w) PROVE FALSE
    <2>1. journal[i].writer = w /\ journal[i].number = call[w].number
      BY <1>2 DEF EntryOf
    <2>2. journal[i].number < call[w].number
      BY <2>1 DEF JournalIInv, Numbered, AppendAt
    <2> QED
      BY <1>1, <2>1, <2>2
  <1> QED
    BY <1>1, <1>2 DEF IsNew

LEMMA InitJournal == JournalInit => JournalIInv
  <1> SUFFICES ASSUME JournalInit PROVE JournalIInv
    OBVIOUS
  <1>1. NewCall(0) \in Call
    BY JournalAssumption DEF NewCall, Call
  <1>2. call \in [Appenders -> Call] /\ \A w \in Appenders : call[w].pc = "idle"
    <2>1. \A w \in Appenders : call[w] = NewCall(0)
      BY DEF JournalInit
    <2>2. call = [w \in Appenders |-> NewCall(0)]
      BY DEF JournalInit
    <2> QED
      BY <1>1, <2>1, <2>2 DEF NewCall
  <1>t. JournalTypeOK
    <2>1. /\ journal \in Seq(Entry) /\ journalOrphan \in Seq(Entry)
          /\ journalFence \in Nat /\ told \subseteq Entry
      BY DEF JournalInit
    <2>2. journalLive \in BOOLEAN
      BY DEF JournalInit
    <2>3. \A w \in Appenders : call[w].pc \notin {"read", "persist"}
      BY <1>2
    <2> QED
      BY <1>2, <2>1, <2>2, <2>3 DEF JournalTypeOK
  <1>3. Begun /\ Numbered /\ ToldIsThereOnce /\ OrphanIsNew
    BY <1>2 DEF JournalInit, Begun, Numbered, ToldIsThereOnce, OrphanIsNew
  <1> QED
    BY <1>t, <1>3 DEF JournalIInv

\* A step that leaves the journal, the number of every call and what was told as
\* they are, and begins no call, keeps the entries numbered and told once; and it
\* leaves an orphan as it is, or makes one of the call it ends.
LEMMA KeepsEntries ==
    ASSUME JournalIInv, UNCHANGED <<journal, told>>,
           \A v \in Appenders : /\ call'[v].number = call[v].number
                                /\ call'[v].pc # "idle" => call[v].pc # "idle",
           \/ UNCHANGED journalOrphan
           \/ \E w \in Appenders : /\ AppendAt(w, "persist") /\ AppendsLater(w)
                                   /\ call'[w].pc = "idle"
    PROVE  Begun' /\ Numbered' /\ ToldIsThereOnce' /\ OrphanIsNew'
  <1>1. Begun'
    BY DEF JournalIInv, Begun
  <1>2. Numbered'
    BY DEF JournalIInv, Numbered
  <1>3. \A v \in Appenders : EntryOf(v)' = EntryOf(v) /\ (IsNew(v) => IsNew(v)')
    BY DEF EntryOf, IsNew
  <1>4. ASSUME UNCHANGED journalOrphan PROVE OrphanIsNew'
    <2> SUFFICES ASSUME journalOrphan # <<>> PROVE OrphanIsNew'
      BY <1>4 DEF OrphanIsNew
    <2>1. PICK w \in Appenders : /\ call[w].pc = "idle" /\ call[w].number >= 1 /\ IsNew(w)
                                /\ journalOrphan = Append(journal, EntryOf(w))
      BY DEF JournalIInv, OrphanIsNew
    <2>2. /\ call'[w].pc = "idle" /\ call'[w].number >= 1 /\ IsNew(w)'
          /\ journalOrphan' = Append(journal', EntryOf(w)')
      BY <1>3, <1>4, <2>1
    <2> QED
      BY <2>2, Zenon DEF OrphanIsNew
  <1>5. ASSUME \E w \in Appenders : /\ AppendAt(w, "persist") /\ AppendsLater(w)
                                    /\ call'[w].pc = "idle"
        PROVE  OrphanIsNew'
    <2>1. PICK w \in Appenders : /\ AppendAt(w, "persist") /\ AppendsLater(w)
                                /\ call'[w].pc = "idle"
      BY <1>5
    <2>2. call[w].read = journal /\ call[w].number >= 1 /\ IsNew(w)
      BY <2>1, AdmittedIsNew DEF AppendsLater
    <2>3. journalOrphan' = Append(journal', EntryOf(w)') /\ call'[w].number >= 1 /\ IsNew(w)'
      BY <1>3, <2>1, <2>2 DEF AppendsLater
    <2> QED
      BY <2>1, <2>3, Zenon DEF OrphanIsNew
  <1> QED
    BY <1>1, <1>2, <1>4, <1>5 DEF JournalIInv, ToldIsThereOnce

\* ... and so does the step that appends the new entry of a call.
LEMMA AppendKeepsEntries ==
    ASSUME JournalIInv, NEW w \in Appenders, call[w].number >= 1, IsNew(w),
           journal' = Append(journal, EntryOf(w)), journalOrphan' = <<>>,
           told' = told \/ told' = told \cup {EntryOf(w)},
           \A v \in Appenders : /\ call'[v].number = call[v].number
                                /\ call'[v].pc # "idle" => v # w /\ call[v].pc # "idle"
    PROVE  Begun' /\ Numbered' /\ ToldIsThereOnce' /\ OrphanIsNew'
  <1> DEFINE n == Len(journal)
  <1>1. /\ EntryOf(w) \in Entry
        /\ \A i \in DOMAIN journal : journal'[i] = journal[i]
        /\ journal'[n + 1] = EntryOf(w)
        /\ DOMAIN journal = 1..n /\ DOMAIN journal' = 1..(n + 1)
    BY AppendExtends DEF JournalIInv
  <1>2. n \in Nat
    BY DEF JournalIInv, JournalTypeOK
  <1>e. \A i \in 1..n : journal[i] \in Entry
    BY <1>1 DEF JournalIInv, JournalTypeOK
  <1> HIDE DEF n
  <1>3. EntryOf(w).writer = w /\ EntryOf(w).number = call[w].number
    BY DEF EntryOf
  <1>4. \A v \in Appenders : call[v].number \in Int
    BY DEF JournalIInv, JournalTypeOK, Call
  <1>5. Begun'
    BY DEF JournalIInv, Begun
  <1>6. Numbered'
    <2> SUFFICES ASSUME NEW i \in 1..(n + 1), NEW v \in Appenders, journal'[i].writer = v
                 PROVE  /\ journal'[i].number <= call'[v].number
                        /\ call'[v].pc # "idle" => journal'[i].number < call'[v].number
      BY <1>1 DEF Numbered
    <2>1. CASE i = n + 1
      BY <2>1, <1>1, <1>3, <1>4
    <2>2. CASE i \in 1..n
      <3>1. journal'[i] = journal[i] /\ journal[i] \in Entry
        BY <2>2, <1>1, <1>e
      <3> QED
        BY <2>2, <3>1, <1>1 DEF JournalIInv, Numbered
    <2>3. i = n + 1 \/ i \in 1..n
      BY <1>2
    <2> QED
      BY <2>1, <2>2, <2>3
  <1>7. \A i \in 1..n : journal[i] # EntryOf(w)
    BY <1>1 DEF IsNew
  <1>8. \A i, j \in 1..(n + 1) : journal'[i] = journal'[j] => i = j
    <2> SUFFICES ASSUME NEW i \in 1..(n + 1), NEW j \in 1..(n + 1), journal'[i] = journal'[j]
                 PROVE  i = j
      OBVIOUS
    <2>1. CASE i \in 1..n /\ j \in 1..n
      BY <2>1, <1>1 DEF JournalIInv, ToldIsThereOnce
    <2>2. CASE i = n + 1 /\ j \in 1..n
      BY <2>2, <1>1, <1>7
    <2>3. CASE i \in 1..n /\ j = n + 1
      BY <2>3, <1>1, <1>7
    <2> QED
      BY <1>2, <2>1, <2>2, <2>3
  <1>9. told' \subseteq {journal'[i] : i \in DOMAIN journal'}
    <2>1. told \subseteq {journal'[i] : i \in 1..(n + 1)}
      <3> SUFFICES ASSUME NEW e \in told PROVE \E i \in 1..(n + 1) : e = journal'[i]
        OBVIOUS
      <3>1. PICK i \in 1..n : e = journal[i]
        BY <1>1 DEF JournalIInv, ToldIsThereOnce
      <3>2. i \in 1..(n + 1) /\ e = journal'[i]
        BY <1>1, <1>2, <3>1
      <3> QED
        BY <3>2
    <2>2. n + 1 \in 1..(n + 1)
      BY <1>2
    <2> QED
      BY <1>1, <2>1, <2>2
  <1> QED
    BY <1>1, <1>5, <1>6, <1>8, <1>9 DEF ToldIsThereOnce, OrphanIsNew

\* A writer goes on in its call: its new state c has its type, and the others stay.
LEMMA SetCallOK ==
    ASSUME JournalTypeOK, NEW w \in Appenders, NEW c \in Call, SetCall(w, c),
           journal' \in Seq(Entry), journalFence' \in Nat, journalFence <= journalFence',
           journalLive' \in BOOLEAN, told' \subseteq Entry, journalOrphan' \in Seq(Entry),
           c.pc \in {"read", "persist"} => c.lease \in 1..journalFence'
    PROVE  /\ JournalTypeOK'
           /\ \A v \in Appenders : call'[v] = IF v = w THEN c ELSE call[v]
  <1>1. /\ call' \in [Appenders -> Call]
        /\ \A v \in Appenders : call'[v] = IF v = w THEN c ELSE call[v]
    BY DEF JournalTypeOK, SetCall
  <1>2. ASSUME NEW v \in Appenders, call'[v].pc \in {"read", "persist"}
        PROVE  call'[v].lease \in 1..journalFence'
    <2>1. CASE v = w
      BY <1>1, <1>2, <2>1
    <2>2. CASE v # w
      <3>1. call[v].lease \in 1..journalFence
        BY <1>1, <1>2, <2>2 DEF JournalTypeOK
      <3> QED
        BY <1>1, <2>2, <3>1 DEF JournalTypeOK
    <2> QED
      BY <2>1, <2>2
  <1> QED
    BY <1>1, <1>2 DEF JournalTypeOK

\* A call ends, or goes on with its next attempt: what was stored and told decides
\* about the rest.
LEMMA AppendEndsOK ==
    ASSUME JournalTypeOK, NEW w \in Appenders,
           NEW result \in {"none", "ok", "blocked", "error", "exhausted"},
           AppendEnds(w, result), journal' \in Seq(Entry), UNCHANGED journalFence,
           journalLive' \in BOOLEAN, told' \subseteq Entry, journalOrphan' \in Seq(Entry)
    PROVE  /\ JournalTypeOK'
           /\ \A v \in Appenders : /\ call'[v].number = call[v].number
                                   /\ call'[v].pc # "idle" => v # w /\ call[v].pc # "idle"
  <1> DEFINE c == [call[w] EXCEPT !.pc = "idle", !.result = result]
  <1>1. call[w] \in Call /\ journalFence \in Nat
    BY DEF JournalTypeOK
  <1>2. c \in Call /\ c.pc = "idle" /\ c.number = call[w].number
    BY <1>1 DEF Call
  <1>3. SetCall(w, c)
    BY DEF AppendEnds
  <1> HIDE DEF c
  <1>4. JournalTypeOK' /\ \A v \in Appenders : call'[v] = IF v = w THEN c ELSE call[v]
    BY <1>1, <1>2, <1>3, SetCallOK
  <1> QED
    BY <1>2, <1>4

LEMMA NextAttemptOK ==
    ASSUME JournalTypeOK, NEW w \in Appenders, call[w].pc # "idle", NextAttempt(w),
           UNCHANGED <<journal, journalFence, journalOrphan, told>>, journalLive' \in BOOLEAN
    PROVE  /\ JournalTypeOK'
           /\ \A v \in Appenders : /\ call'[v].number = call[v].number
                                   /\ call'[v].pc # "idle" => call[v].pc # "idle"
  <1>1. /\ call[w] \in Call /\ journalFence \in Nat /\ journal \in Seq(Entry)
        /\ told \subseteq Entry /\ journalOrphan \in Seq(Entry)
    BY DEF JournalTypeOK
  <1>2. CASE call[w].attempt < MaxAppends
    <2> DEFINE c == [call[w] EXCEPT !.pc = "lock", !.attempt = @ + 1]
    <2>1. call[w].attempt + 1 \in 1..MaxAppends
      BY <1>1, <1>2, JournalAssumption DEF Call
    <2>2. c \in Call /\ c.pc = "lock" /\ c.number = call[w].number
      BY <1>1, <2>1 DEF Call
    <2>3. SetCall(w, c)
      BY <1>2 DEF NextAttempt
    <2> HIDE DEF c
    <2>4. JournalTypeOK' /\ \A v \in Appenders : call'[v] = IF v = w THEN c ELSE call[v]
      BY <1>1, <2>2, <2>3, SetCallOK
    <2> QED
      BY <2>2, <2>4
  <1>3. CASE ~(call[w].attempt < MaxAppends)
    <2>1. AppendEnds(w, "exhausted")
      BY <1>3 DEF NextAttempt
    <2> QED
      BY <1>1, <2>1, AppendEndsOK
  <1> QED
    BY <1>2, <1>3

\* The lease after unlock() is a truth value.
LEMMA JournalUnlockedType == ASSUME JournalTypeOK, NEW w PROVE JournalUnlocked(w) \in BOOLEAN
  BY DEF JournalUnlocked, OwnsJournal

\* Every step keeps the invariant, and adds to the journal at most at its end.
LEMMA NextJournal ==
    ASSUME JournalIInv, JournalNext
    PROVE  /\ JournalIInv' /\ Len(journal) <= Len(journal')
           /\ \A i \in DOMAIN journal : journal'[i] = journal[i]
  <1> USE DEF JournalIInv
  <1>0. /\ journal \in Seq(Entry) /\ journalFence \in Nat /\ journalLive \in BOOLEAN
        /\ told \subseteq Entry /\ journalOrphan \in Seq(Entry)
        /\ \A w \in Appenders : call[w] \in Call
        /\ Len(journal) \in Nat
    BY DEF JournalTypeOK
  <1>1. ASSUME NEW w \in Appenders, BeginAppend(w)
        PROVE  JournalIInv' /\ UNCHANGED journal
    <2> DEFINE c == NewCall(call[w].number + 1)
    <2>1. call[w].number \in 0..MaxEntries /\ call[w].number + 1 \in 1..MaxEntries
      BY <1>0, <1>1, JournalAssumption DEF BeginAppend, Call
    <2>2. c \in Call /\ c.pc = "lock" /\ c.number = call[w].number + 1
      BY <2>1, JournalAssumption DEF NewCall, Call
    <2>3. /\ SetCall(w, c) /\ journalOrphan = <<>>
          /\ UNCHANGED <<journal, journalFence, journalLive, journalOrphan, told>>
      BY <1>1 DEF BeginAppend
    <2> HIDE DEF c
    <2>4. JournalTypeOK' /\ \A v \in Appenders : call'[v] = IF v = w THEN c ELSE call[v]
      BY <1>0, <2>2, <2>3, SetCallOK
    <2>5. Begun'
      BY <2>1, <2>2, <2>4 DEF Begun
    <2>6. Numbered'
      <3>1. \A i \in DOMAIN journal : journal[i].number \in Int
        <4>1. \A i \in DOMAIN journal : journal[i] \in Entry
          BY <1>0
        <4> QED
          BY <4>1 DEF Entry
      <3> QED
        BY <2>1, <2>2, <2>3, <2>4, <3>1 DEF Numbered
    <2>7. ToldIsThereOnce' /\ OrphanIsNew'
      BY <2>3 DEF ToldIsThereOnce, OrphanIsNew
    <2> QED
      BY <2>3, <2>4, <2>5, <2>6, <2>7
  <1>2. ASSUME NEW w \in Appenders, LockJournal(w)
        PROVE  JournalIInv' /\ UNCHANGED journal
    <2> DEFINE c == [call[w] EXCEPT !.pc = "read", !.lease = journalFence + 1]
    <2>1. c \in Call /\ c.number = call[w].number /\ c.lease \in 1..(journalFence + 1)
      <3>1. /\ call[w] \in Call
            /\ journalFence + 1 \in Nat /\ journalFence + 1 \in 1..(journalFence + 1)
        BY <1>0
      <3> QED
        BY <3>1 DEF Call
    <2>2. SetCall(w, c) /\ journalFence' = journalFence + 1 /\ journalLive' = TRUE
          /\ UNCHANGED <<journal, journalOrphan, told>>
      BY <1>2 DEF LockJournal
    <2> HIDE DEF c
    <2>3. JournalTypeOK' /\ \A v \in Appenders : call'[v] = IF v = w THEN c ELSE call[v]
      BY <1>0, <2>1, <2>2, SetCallOK
    <2>4. Begun' /\ Numbered' /\ ToldIsThereOnce' /\ OrphanIsNew'
      BY <1>2, <2>1, <2>2, <2>3, KeepsEntries DEF LockJournal, AppendAt
    <2> QED
      BY <2>2, <2>3, <2>4
  <1>3. ASSUME NEW w \in Appenders, JournalBusy(w)
        PROVE  JournalIInv' /\ UNCHANGED journal
    <2>1. UNCHANGED <<journal, journalFence, journalLive, journalOrphan, told>>
          /\ call[w].pc # "idle" /\ NextAttempt(w)
      BY <1>3 DEF JournalBusy, AppendAt
    <2>2. journalLive' \in BOOLEAN
      BY <1>0, <2>1
    <2> QED
      BY <2>1, <2>2, NextAttemptOK, KeepsEntries
  <1>4. ASSUME NEW w \in Appenders, ReadJournal(w)
        PROVE  JournalIInv' /\ UNCHANGED journal
    <2> DEFINE c == [call[w] EXCEPT !.pc = "persist", !.read = journal]
    <2>1. c \in Call /\ c.number = call[w].number /\ c.lease = call[w].lease
      BY <1>0 DEF Call
    <2>2. SetCall(w, c) /\ UNCHANGED <<journal, journalFence, journalLive, journalOrphan, told>>
      BY <1>4 DEF ReadJournal
    <2>3. call[w].lease \in 1..journalFence
      BY <1>4 DEF ReadJournal, AppendAt, JournalTypeOK
    <2> HIDE DEF c
    <2>4. JournalTypeOK' /\ \A v \in Appenders : call'[v] = IF v = w THEN c ELSE call[v]
      BY <1>0, <2>1, <2>2, <2>3, SetCallOK
    <2>5. Begun' /\ Numbered' /\ ToldIsThereOnce' /\ OrphanIsNew'
      BY <1>4, <2>1, <2>2, <2>4, KeepsEntries DEF ReadJournal, AppendAt
    <2> QED
      BY <2>2, <2>4, <2>5
  <1>e. ASSUME NEW w \in Appenders, AppendAt(w, "persist"), Appends(w),
               NEW r \in {"none", "ok", "error"}, AppendEnds(w, r), UNCHANGED journalFence,
               told' = told \/ told' = told \cup {EntryOf(w)}, journalLive' \in BOOLEAN
        PROVE  /\ JournalIInv' /\ Len(journal) <= Len(journal')
               /\ \A i \in DOMAIN journal : journal'[i] = journal[i]
    <2>1. call[w].read = journal /\ call[w].number >= 1 /\ IsNew(w)
      BY <1>e, AdmittedIsNew DEF Appends
    <2>2. journal' = Append(journal, EntryOf(w)) /\ journalOrphan' = <<>>
      BY <1>e, <2>1 DEF Appends
    <2>3. /\ EntryOf(w) \in Entry /\ journal' \in Seq(Entry) /\ Len(journal') = Len(journal) + 1
          /\ \A i \in DOMAIN journal : journal'[i] = journal[i]
      BY <2>1, <2>2, AppendExtends
    <2>4. told' \subseteq Entry /\ journalOrphan' \in Seq(Entry)
      BY <1>0, <1>e, <2>2, <2>3
    <2>5. r \in {"none", "ok", "blocked", "error", "exhausted"}
      OBVIOUS
    <2>6. /\ JournalTypeOK'
          /\ \A v \in Appenders : /\ call'[v].number = call[v].number
                                  /\ call'[v].pc # "idle" => v # w /\ call[v].pc # "idle"
      BY <1>e, <2>3, <2>4, <2>5, AppendEndsOK
    <2>7. Begun' /\ Numbered' /\ ToldIsThereOnce' /\ OrphanIsNew'
      BY <1>e, <2>1, <2>2, <2>6, AppendKeepsEntries
    <2> QED
      BY <1>0, <2>3, <2>6, <2>7
  <1>f. ASSUME NEW w \in Appenders,
               \/ journal' = journal /\ journalOrphan' = journalOrphan
               \/ AppendAt(w, "persist") /\ AppendsLater(w),
               NEW r \in {"none", "blocked", "error"}, AppendEnds(w, r),
               UNCHANGED <<journalFence, told>>, journalLive' \in BOOLEAN, ~AppendAt(w, "idle")
        PROVE  /\ JournalIInv' /\ Len(journal) <= Len(journal')
               /\ \A i \in DOMAIN journal : journal'[i] = journal[i]
    <2>1. UNCHANGED journal /\ journalOrphan' \in Seq(Entry)
      <3>1. CASE journal' = journal /\ journalOrphan' = journalOrphan
        BY <1>0, <3>1
      <3>2. CASE AppendAt(w, "persist") /\ AppendsLater(w)
        <4>1. call[w].read = journal /\ call[w].number >= 1
          BY <3>2, AdmittedIsNew DEF AppendsLater
        <4>2. call[w].number \in 1..MaxEntries
          BY <1>0, <4>1, JournalAssumption DEF Call
        <4>3. EntryOf(w) \in Entry
          BY <4>2 DEF EntryOf, Entry
        <4>4. journalOrphan' = Append(journal, EntryOf(w)) /\ UNCHANGED journal
          BY <3>2, <4>1 DEF AppendsLater
        <4> QED
          BY <1>0, <4>3, <4>4
      <3> QED
        BY <1>f, <3>1, <3>2
    <2>2. r \in {"none", "ok", "blocked", "error", "exhausted"}
      OBVIOUS
    <2>3. /\ JournalTypeOK'
          /\ \A v \in Appenders : /\ call'[v].number = call[v].number
                                  /\ call'[v].pc # "idle" => v # w /\ call[v].pc # "idle"
      BY <1>0, <1>f, <2>1, <2>2, AppendEndsOK
    <2>4. call'[w].pc = "idle"
      BY <2>3
    <2>5. Begun' /\ Numbered' /\ ToldIsThereOnce' /\ OrphanIsNew'
      BY <1>f, <2>1, <2>3, <2>4, KeepsEntries
    <2> QED
      BY <1>0, <2>1, <2>3, <2>5
  <1>5. ASSUME NEW w \in Appenders, AppendStores(w)
        PROVE  /\ JournalIInv' /\ Len(journal) <= Len(journal')
               /\ \A i \in DOMAIN journal : journal'[i] = journal[i]
    BY <1>5, <1>e, JournalUnlockedType DEF AppendStores
  <1>6. ASSUME NEW w \in Appenders, AppendLoses(w)
        PROVE  JournalIInv' /\ UNCHANGED journal
    <2>1. /\ UNCHANGED <<journal, journalFence, journalOrphan, told>>
          /\ call[w].pc # "idle" /\ NextAttempt(w)
      BY <1>6 DEF AppendLoses, AppendAt
    <2>2. journalLive' \in BOOLEAN
      BY <1>6, JournalUnlockedType DEF AppendLoses
    <2> QED
      BY <2>1, <2>2, NextAttemptOK, KeepsEntries
  <1>7. ASSUME NEW w \in Appenders, AppendError(w)
        PROVE  /\ JournalIInv' /\ Len(journal) <= Len(journal')
               /\ \A i \in DOMAIN journal : journal'[i] = journal[i]
    <2> HIDE DEF JournalIInv
    <2>1. /\ UNCHANGED <<journalFence, told>> /\ journalLive' \in BOOLEAN
          /\ AppendAt(w, "persist") /\ ~AppendAt(w, "idle")
      BY <1>7, JournalUnlockedType DEF AppendError, AppendAt, JournalIInv
    <2>2. CASE AppendEnds(w, "error") /\ Appends(w)
      BY <2>1, <2>2, <1>e
    <2>3. CASE journal' = journal /\ journalOrphan' = journalOrphan /\ AppendEnds(w, "blocked")
      BY <2>1, <2>3, <1>f
    <2>4. CASE journal' = journal /\ journalOrphan' = journalOrphan /\ AppendEnds(w, "error")
      BY <2>1, <2>4, <1>f
    <2>5. CASE AppendsLater(w) /\ AppendEnds(w, "error")
      BY <2>1, <2>5, <1>f
    <2> QED
      BY <1>7, <2>2, <2>3, <2>4, <2>5 DEF AppendError
  <1>8. ASSUME NEW w \in Appenders, AppendCrash(w)
        PROVE  /\ JournalIInv' /\ Len(journal) <= Len(journal')
               /\ \A i \in DOMAIN journal : journal'[i] = journal[i]
    <2>1. /\ AppendEnds(w, "none") /\ UNCHANGED <<journalFence, journalLive, told>>
          /\ ~AppendAt(w, "idle") /\ journalLive' \in BOOLEAN
      BY <1>0, <1>8 DEF AppendCrash
    <2> HIDE DEF JournalIInv
    <2>2. CASE AppendAt(w, "persist") /\ Appends(w)
      BY <2>1, <2>2, <1>e
    <2>3. CASE \/ journal' = journal /\ journalOrphan' = journalOrphan
               \/ AppendAt(w, "persist") /\ AppendsLater(w)
      BY <2>1, <2>3, <1>f
    <2>4. \/ journal' = journal /\ journalOrphan' = journalOrphan
          \/ AppendAt(w, "persist") /\ (Appends(w) \/ AppendsLater(w))
      BY <1>8 DEF AppendCrash
    <2> QED
      BY <2>2, <2>3, <2>4
  <1>10. ASSUME ResumeJournal
         PROVE  /\ JournalIInv' /\ Len(journal) <= Len(journal')
                /\ \A i \in DOMAIN journal : journal'[i] = journal[i]
    <2>1. PICK w \in Appenders : /\ call[w].pc = "idle" /\ call[w].number >= 1 /\ IsNew(w)
                                /\ journalOrphan = Append(journal, EntryOf(w))
      BY <1>10 DEF ResumeJournal, OrphanIsNew
    <2>2. /\ journal' = Append(journal, EntryOf(w)) /\ journalOrphan' = <<>>
          /\ UNCHANGED <<journalFence, journalLive, call, told>>
      BY <1>10, <2>1 DEF ResumeJournal
    <2>3. /\ journal' \in Seq(Entry) /\ Len(journal') = Len(journal) + 1
          /\ \A i \in DOMAIN journal : journal'[i] = journal[i]
      BY <2>1, <2>2, AppendExtends
    <2>4. JournalTypeOK'
      BY <2>2, <2>3 DEF JournalTypeOK
    <2>5. Begun' /\ Numbered' /\ ToldIsThereOnce' /\ OrphanIsNew'
      BY <2>1, <2>2, AppendKeepsEntries
    <2> QED
      BY <1>0, <2>3, <2>4, <2>5
  <1>9. ASSUME JournalExpire
        PROVE  JournalIInv' /\ UNCHANGED journal
    <2>1. UNCHANGED <<journal, journalFence, journalOrphan, call, told>> /\ journalLive' \in BOOLEAN
      BY <1>9 DEF JournalExpire
    <2>2. JournalTypeOK'
      BY <2>1 DEF JournalTypeOK
    <2> QED
      BY <2>1, <2>2, KeepsEntries
  <1> QED
    BY <1>0, <1>1, <1>2, <1>3, <1>4, <1>5, <1>6, <1>7, <1>8, <1>9, <1>10
       DEF JournalNext, AppendStep

-----------------------------------------------------------------------------
\* Every reachable state is well typed, no writer's entry is ahead of its calls,
\* and what was told is there once.
THEOREM JournalInductive == JournalSpec => []JournalIInv
  <1>1. JournalInit => JournalIInv
    BY InitJournal
  <1>2. JournalIInv /\ [JournalNext]_journalVars => JournalIInv'
    <2> SUFFICES ASSUME JournalIInv, [JournalNext]_journalVars PROVE JournalIInv'
      OBVIOUS
    <2>1. CASE JournalNext
      BY <2>1, NextJournal
    <2>2. CASE UNCHANGED journalVars
      BY <2>2 DEF journalVars, JournalIInv, JournalTypeOK, Begun, Numbered, ToldIsThereOnce,
                  OrphanIsNew, IsNew, EntryOf
    <2> QED
      BY <2>1, <2>2
  <1> QED
    BY <1>1, <1>2, PTL DEF JournalSpec

\* Every reachable state is well typed.
THEOREM JournalTypeCorrect == JournalSpec => []JournalTypeOK
  <1>1. JournalIInv => JournalTypeOK
    BY DEF JournalIInv
  <1> QED
    BY <1>1, JournalInductive, PTL

\* session_append() stores an entry at most once, however often it retries, and one
\* it answered OK for is there: whatever the number of writers, of attempts and of
\* leases that ran out.
THEOREM EntriesAreStoredOnce == JournalSpec => []ToldIsThereOnce
  <1>1. JournalIInv => ToldIsThereOnce
    BY DEF JournalIInv
  <1> QED
    BY <1>1, JournalInductive, PTL

\* No session_append() loses or reorders an entry of another: the journal only ever
\* grows at its end.
THEOREM JournalIsAppendOnly == JournalSpec => AppendOnly
  <1>1. JournalIInv /\ [JournalNext]_journalVars => [/\ Len(journal) <= Len(journal')
                                /\ \A i \in DOMAIN journal : journal'[i] = journal[i]]_journalVars
    BY NextJournal
  <1> QED
    BY <1>1, JournalInductive, PTL DEF JournalSpec, AppendOnly

=============================================================================
