---------------------------- MODULE MCSkillFlush ----------------------------
(* Instances of SkillFlush for TLC.                                        *)
EXTENDS SkillFlush, TLC

CONSTANTS a, b, s, t, x, y, z

Symmetry == Permutations({a, b}) \cup Permutations({s, t}) \cup Permutations({x, y})

\* Writers are interchangeable, and so are sections: of two flushes that of a has
\* the text with a secret, if one has, and is of the document or of section s.  Begin,
\* which gives a flush both, is not under fairness, so a fair behaviour inside the
\* constraint is fair outside.
UpToNames == flush[b].content # z /\ flush[a].section # t
=============================================================================
