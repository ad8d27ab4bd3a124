-------------------------- MODULE MCSessionJournal --------------------------
(* Instances of SessionJournal for TLC.                                    *)
EXTENDS SessionJournal, TLC

CONSTANTS a, b

Symmetry == Permutations(Appenders)
=============================================================================
