--------------------------- MODULE MCClarification ---------------------------
(***************************************************************************)
(* Small instances of Clarification for TLC.                               *)
(***************************************************************************)
EXTENDS Clarification, TLC

Symmetry == Permutations(Task)
=============================================================================
