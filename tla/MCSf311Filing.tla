---------------------------- MODULE MCSf311Filing ----------------------------
(***************************************************************************)
(* Small instances of Sf311Filing for TLC.                                 *)
(***************************************************************************)
EXTENDS Sf311Filing, TLC

\* Jobs and messages are interchangeable; used by the safety runs only.
Symmetry == Permutations(Jobs) \union Permutations(Messages)
=============================================================================
