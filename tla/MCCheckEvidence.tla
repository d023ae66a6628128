----------------------------- MODULE MCCheckEvidence -----------------------------
(***************************************************************************)
(* Small instances of CheckEvidence for TLC.                               *)
(***************************************************************************)
EXTENDS CheckEvidence, TLC

CONSTANTS p1, p2

\* The photos are interchangeable; used by the safety run only.
Symmetry == Permutations(Items)
=============================================================================
