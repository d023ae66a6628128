------------------------------- MODULE MCComplaint -------------------------------
(***************************************************************************)
(* Small instances of Complaint for TLC.                                   *)
(***************************************************************************)
EXTENDS Complaint, TLC

\* Files, calls and workers are interchangeable; used by the safety runs only.
Symmetry ==
  Permutations(Artifacts) \union Permutations(Calls) \union Permutations(Workers)
=============================================================================
