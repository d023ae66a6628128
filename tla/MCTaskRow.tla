-------------------------------- MODULE MCTaskRow --------------------------------
(***************************************************************************)
(* Small instance of TaskRow for TLC.                                      *)
(***************************************************************************)
EXTENDS TaskRow, TLC

CONSTANTS c1, c2

Symmetry == Permutations(Completers)
=============================================================================
