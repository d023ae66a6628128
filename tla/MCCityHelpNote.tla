---------------------------- MODULE MCCityHelpNote ----------------------------
(***************************************************************************)
(* Small instances of CityHelpNote for TLC.                                *)
(***************************************************************************)
EXTENDS CityHelpNote, TLC

\* Senders of a kind are interchangeable; used by the safety runs only.
Symmetry == Permutations(Requests) \union Permutations(Deliveries)
=============================================================================
