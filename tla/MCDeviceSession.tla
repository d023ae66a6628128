----------------------------- MODULE MCDeviceSession -----------------------------
(***************************************************************************)
(* Small instances of DeviceSession for TLC.                               *)
(***************************************************************************)
EXTENDS DeviceSession, TLC

\* Installed apps, grants and calls are interchangeable.
Symmetry ==
  Permutations(Slots) \union Permutations(Grants) \union Permutations(Calls)
=============================================================================
