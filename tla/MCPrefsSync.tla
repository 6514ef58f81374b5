----------------------------- MODULE MCPrefsSync -----------------------------
(***************************************************************************)
(* Instances of PrefsSync for TLC.                                         *)
(***************************************************************************)
EXTENDS PrefsSync, TLC

CONSTANTS a, b

OneLegacy == <<a>>

ViewerSymmetry == Permutations(Viewers)
=============================================================================
