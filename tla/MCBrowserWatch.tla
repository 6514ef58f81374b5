--------------------------- MODULE MCBrowserWatch ---------------------------
(***************************************************************************)
(* Instances of BrowserWatch for TLC.                                      *)
(***************************************************************************)
EXTENDS BrowserWatch, TLC

WatchSymmetry == Permutations(Sessions) \cup Permutations(Tiles) \cup Permutations(Calls)
=============================================================================
