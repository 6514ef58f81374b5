--------------------------- MODULE MCWatchSessions ---------------------------
(***************************************************************************)
(* Constants of the model-checking runs of WatchSessions.                  *)
(***************************************************************************)
EXTENDS WatchSessions, TLC

CONSTANTS a1, b1

\* A source with one limited account, and a second source for the same
\* station.
TwoSources == << { (a1 :> 1) }, { (b1 :> 1) } >>
TwoOffers == { (a1 :> 1), (b1 :> 1) }

\* The station of a single source with one limited account.
OneOffer == { (a1 :> 1) }
OneStation == << OneOffer >>

WatchSymmetry == Permutations(Watches) \cup Permutations(Inputs)
=============================================================================
