------------------------ MODULE MCRefreshCoordinator ------------------------
(***************************************************************************)
(* Constants of the model-checking run of RefreshCoordinator.              *)
(***************************************************************************)
EXTENDS RefreshCoordinatorProofs

CONSTANTS k1, k2

\* Every kind of call over both configurations, with an operation that covers
\* the other one and outranks it.
MixedRequests ==
    [kind : {"start", "run"}, op : {"catalog", "channels"}, key : Keys]
        \cup [kind : {"batch"}, op : {"guide"}, key : Keys]
=============================================================================
