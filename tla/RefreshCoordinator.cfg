SPECIFICATION FairSpec
CONSTANTS
    k1 = k1
    k2 = k2
    None = None
    Calls = {c1, c2}
    Keys = {k1, k2}
    Requests <- MixedRequests
INVARIANTS
    OnlyNewestIsLive
    LastWriteWins
    SuccessCoversRequest
PROPERTIES
    StatusMovesForward
    ImplementsGate
    
    CloseReturns
CHECK_DEADLOCK FALSE
