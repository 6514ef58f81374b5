SPECIFICATION Spec
CONSTANTS
    a1 = a1
    b1 = b1
    None = None
    Watches = {w1}
    Inputs = {i1, i2}
    Plays = {}
    Sessions = {w1, i1, i2}
    Accounts = {a1, b1}
    Offers <- TwoOffers
    Stations <- TwoSources
    LeaseTTL = 0
    CooldownTime = 1
    SeenTTL = 1
    RowTTL = 2
    MaxRows = 2
SYMMETRY WatchSymmetry
INVARIANTS
    WithinLimit
    
    OneInputPerWatch
    NothingLeftBehind

    
