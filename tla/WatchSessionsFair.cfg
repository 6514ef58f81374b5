SPECIFICATION FairSpec
CONSTANTS
    a1 = a1
    b1 = b1
    None = None
    Watches = {w1}
    Inputs = {i1}
    Plays = {p1}
    Sessions = {w1, i1, p1}
    Accounts = {a1, b1}
    Offers <- OneOffer
    Stations <- OneStation
    LeaseTTL = 0
    CooldownTime = 1
    SeenTTL = 1
    RowTTL = 2
    MaxRows = 1
PROPERTIES
    StoppedWatchFreesAccount
