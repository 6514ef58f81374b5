SPECIFICATION Spec
CONSTANTS
    Channels = {ch1, ch2}
    Titles = {film}
    Tiles = {t1, t2}
    Calls = {c1, c2}
    Sessions = {s1, s2}
    TileLimit = 2
    MaxPicks = 2
    MaxRenders = 1
    None = None
SYMMETRY WatchSymmetry
INVARIANTS
    NothingOrphaned
    KeptAlive
    OneHolderEach
