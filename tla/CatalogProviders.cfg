SPECIFICATION Spec
CONSTANTS
    k1 = k1
    k2 = k2
    k3 = k3
    c1 = c1
    c2 = c2
    c3 = c3
    s1 = s1
    s2 = s2
    p1 = p1
    p2 = p2
    h1 = h1
    t1 = t1
    None = None
    Sources = {s1, s2}
    Channels = {c1, c2, c3}
    Ends = {2, 9}
    Owner <- MCOwner
    PlainSource <- MCPlain
    Feeds <- MCFeeds3
    Configs = {k1}
    Kind <- MCXtream
    SourceOf <- MCOneSource
    Providers = {p1, p2}
    Alternate = {p2}
    Lineups <- MCLineup3
    Hydrators = {}
    Tasks = {t1}
    Operations = {"guide"}
    Asks = {"force"}
    Batches = {"ping"}
    Changes <- MCAnyChange
    Visible <- MCVisible2
    MaxTime = 2
INVARIANTS
    ServedIsStored
PROPERTIES
    GuideKept
