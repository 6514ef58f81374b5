SPECIFICATION Spec
CONSTANTS
    k1 = k1
    k2 = k2
    k3 = k3
    c1 = c1
    c2 = c2
    c3 = c3
    s1 = s1
    s2 = s2
    p1 = p1
    p2 = p2
    h1 = h1
    t1 = t1
    None = None
    Sources = {s1, s2}
    Channels = {c1, c2}
    Ends = {2, 9}
    Owner <- MCOneOwner
    PlainSource <- MCPlain
    Feeds <- MCFeeds
    Configs = {k1, k2}
    Kind <- MCXtream
    SourceOf <- MCOneSource
    Providers = {p1}
    Alternate = {}
    Lineups <- MCLineups
    Hydrators = {h1}
    Tasks = {}
    Operations = {}
    Asks = {"force"}
    Batches = {"fill"}
    Changes <- MCAnyChange
    Visible <- MCVisible
    MaxTime = 1
INVARIANTS
    GuideWithinScope
