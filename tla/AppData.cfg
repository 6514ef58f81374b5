SPECIFICATION FairSpec
CONSTANTS
    Guide <- SixPrograms
    Lookbehind = 1
    Lookahead = 2
    GridAhead = 3
    SearchAhead = 5
    CacheBehind = 1
    CacheAhead = 2
    CacheMaxAge = 1
    Start = 3
    MaxNow = 4
    MaxAttempts = 2
    MaxRefreshes = 1
    MaxFailures = 1
INVARIANTS
    CoverageIsLoaded
    IndexIsCurrent
PROPERTIES
    RefreshEnds
    GuideFillsUp
CHECK_DEADLOCK FALSE
