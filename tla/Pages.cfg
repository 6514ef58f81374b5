SPECIFICATION PagesSpec
CONSTANTS
    Catalogs <- TwoCatalogs
    Settings <- FourSettings
    StateCodes = {"CA"}
    LocalNames = {"Locals", "LOCALS"}
    Roots <- RootOf
    MaxChanges = 2
    Words <- EveryWord
    Split <- SplitAt
    Same <- SameWord
    None = None
    All = All
    s1 = s1
    s2 = s2
    r1 = r1
    r2 = r2
    Sources = {s1, s2}
    New = New
    Requests = {r1, r2}
    MaxEditors = 2
    MaxActions = 1
    NoEditor = NoEditor
    NoSource = NoSource
    a = a
    b = b
    c = c
    d = d
    e = e
    GuideRows <- FiveRows
    Named = {d}
    Guides <- TwoGuides
    Slots = 3
    RowHeight = 2
    HeaderHeight = 1
    ViewHeight = 4
    Overscan = 1
    MostRows = 4
    MostResults = 1
    ScrollStep = 4
    FirstNow = 2
    MaxNow = 3
    g1 = g1
    g2 = g2
    l1 = l1
    Games = {g1, g2}
    StatGames = {g1, g2}
    Leagues = {l1}
    MaxAttempts = 2
    MaxAsked = 2
    NoGame = NoGame
    NoLeague = NoLeague
    NoPayload = NoPayload
    c1 = c1
    c2 = c2
    Calls = {c1, c2}
    MaxTokens = 3
    MaxSources = 3
    Payloads <- TwoPayloads
    Roster <- TwoTeams
    BuiltIn <- OnePass
    RemoteFollows <- ThreeFollows
    Labelled = {"team:3"}
    KnownPhantoms = {"known"}
    MaxToggles = 3
    StoredSettings <- TwoStored
    NoSettings = NoSettings
    DefaultKeywords <- TwoKeywords
    CategoryOf <- Spelled
    WordKey <- Lowered
    GroupNames = {"News"}
    Paths = {"World", "Live"}
    MaxSaves = 2
    MaxEdits = 2
VIEW OpenPage
INVARIANTS
    OfferedIsShown
    
    PolledUntilReady
    StatsKeepComing
    StatsAreOfTheirGame
    RetryCarriesNewToken
    OnlyCurrentPlays
    StoresAgree
PROPERTIES
    EditorsAreApart
    EscapeLeadsBack
    KeysKeepColumn
    ButtonsTakeEffect
    
CHECK_DEADLOCK FALSE
