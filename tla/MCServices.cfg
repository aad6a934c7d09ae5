CONSTANTS
    Threads = {t1, t2, t3}
    MaxRequests = 3
    Workers = {w1, w2}
    QueuedConnections = 1
    AllowSpawn = TRUE
    Requests <- MCRequests
    MaxConnections = 4
    MaxPanics = 1
    MaxExchanges = 3
    ProxyWorkers = 2
    ProxyQueue = 1
    Ids = {1}
    Bodies <- MCBodies
    MaxLostAppends = 1
    Scripts <- MCScripts
    MaxServerRequests = 1
    MaxOperations = 2
    Readers = {r1, r2}
    Points <- MCPoints
    Newest = 1
    MaxAppends = 2
    MaxEdits = 1
    MaxDeaths = 1
    Starters = {p1, p2, p3}
    Shares = {s1, s2}
    Prior = prior
    MaxRefDepth = 1
    Accepts <- MCAccepts
    Params = {"p", "q"}
    Values = {1, 2}
    Reports <- MCReports
    Options <- MCOptions
    NoCatalog = NoCatalog
    MaxDiffs = 3
    Profiles = 2
    ToolNames = {"t", "u"}
    RequiredTools = {"t"}
    Pages <- MCPages
    MaxToolPages = 2
SPECIFICATION SuiteSpec
\* Each of the programs may come to its end.
CHECK_DEADLOCK FALSE
INVARIANTS
    JournalFaithful
    RootsNeverStall
    CancellationJudged
    ServedIsJournal
    OneSalt
    CallersServed
    NoRegressionSlipsBy
    DriftBounded
    GuidanceOnWholeCatalogs
PROPERTIES
    ImplementsRequestBudget
    EvaluationsAdmitted
    QueriesAnswered
    EnvelopeKept
