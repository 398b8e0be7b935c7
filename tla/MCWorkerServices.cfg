SPECIFICATION WorkerSpec
CONSTANTS
    JobIds = {j1}
    WorkerIds = {w1, w2}
    MaxJobAttempts = 2
    JobLeaseTicks = 1
    MaxGeneration = 2
    MaxRearms = 1
    MaxMishaps = 1
    Days = {d1, d2}
    Contents = {1}
    MaxContentChanges = 3
    LastEvent = 3
    BatchSize = 1
    SummaryThreshold = 2
    MaxRefreshes = 2
    MaxRemovals = 1
    MaxGiveUps = 1
    acct = acct
    k1 = k1
    c1 = c1
    Candidates = {c1, c2}
    Publishers = {u1, u2}
    Budgets = {acct, k1}
    CountsIn <- CountsInDef
    DailyLimit <- DailyLimitDef
    MaxProactiveAttempts = 2
    Drafted = {c2}
    MaxDisturbances = 1
    Keys = {k1, k2}
    Quotes = {x1}
    Generations = {g1}
    MaxOrdinal = 2
    MaxProposals = 2
    MaxVersion = 2
    MaxReviews = 1
    MaxQuoteEdits = 1
    Images = {i1}
    Reapers = {y1, y2}
    MaxMediaMishaps = 1
    Exporters = {e1, e2}
    Cleaners = {n1, n2}
    MaxExportAttempts = 2
    MaxExportMishaps = 2
    MaxCloses = 2
    MemoryTexts = {t1}
    MessageTexts = {t2}
    MaxConfigs = 2
    MaxPieces = 2
    SpaceBatch = 2
    Embedders = {v1}
    MaxEmbedAttempts = 1
    MaxEmbedMishaps = 1
CHECK_DEADLOCK FALSE
INVARIANTS
    WeekStandsOnDays
    NoMessageSkipped
    OneActivePerKey
    ForgottenLeavesNothing
    ErasedScopeIsEmpty
    ErasedExportIsGone
    ErasureSurvivesRestore
    VectorsFollowTexts
PROPERTIES
    SettlesForGood
    KeepsRation
    WorkSettles
    BacklogIsCovered
    PeriodsCatchUp
    ErasureCompletes
    RebuildSettles
