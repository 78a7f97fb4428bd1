SPECIFICATION Spec
CHECK_DEADLOCK FALSE
CONSTANTS
    h1 = h1
    h2 = h2
    h3 = h3
    Headlines = {h1, h2, h3}
    Blank = Blank
    Neutral = Neutral
    Exchanges = {"NSE", "ASX"}
    Mood <- MCMood
    Similarity <- MCSimilarity
    FeedDays <- MCFeedDays
    BatchMax = 2
    RunMax = 3
    MaxAgeHours = 24
    Threshold = 95
    CallTokens = 1
    MaxRuns = 2
    MaxClock = 3
    DayTicks = 2
    RateLimit = 2
    Minute = 1
    CostThreshold = 1
    MaxSent = 3
    MemKeys = {"k1", "k2"}
    Texts = {3, 12}
    WorkingMax = 2
    MaxRetrievals = 2
    MaxMemClock = 3
    Stocks <- MCStocks
    Categories = {"mwpl", "ban"}
    Rows <- MCRows
    TopN = 2
    MinBars = 50
    ListTtl = 2
    ListCacheAge = 2
    Regimes = {"BULL_TREND", "HIGH_VOL_CHAOS"}
    Builders = {"b1"}
    MaxBuilds = 2
    MaxUniClock = 3
    Histories <- MCHistories
    ParamGrid <- MCParamGrid
    MinCandles = 3
    InSampleDays = 2
    OutSampleDays = 1
    StepDays = 1
    MinDays = 1
    InitialCash = 5000
    MaxBacktests = 2
    Listings <- MCListings
    NseEntries <- MCNseEntries
    OverrideFiles <- MCOverrideFiles
    RawCandles <- MCRawCandles
    Refreshers = {"r1", "r2"}
    WindowDays = 1
    MaxPublished = 2
    MaxDay = 2
    MaxRefreshes = 2
INVARIANTS
    ScoresAlign
    RateLimited
    RecallIsLast
    WatchlistCurrent
    NoLookAhead
    AdjustedOnce
