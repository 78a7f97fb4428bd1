SPECIFICATION Spec
CHECK_DEADLOCK FALSE
CONSTANTS
    Keys = {"k1", "k2"}
    Window = 2
    Publishers = {"p", "q"}
    MaxClock = 3
    MaxStream = 3
    MaxAgeDays = 7
    HolidayDays = {8, 9}
    MaxCalDay = 10
    Capital = 200033
    MaxDailyTrades = 4
    Proposals <- MCProposals
    Sectors = {"IT", "BANK"}
    Callers = {"c1", "c2"}
    CdlMinCandles = 3
    SwingWindow = 1
    ProfileBuckets = 4
    SrLookback = 5
    Contexts <- MCContexts
    Instants <- MCInstants
    Orders <- MCOrders
    Views <- MCViews
    Bars <- MCBars
    Predictions <- MCPredictions
    TrainedMaps <- MCTrained
    MaxSaved = 2
    RegisteredTags <- MCTags
    UseGeneric = FALSE
    Sources = {"breaker", "operator", "monitor"}
    Tier <- MCTier
    NoSource = "none"
INVARIANTS
    HeatBounded
    EntryInsideSession
    ChaosBlocked
    HolidayRespected
    AckedKillIsRecorded
PROPERTIES
    ImplementsStream
