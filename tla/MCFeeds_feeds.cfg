SPECIFICATION FeedsSpec
CONSTANTS
    Envs <- OneFault
    Packs = {"short", "long", "thin"}
    Thin = {"thin"}
    ChunkCount <- TwoAndThree
    WithPng = {"short"}
    Budget = 2
    Attempts = 2
    MaxFaults = 2
    MaxRuns = 2
    Inventory <- OneOfEach
    ProbeAttempts = 2
    MaxReports = 2
    FeedNames <- ThreeNames
    FeedRpm = 2
    FeedAttempts = 2
    FeedLicensed = {"fred", "edgar"}
    MaxQueries = 2
    PullCoins <- TwoCoins
    PullHistories <- SomeHistories
    PullEnd = 5
    PullPage = 2
    PullFull = 2
    MaxPulls = 1
    PulseAges = {0, 3, 4}
    PulseFredLag = 2
    PulseQuoteLag = 3
    MaxBriefs = 2
    CloseStocks = {"NVDA"}
    CloseFirst = 4
    CloseLast = 7
    AlertLookback = 1
    AlertSize = 2
    AlertTime = 2
    MaxChecks = 2
    WorkerFires = {4, 9}
    WorkerPoll = 2
    WorkerFrames = 9
    WorkerTime = 10
    RetainStocks = {"QQQ", "NVDA"}
    RetainMetrics = {"mid"}
    RetainBodies <- TwoBodies
    RetainDates = {14}
    RetainWalk = 3
    RetainRpm = 2
    RetainReach = 4
INVARIANTS
    FeedsTypeOK
    IngestIsHonest
    
    
    
    FiresAreEarned
    

    
CHECK_DEADLOCK FALSE
