SPECIFICATION ResearchSpec
CONSTANTS
    p1 = p1
    t1 = t1
    t2 = t2
    NoFile = NoFile
    NoRow = NoRow
    NoBars = NoBars
    Procs = {p1}
    Trades = {t1, t2}
    MayDie = TRUE
    Feeds = 4
    IdeaCounts = {0, 1, 3, 6}
    OkFeeds = {1, 4}
    MaxShown = 3
    SlotsPerIdea = 6
    RunTokens = 6
    DayTokens = 9
    CallTokens = 2
    CallInput = 3
    Inputs = {1, 3, 4}
    Outputs = {1, 3}
    Retries = 1
    MaxDeskRuns = 2
    Names <- ReviewedNames
    Lists <- FiveLists
    Universe <- Membership
    Calendar <- OneCalendar
    DefaultDays = 1
    MaxPerCluster = 1
    MaxPerRound = 2
    TapeSet <- TwoTapes
    Horizons <- TwoHorizons
    MaxIdeas = 3
    MaxDay = 1
    Screen = {1, 2}
    Locked = {2, 3}
    Instruments <- SomeInstruments
    MaxPriority = 1
    Days = {1, 2}
    MaxBoards = 2
    BarSet <- FourBars
    SmaPeriod = 2
    EmaPeriod = 3
    AtrPeriod = 1
    BaseBars = 2
    MaxHeight <- OneHeight
    Tolerance <- Quarter
    Lookback = 1
    Horizon = 1
    NMin = 2
    MaxBars = 5
    MaxStudies = 1
    Monitor <- Symbols
    Kinds <- SymbolKinds
    Panel <- FiveSeries
    Answers <- VendorSeries
    Local <- BarFiles
    MinBars = 4
    SmaFast = 2
    SmaSlow = 3
    StopR = 1
    TargetR = 2
    BracketBars = 2
    Cost <- OneInFifty
    ShiftWindow = 2
    ShiftRatio = 3
    FlagPercent = 20
    MaxReports = 2
    Files <- TwoFiles
    Tags = "tags"
    PackLists <- ThreeFixtures
    Clock = 1
    MaxWatches = 2
    MaxChanges = 1
    Items = {"IMP-1", "IMP-2"}
    Incidents = {"SCHED-1"}
    Operators = {"o1", "o2"}
    MaxEdits = 4
    Deals <- TwoDeals
    Traded = {"A"}
    Prints <- TwoPrints
    Spans <- TwoSpans
    Slack = 1
    ThinDays = 2
    DealsNMin = 1
    Clips = {1, 4}
    AdvBps <- NineBps
    BudgetBps = 3
    ThinBps = 2
    ThinClip = 4
    Hashes <- OneHash
    MaxTime = 3
    MaxRows = 4
    MaxEach = 2
    MaxScans = 1
INVARIANTS
    ResearchTypeOK
    
    
    
    
    
    
PROPERTIES
    StatusIsEarned
    DisabledMeansSilence
CHECK_DEADLOCK FALSE
