SPECIFICATION DatasetSpec
CONSTANTS
    NoValue = NoValue
    Gone = Gone
    Files <- MCFiles
    Versions <- MCVersions
    Names <- MCNames
    BinSpec <- MCBinSpec
    Switches <- MCSwitches
    SecondsPerDay = 10
    DaysPerMonth = 2
    DaysPerWeek = 2
    SniffBytes = 4
    SniffSampleLines = 3
    SniffMatch <- MCMatch
    MaxBytes = 7
    Sentinels <- MCSentinels
    PhysicalRanges <- MCRanges
    GapThreshold = 3
    OverflowBin = 6
    SkewMax = 2
    AccelCapPerFile = 1
    GapHistEdges <- MCEdges
    GapsTopN = 2
    AccelCapTotal = 1
    ExpectedSensors <- MCSensors
    FDetChannels <- MCFDet
    SeasonalChannels <- MCSeasonal
    WatchedDevice = 2
    NominalPeriod = 2
    PeriodSlack = 1
    MaxJitter = 3
    MicLevels <- MCMics
    PressureInPa <- MCPa
    FrozenDate = 1
    LateMonth = 1
    P90 <- MCP90
    P99 <- MCP99
    P999 <- MCP999
    Workers = 2
    MaxRuns = 2
    MaxFaults = 1
    Starts <- MCStarts
    Options <- MCOptions
    Recordings <- MCRecordings
    Device = 1
    Detection <- MCDetection
    Quality <- MCQuality
    CarryOver = 2
    SaveEvery = 3
    OutOfOrderness = 1
    CloseDelay = 1
    SegStart = 1
    SegEnd = 8
    MaxStops = 2
    CalibRounds = 2
    ColdGap = 2
    Light = "Light"
    LightCensor = 9
    Log1p <- MCLog1p
    Sync <- MCSync
    HourLength = 2
    Minute = 2
    NearBy = 4
    Margin = 1
    RunGap = 2
    Excluded <- MCExcluded
    FloorShare <- MCFloorShare
    FloorEdge <- MCFloorEdge
    RunMultiplier <- MCMultiplier
    OutlierRatio <- MCOutlier
    TopRuns = 3
    StuckSpecs <- MCStuck
CHECK_DEADLOCK FALSE
INVARIANTS
    EveryFileAccounted
    CacheIsFresh
    AggregateIsExact
    ReportIsOrderFree
    RoundsAreOffline
    GuardIsOffline
