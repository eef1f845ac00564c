CONSTANTS
    h1 = h1
    h2 = h2
    p1 = p1
    NoTime = NoTime
    NoJob = NoJob
    Hosts <- OneHost
    Partitions = {p1}
    PartitionOf <- OnePartition
    TelemetryLogs <- DisorderlyLogs
    Scores = {1, 2, 4}
    Percentile = 60
    MinHistory = 3
    CooldownSeconds = 4
    MinPoints = 3
    SmoothingWindow = 2
    MinRSquared = 70
    HorizonSeconds = 20
    WarmupEvents = 1
    RollingWindow = 2
    RetrainInterval = 3
    TrainWindowSize = 4
    MinTrainWindow = 2
    HistorySize = 4
    TrendWindowSize = 3
    MaxLag = 1
    MaxLives = 1
    MaxRejoins = 0
    MaxFaults = 0
SPECIFICATION Spec
INVARIANTS
    AlertSpacing
    AlertCitesItsMetric
    PublishedOrCoolingDown
    BuffersReplayLog
PROPERTIES
    ClocksAdvance
CHECK_DEADLOCK FALSE
