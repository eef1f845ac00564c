CONSTANTS
    h1 = h1
    h2 = h2
    p1 = p1
    NoTime = NoTime
    NoJob = NoJob
    Hosts <- TwoHosts
    Partitions = {p1}
    PartitionOf <- OnePartition
    TelemetryLogs <- SharedLogs
    Scores = {1, 4}
    Percentile = 60
    MinHistory = 2
    CooldownSeconds = 3
    MinPoints = 2
    SmoothingWindow = 1
    MinRSquared = 70
    HorizonSeconds = 20
    WarmupEvents = 1
    RollingWindow = 2
    RetrainInterval = 3
    TrainWindowSize = 4
    MinTrainWindow = 2
    HistorySize = 4
    TrendWindowSize = 3
    MaxLag = 2
    MaxLives = 2
    MaxRejoins = 1
    MaxFaults = 2
SPECIFICATION FairSpec
PROPERTIES
    ImplementsAlertSource
    CatchesUp
INVARIANTS
    TypeOK
    ClocksCoverAlerts
    LossBound
CONSTRAINT
    FewMishaps
CHECK_DEADLOCK FALSE
