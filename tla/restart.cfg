CONSTANTS
    h1 = h1
    h2 = h2
    p1 = p1
    NoTime = NoTime
    NoJob = NoJob
    Hosts <- OneHost
    Partitions = {p1}
    PartitionOf <- OnePartition
    TelemetryLogs <- RestartLogs
    Scores = {1, 2, 4}
    Percentile = 60
    MinHistory = 2
    CooldownSeconds = 4
    MinPoints = 2
    SmoothingWindow = 2
    MinRSquared = 70
    HorizonSeconds = 20
    WarmupEvents = 2
    RollingWindow = 2
    RetrainInterval = 2
    TrainWindowSize = 5
    MinTrainWindow = 5
    HistorySize = 5
    TrendWindowSize = 3
    MaxLag = 2
    MaxLives = 3
    MaxRejoins = 0
    MaxFaults = 1
SPECIFICATION Spec
INVARIANTS
    AlertSpacingAcrossRestarts
    ModelVersionSchedule
    FailureSilencesOneCooldown
CONSTRAINT
    FewMishaps
CHECK_DEADLOCK FALSE
