CONSTANTS
    NoTime = NoTime
    Percentile = 95
    MinHistory = 10
    CooldownSeconds = 60
    HistoryScores = {0, 1, 4}
    MaxHistory = 11
    Moves <- ScoreMoves
    MinPoints = 3
    SmoothingWindow = 2
    MinRSquared = 70
    HorizonSeconds = 4
    TrendScores = {0, 1, 2, 3, 5, 6}
    Gaps = {0, 1, 2}
    MaxWindow = 4
    Thresholds = {250, 300, 450, 700}
    Steps <- RampSteps
    Ticks = {1, 2, 3}
    MetricWindows <- ShapedWindows
    Units <- MetricUnits
    QuerySeconds = 5
    QueryLimit = 4
    RowValues <- HostRows
    RowGaps = {1, 3}
    MaxRows = 5
    Delays = {0, 2}
SPECIFICATION Spec
INVARIANTS
    AnomaliesAreTheTopShare
    VerdictFollowsBaseline
    GateMatchesResiduals
    RampIsForecastExactly
    DominanceIgnoresUnits
    IncidentTellsOneStory
CHECK_DEADLOCK FALSE
