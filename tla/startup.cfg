CONSTANTS
    Topics = {"telemetry.raw", "alerts.triggered"}
    h1 = h1
    h2 = h2
    HostProfiles <- TwoProfiles
    MaxOutages = 2
    MaxDeaths = 1
    MaxUps = 2
SPECIFICATION FairSpec
INVARIANTS
    TypeOK
    RunningIsPrepared
PROPERTIES
    ComesUp
CHECK_DEADLOCK FALSE
