CONSTANTS
    h1 = h1
    h2 = h2
    p1 = p1
    p2 = p2
    NoAlert = NoAlert
    Hosts <- TwoHosts
    TopicPartitions = {p1, p2}
    AlertPartitionOf <- TwoPartitions
    QueueLimit = 2
    MaxRejoins = 1
    MaxAlerts = 2
    MaxRetries = 1
    MaxExpired = 1
    MaxDetectorLives = 2
    MaxAgentLives = 2
    MaxFaults = 1
    MaxMishaps = 2
SPECIFICATION Spec
INVARIANTS
    TypeOK
    StatusTellsNewestRun
    LeftBehindBound
    RunsBound
    InvestigatedInOrder
PROPERTIES
    ImplementsAlertLifecycle
CONSTRAINT
    FewMishaps
CHECK_DEADLOCK FALSE
