CONSTANTS
    h1 = h1
    h2 = h2
    p1 = p1
    p2 = p2
    HostProfiles <- TwoProfiles
    TopicPartitions = {p1, p2}
    PartitionOf <- TwoPartitions
    CooldownTicks = 1
    RampDurations = {3}
    FlushInterval = 2
    QueueLimit = 5
    MaxTime = 3
    MaxRetries = 1
    MaxExpired = 1
    MaxLives = 2
    MaxTimeouts = 1
    MaxMishaps = 2
SPECIFICATION Spec
INVARIANTS
    TypeOK
    PerturbationsAreSpaced
    DisorderBound
    BacklogBound
    TelemetryLossBound
CONSTRAINT
    Bounds
CHECK_DEADLOCK FALSE
