CONSTANTS
    h1 = h1
    h2 = h2
    p1 = p1
    p2 = p2
    NoAlert = NoAlert
    Hosts <- TwoHosts
    TopicPartitions = {p1, p2}
    AlertPartitionOf <- TwoPartitions
    QueueLimit = 1
    MaxRejoins = 1
    MaxAlerts = 2
    MaxRetries = 1
    MaxExpired = 0
    MaxDetectorLives = 1
    MaxAgentLives = 1
    MaxFaults = 0
    MaxMishaps = 2
SPECIFICATION FairSpec
PROPERTIES
    ProducedIsSettled
CHECK_DEADLOCK FALSE
