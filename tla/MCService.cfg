SPECIFICATION FairSpec
CONSTANTS
    i1 = i1
    i2 = i2
    m1 = m1
    m2 = m2
    m3 = m3
    None = None
    Count <- MCCount
    Instance = {i1, i2}
    Names <- MCNames
    Retention <- MCRetention
    Deployed <- MCDeployed
    MaxFaults = 1
    Topic <- MCTopic
    Malformed = {m2}
    Announced <- MCAnnounced
    Channels <- MCChannels
    MaxStops = 1
    MaxMoves = 1
    MaxAttempts = 2
    MaxTrouble = 2
    MaxDeliveries = 2
INVARIANTS
    TypeOK
    StartedMeansIndexed
    LandedCountsAreKept
    AtMostOnce
    LossesAreBounded
    ChannelsAreIndependent
CHECK_DEADLOCK FALSE
PROPERTIES
    ShutdownEnds
    TopicDrains
