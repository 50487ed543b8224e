SPECIFICATION Spec
CONSTANTS
    w1 = w1
    w2 = w2
    c1 = c1
    c2 = c2
    Events = {1}
    Workers <- TwoWorkers
    Consumers <- TwoConsumers
    RelayBatch = 2
    MaxAttempts = 2
    BaseDelay = 0
    MaxDelay = 1
    Jitter = 0
    ConsumerBatch = 2
    MaxReceives = 2
    RelayProfiles <- RelaySafety
    ConsumerProfiles <- ConsumerSafety
    MaxRelayOutages = 1
    MaxConsumerOutages = 1
SYMMETRY Symmetry
CHECK_DEADLOCK FALSE
INVARIANTS
    AuditedOnce
    PublishedNotLost
