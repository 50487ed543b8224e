SPECIFICATION FairSpec
CONSTANTS
    w1 = w1
    w2 = w2
    c1 = c1
    c2 = c2
    Events = {1}
    Workers <- OneWorker
    Consumers <- OneConsumer
    RelayBatch = 2
    MaxAttempts = 2
    BaseDelay = 0
    MaxDelay = 1
    Jitter = 0
    ConsumerBatch = 2
    MaxReceives = 2
    RelayProfiles <- RelayLive
    ConsumerProfiles <- ConsumerLive
    MaxRelayOutages = 0
    MaxConsumerOutages = 1
CHECK_DEADLOCK FALSE
PROPERTIES
    EndToEnd
    QueueDrains
