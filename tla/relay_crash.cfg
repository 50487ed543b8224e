SPECIFICATION FairSpec
CONSTANTS
    w1 = w1
    w2 = w2
    Events = {1}
    Workers <- OneWorker
    BatchSize = 1
    MaxAttempts = 2
    BaseDelay = 1
    MaxDelay = 3
    Jitter = 0
    FaultProfiles <- QueueAndCrash
    MaxOutages = 1
CHECK_DEADLOCK FALSE
PROPERTY DeliveredAtLeastOnce
