SPECIFICATION FairSpec
CONSTANTS
    w1 = w1
    w2 = w2
    Events = {1, 2, 3}
    Workers <- TwoWorkers
    BatchSize = 2
    MaxAttempts = 2
    BaseDelay = 1
    MaxDelay = 2
    Jitter = 1
    FaultProfiles <- QueueFaults
    MaxOutages = 0
CHECK_DEADLOCK FALSE
INVARIANT ClaimsAreHeld
PROPERTY Settles
