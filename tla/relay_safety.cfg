SPECIFICATION Spec
CONSTANTS
    w1 = w1
    w2 = w2
    Events = {1, 2, 3}
    Workers <- TwoWorkers
    BatchSize = 2
    MaxAttempts = 2
    BaseDelay = 1
    MaxDelay = 2
    Jitter = 0
    FaultProfiles <- EveryFault
    MaxOutages = 1
CHECK_DEADLOCK FALSE
INVARIANTS
    TypeOK
    ClaimExclusive
    SendsAccounted
    
PROPERTIES
    OrphansStay
    ContractSpec
