SPECIFICATION FairSpec
CONSTANTS
    m1 = m1
    r1 = r1
    r2 = r2
    Matches <- OneMatch
    Requests <- TwoRequests
    Target <- SameMatch
    PoolSize = 1
    MaxTries = 2
    MaxVersion = 2
    MaxCrashes = 1
    FaultProfiles <- SomeFaults
CHECK_DEADLOCK FALSE
INVARIANTS
    TypeOK
    TracesFollowCommit
    OneAdvicePerRequest
PROPERTY EveryRequestAnswered
