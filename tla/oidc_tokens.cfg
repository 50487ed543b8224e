SPECIFICATION Spec
CONSTANTS
    r1 = r1
    r2 = r2
    k1 = k1
    k2 = k2
    x1 = x1
    db1 = db1
    NoKey <- NoKeyId
    Requests = {r1}
    Kids = {k1, k2}
    Certified = {k1}
    CacheDuration = 1
    MaxLatency = 1
    Tokens <- AllTokens
    Asks <- AllAsks
    Sanitize <- SanitizedNames
    Connections = {db1}
    Seeds <- SeedRows
    Environments <- AsDeployed
CHECK_DEADLOCK FALSE
INVARIANT ProviderTokenAccepted
