SPECIFICATION ServicesSpec
CONSTANTS
    Ttl = 1
    MaxIntents = 1
    MaxForeign = 1
    Wallets = {"a", "b"}
    MaxAttempts = 2
    MaxActs = 3
    MaxLedgers = 2
    MaxWatched = 3
    BatchSize = 2
    MaxStarts = 2
    MaxPollFaults = 2
    PollRetries = 2
    MaxWire = 1
    Gateways = {"g", "h"}
    Downloads = {1, 2}
    Cooldown = 2
    FailureThreshold = 1
    TopN = 1
    MinBackoff = 1
    MaxBackoff = 3
    MaxGateTime = 3
    PoolSize = 2
    WorkCalls = {1, 2}
    MaxCrashes = 1
CHECK_DEADLOCK FALSE
INVARIANTS ServicesTypeOK ClientIsHonest  FailedWasTried
PROPERTY EverythingSettles
