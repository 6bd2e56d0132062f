SPECIFICATION ReleaseSpec
CONSTANTS
    v1 = v1
    v2 = v2
    c1 = c1
    c2 = c2
    k1 = k1
    k2 = k2
    Vaults = {v1, v2}
    Coordinators = {c1, c2}
    NoCoordinator = NoCoordinator
    Configurable = {c1, c2}
    Windows = {3, 4}
    DefaultWindow = 2
    MinWindow = 2
    MaxWindow = 3
    Words = {0, 4}
    BaseDelay = 1
    SecondsPerBlock = 1
    MinBlocks = 1
    BlockTimes = {0, 1, 2}
    MaxTime = 3
    MaxBlock = 3
    MaxRequests = 2
    LivingVaults = {v1}
    Keepers = {k1, k2}
    NoKeeper = NoKeeper
    Periods = {1, 3, 5}
    MinPeriod = 2
    MaxPeriod = 4
    DefaultPeriod = 4
    DefaultInterval = 2
    RingSize = 4
    Lifetimes = {1}
    LifeBlockTimes = {0, 1, 2}
    MaxLifeTime = 4
    MaxLifeBlock = 4
    MaxSamples = 5
    MaxGrants = 2
CHECK_DEADLOCK FALSE
INVARIANTS ReleaseTypeOK RequestMapsAgree EmergencyDelayObserved LifeIsRecorded
PROPERTIES DelaysAreKept RequestsAreAnswered
