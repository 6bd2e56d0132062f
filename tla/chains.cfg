SPECIFICATION ChainsSpec
CONSTANTS
    MaxBlock = 3
    DeployBlocks = {0, 2}
    Window = 1
    ChunkSize = 2
    Me = "me"
    Others = {"other"}
    MaxEvents = 4
    ScanDepth = 1
    PendingLimit = 1
    Limit = 2
    PerEventTail = 2
    Users = {"u1", "u2"}
    Confirmation = 1
    BaseDelay = 1
    Jitter = {0, 1}
    MaxStoreTime = 4
    MaxRequests = 1
    MaxEmergencies = 2
    SorobanAccounts = {"a", "b"}
    Calls = {1, 2}
    MaxPolls = 1
    MaxSwitches = 1
    MaxOthers = 1
    MaxNonce = 3
    MaxRestarts = 2
    Approvals = {1, 2}
    ApprovalTtl = 1
    Slack = 1
    MaxBridgeTime = 4
    Beats = {1, 2}
    EvmAddrs = {"e1", "e2"}
    StellarAddrs = {"s1", "s2"}
    SponsoredVaults = {1, 2}
    Guardians = {"g1", "g2"}
    MaxCost = 2
    OpsPerWindow = 1
    VaultOpsPerWindow = 2
    RateWindow = 2
    MaxDeposits = 2
    MaxGasTime = 4
    MaxOps = 3
    EntryCount = 3
    MaxEntries = 2
    TtlThreshold = 4
    MaxTtl = 5
    PollInterval = 2
    CycleTime = 2
    BatchSize = 1
    MaxRetries = 2
    Vaults = {1, 2}
    Inactivity = 4
    RunInterval = 2
    MaxUpkeepTime = 7
    MaxUpkeepFaults = 1
    Readers = {"r1", "r2"}
    PassHolders = {"r1"}
    VaultCreator = "r2"
    ReaderDocs = {1}
    Nobody = "nobody"
    MaxLoads = 2
    MaxClicks = 2
    MaxDecisions = 1
    Owner = "owner"
    Kin = {"k1", "k2"}
    Nil = Nil
    InviteLife = 1
    RequestLife = 1
    SignNonces = {1}
    Uploaders = {"owner", "k2"}
    Askers = {"k2"}
    PaperConditions = {"LiveOnly", "EmergencyOnly"}
    LedgerGaps = {1}
    MaxAccessLedgers = 1
    MaxReleaseLedgers = 4
    MaxPapers = 1
    MaxAsked = 2
    MaxTokens = 2
    AskedPeriods = {0, 1, 2}
    PeriodRange = {1, 2}
    FirstPeriod = 1
    AskedTerms = {0, 1}
    DeathLedgers = 1
    Confirmations = 1
    UnlockDelay = 2
    UnlockLedgers = 1
    LedgerSeconds = 2
    AskedWindows = {0, 2}
    WindowRange = {2, 3}
    FirstWindow = 3
    PrngWords = {0, 5}
    MaxCycles = 2
    Hashes = {"h1", "h2"}
    MaxVotes = 4
CHECK_DEADLOCK FALSE
INVARIANTS ChainsTypeOK   
 
