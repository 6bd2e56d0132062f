SPECIFICATION DocumentsSpec
CONSTANTS
    alice = alice
    bob = bob
    carol = carol
    Addr = {alice, bob, carol}
    None = None
    Secrets = {s1, s2}
    Lengths = {1, 2}
    Durations = {0, 1}
    MinDuration = 1
    MaxDuration = 2
    OutsiderShares = FALSE
    BlankShares = FALSE
    MaxTime = 3
    MaxEpoch = 2
    VssQ = 5
    VssP = 11
    VssG = 4
    Holders = 3
    ShareThreshold = 2
    LegacyBytes = {83}
    MaxEpochs = 1
    DataShards = 2
    ParityShards = 2
    SampleBytes = {7, 200}
    MaxSize = 3
    MagicSize = 1
    HeaderSize = 2
    LenSize = 2
    Overhead = 1
    ChunkSize = 2
    MaxPlain = 4
    MaxPiece = 3
    Papers = {"d"}
    MaxSkew = 1
    MaxStoreClock = 2
    MaxLosses = 1
    MaxBackups = 1
    MaxReads = 1
    MaxSends = 2
    Pins = {"p", "q"}
    MaxKeys = 2
    MaxAttempts = 1
    MaxTasks = 2
    MaxUpsets = 1
    Docs = {1, 2}
    MaxRotations = 2
    MaxRotFaults = 2
    InboxDocs = {1, 2}
    PageLimit = 1
    MaxPages = 3
    MaxMatches = 2
    MaxAge = 0
    MaxPins = 2
    MaxInboxTime = 1
    PrimeStarts = {4, 8}
    LockSeeds = {0, 17}
    MaxDelay = 4
    DefaultBits = 3
    OtherBits = 2
    VaultGuardians <- TwoGuardians
    MaxUploads = 2
    MaxVersions = 2
SYMMETRY GuardianSymmetry
CHECK_DEADLOCK FALSE
INVARIANTS DocumentsTypeOK  SecretsComeBack
 
