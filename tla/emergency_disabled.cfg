SPECIFICATION Spec
CONSTANTS
    Vaults = {"v1"}
    Coordinators = {c1, c2}
    NoCoordinator = NoCoordinator
    Configurable = {c1, NoCoordinator}
    Windows = {2, 3}
    DefaultWindow = 2
    MinWindow = 2
    MaxWindow = 3
    Words = {0, 3}
    BaseDelay = 2
    SecondsPerBlock = 2
    MinBlocks = 1
    BlockTimes = {1, 2}
    MaxTime = 6
    MaxBlock = 6
    MaxRequests = 2
CHECK_DEADLOCK FALSE
INVARIANT EmergencyDelayObserved
