SPECIFICATION Spec
CONSTANTS
    Nobody = Nobody
    Addr = {alice, bob}
    Targets = {alice, bob}
    Thresholds = {2}
    InviteTTL = 2
    ProposalTTL = 2
    TimelockDelay = 1
    MaxTime = 3
SYMMETRY AddrSymmetry
CHECK_DEADLOCK FALSE
INVARIANTS TypeOK GuardianListConsistent RemovedStaysOut VotesDecide
PROPERTY ImplementsGuardianSet
