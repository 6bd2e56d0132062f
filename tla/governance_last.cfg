SPECIFICATION Spec
CONSTANTS
    Nobody = Nobody
    Addr = {alice, bob}
    Targets = {alice, bob}
    Thresholds = {2}
    InviteTTL = 2
    ProposalTTL = 3
    TimelockDelay = 1
    MaxTime = 4
SYMMETRY AddrSymmetry
CHECK_DEADLOCK FALSE
INVARIANT SomeGuardianStays
