SPECIFICATION Spec
CONSTANTS
    Addr = {alice, bob, carol}
    Nobody = Nobody
    Candidates = {alice, bob}
    Requesters = {bob, carol}
    Delegates = {carol}
    Delegators = {alice}
    KeySharers = {bob}
    Docs = {d1}
    RequestTTL = 1
    Lifetimes = {0}
    MaxRequests = 2
    MaxKeyEvents = 3
    MaxLateEvents = 1
    MaxTime = 2
CHECK_DEADLOCK FALSE
INVARIANTS TypeOK OneLiveRequest GrantsAreDecided ApprovalsAreDistinct
PROPERTY DecidedByThreshold
