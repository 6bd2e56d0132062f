SPECIFICATION Spec
CONSTANTS
    Addr = {"alice", "bob"}
    Nobody = Nobody
    Docs = {"d1", "d2"}
    MaxToken = 2
    MaxVersion = 2
CHECK_DEADLOCK FALSE
INVARIANTS TypeOK CountersMatchOwners VersionsBound
PROPERTY ImplementsAccessGrants
