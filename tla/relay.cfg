SPECIFICATION FairSpec
CONSTANTS
    Guardians = {g1}
    MaxLog = 2
    SweepLimit = 1
    StartBlocks = {0, 1}
    MaxAttempts = 2
    MaxCompletedIds = 1
    MaxDeadJobs = 1
    MaxDiskFailures = 2
    MaxEnds = 1
CHECK_DEADLOCK FALSE
INVARIANTS TypeOK OneRecordPerJob  SweepsLeaveNoGap
PROPERTIES  JobsAreSettled
