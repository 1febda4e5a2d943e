SPECIFICATION FairSpec
CONSTANTS
    MaxJobs = 2
    Retention = 1
    MaxRestarts = 1
    MaxFaults = 2
INVARIANTS
    ToldIsDurable
PROPERTIES
    CancelHonoured
    SettledIsFinal
    CancelFrees
CHECK_DEADLOCK FALSE
