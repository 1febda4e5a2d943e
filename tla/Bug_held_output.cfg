SPECIFICATION HeldSpec
CONSTANTS
    MaxJobs = 2
    Retention = 1
    MaxRestarts = 0
    MaxFaults = 0
PROPERTIES
    CancelFrees
CHECK_DEADLOCK FALSE
