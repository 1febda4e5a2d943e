SPECIFICATION Spec
CONSTANTS
    Calls = {c1, c2}
    ForkReads = 2
    BranchReads = 2
    From <- MCFrom
    Until <- MCUntil
    MaxTime = 2
    MaxDrift = 2
    MaxFault = 1
SYMMETRY CallSymmetry
INVARIANTS
    RetryReadsOnly
    RetrySucceeds
    OneCreator
    ReportStands
CHECK_DEADLOCK FALSE
