SPECIFICATION Spec
CONSTANTS
    Absent = Absent
    NoTree = NoTree
    NoSub = NoSub
    NoProc = NoProc
    a = a
    b = b
    v0 = v0
    v1 = v1
    Files <- MCFiles
    Values <- MCValues
    InitialTree <- MCInitialTree
    ProviderTrees <- MCTwoTrees
    MaxFaults <- MCMaxFaults
    Approvers = {h1, h2}
    Runners = {r1}
    MainSteps = 1
    MaxRepair = 1
    Sdd = FALSE
    MaxTickets = 5
    Overlap = {h1, h2}
    Mortal = {r1}
    Crashes = 2
    Drifts = 0
    Failures = 1
    Expiries = 1
    Unlinks = 1
INVARIANTS
    NoLostGrant
    EvidenceAgrees
    LandsExactly
CHECK_DEADLOCK FALSE
