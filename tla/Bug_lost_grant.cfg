SPECIFICATION Spec
CONSTANTS
    Absent = Absent
    NoTree = NoTree
    NoSub = NoSub
    NoProc = NoProc
    a = a
    b = b
    v0 = v0
    v1 = v1
    Files <- MCFiles
    Values <- MCValues
    InitialTree <- MCInitialTree
    ProviderTrees <- MCProviderTrees
    MaxFaults <- MCMaxFaults
    Approvers = {h1}
    Runners = {r1}
    MainSteps = 1
    MaxRepair = 0
    Sdd = FALSE
    MaxTickets = 2
    Overlap = {h1, r1}
    Mortal = {h1, r1}
    Crashes = 0
    Drifts = 0
    Failures = 0
    Expiries = 0
    Unlinks = 0
INVARIANTS
    NoLostGrant
CHECK_DEADLOCK FALSE
