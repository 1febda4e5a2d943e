SPECIFICATION FairSpec
CONSTANTS
    Absent = Absent
    NoTree = NoTree
    NoSub = NoSub
    NoProc = NoProc
    a = a
    b = b
    v0 = v0
    v1 = v1
    Files <- MCFiles
    Values <- MCValues
    InitialTree <- MCInitialTree
    ProviderTrees <- MCProviderTrees
    MaxFaults <- MCMaxFaults
    Approvers = {h1}
    Runners = {r1}
    MainSteps = 1
    MaxRepair = 2
    Sdd = FALSE
    MaxTickets = 4
    Overlap = {}
    Mortal = {h1, r1}
    Crashes = 0
    Drifts = 0
    Failures = 0
    Expiries = 0
    Unlinks = 0
PROPERTIES
    Terminates
CHECK_DEADLOCK FALSE
