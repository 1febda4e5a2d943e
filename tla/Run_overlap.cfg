SPECIFICATION Spec
CONSTANTS
    Absent = Absent
    NoTree = NoTree
    NoSub = NoSub
    NoProc = NoProc
    a = a
    b = b
    v0 = v0
    v1 = v1
    Files <- MCOneFile
    Values <- MCValues
    InitialTree <- MCOneFileInitial
    ProviderTrees <- MCOneFileTrees
    MaxFaults <- MCMaxFaults
    Approvers = {h1}
    Runners = {r1, r2}
    MainSteps = 1
    MaxRepair = 0
    Sdd = FALSE
    MaxTickets = 2
    Overlap = {h1, r1, r2}
    Mortal = {h1, r1}
    Crashes = 1
    Drifts = 1
    Failures = 0
    Expiries = 0
    Unlinks = 0
SYMMETRY RunnerSymmetry
INVARIANTS
    AcceptedMeansLanded
    GrantBacked
    PromotionsApproved
CHECK_DEADLOCK FALSE
