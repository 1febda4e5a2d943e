SPECIFICATION FairOrderSpec
CONSTANTS
    NoId = NoId
    x = x
    y = y
    z = z
    Ids <- MCIds
    Listings <- MCListings
    EdgeSets <- MCEdgeSets
    MaxTasks = 3
    MaxEdges = 3
INVARIANTS
    Topological
    Complete
    CycleIsReal
PROPERTIES
    Decides
CHECK_DEADLOCK FALSE
