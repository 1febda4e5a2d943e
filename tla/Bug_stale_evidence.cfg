SPECIFICATION Spec
CONSTANTS
    Versions = {v1, v2, v3}
    v1 = v1
    v2 = v2
    v3 = v3
    MaxCommands = 5
    MaxDeaths = 2
    None = None
INVARIANT EvidenceVouches
CHECK_DEADLOCK FALSE
