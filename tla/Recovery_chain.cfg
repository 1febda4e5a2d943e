SPECIFICATION Spec
CONSTANTS
    Runs = 2
    MaxTrouble = 2
INVARIANTS ClosureReplays
PROPERTIES Closes
CHECK_DEADLOCK FALSE
