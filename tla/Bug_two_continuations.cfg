SPECIFICATION Spec
CONSTANTS
    Runs = 2
    MaxTrouble = 1
INVARIANTS NoDuplicates
CHECK_DEADLOCK FALSE
