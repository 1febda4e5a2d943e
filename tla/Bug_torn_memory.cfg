SPECIFICATION Spec
CONSTANTS
    Runs = 2
    MaxTrouble = 1
INVARIANTS StaysReadable
CHECK_DEADLOCK FALSE
