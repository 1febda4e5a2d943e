SPECIFICATION Spec
CONSTANTS
    Plans = {p}
    Projects = {q}
    p = p
    q = q
    a = a
    b = b
    Cmds = {a, b}
    MaxCommands = 5
    None = None
SYMMETRY Symmetry
INVARIANTS
    NoRunTwice
    AcceptedIsEarned
CHECK_DEADLOCK FALSE
