SPECIFICATION Spec
CONSTANTS
    Plans = {p}
    Projects = {q}
    p = p
    q = q
    a = a
    b = b
    Cmds = {a, b}
    MaxCommands = 4
    None = None
INVARIANTS
    AttestationTrue
CHECK_DEADLOCK FALSE
