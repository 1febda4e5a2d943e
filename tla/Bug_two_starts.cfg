SPECIFICATION Spec
CONSTANTS
    Plans = {p}
    Projects = {q}
    p = p
    q = q
    a = a
    b = b
    Cmds = {a, b}
    MaxCommands = 3
    None = None
INVARIANTS
    OneExecution
CHECK_DEADLOCK FALSE
