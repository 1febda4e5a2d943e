SPECIFICATION Spec
CONSTANTS
    Plans = {p}
    Projects = {q}
    p = p
    q = q
    a = a
    Cmds = {a}
    MaxCommands = 3
    None = None
INVARIANTS
    PollAgrees
CHECK_DEADLOCK FALSE
