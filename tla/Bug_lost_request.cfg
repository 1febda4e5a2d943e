SPECIFICATION Spec
CONSTANTS
    Plans = {p}
    Projects = {q}
    p = p
    q = q
    a = a
    b = b
    Cmds = {a, b}
    MaxCommands = 3
    None = None
SYMMETRY Symmetry
PROPERTIES
    HistoryKept
CHECK_DEADLOCK FALSE
