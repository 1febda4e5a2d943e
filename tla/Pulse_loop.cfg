SPECIFICATION Spec
CONSTANTS
  Packets = {p1, p2}
  Stopping = {}
  None = None
  Registrant = TRUE
  MaxFaults = 1
SYMMETRY Symmetry
INVARIANT GreenToAdvance
PROPERTY RunsOnce
CHECK_DEADLOCK FALSE
