SPECIFICATION FairSpec
CONSTANTS
  Packets = {p1, p2}
  Stopping = {}
  None = None
  Registrant = TRUE
  MaxFaults = 0
INVARIANT RunsWhatItVerified
CHECK_DEADLOCK FALSE
