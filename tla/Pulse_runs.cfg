SPECIFICATION FairSpec
CONSTANTS
  Packets = {p1, p2}
  p1 = p1
  p2 = p2
  Stopping = {p2}
  None = None
  Registrant = TRUE
  MaxFaults = 0
PROPERTY PacketRuns
CHECK_DEADLOCK FALSE
