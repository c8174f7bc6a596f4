SPECIFICATION FairSpec
CONSTANTS
  Devices = {d1}
  Resolutions = {"sd"}
  Conns = {k1, k2}
  None = None
  MaxCandidates = 0
  MaxFaults = 0
PROPERTIES ConnectedStartsEnd
CHECK_DEADLOCK FALSE
