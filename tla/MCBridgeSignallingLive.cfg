SPECIFICATION FairSpec
CONSTANTS
  Devices = {d1}
  Resolutions = {"hd"}
  Conns = {k1, k2}
  None = None
  MaxCandidates = 0
  MaxFaults = 1
PROPERTIES StartsEnd HandlersReturn
CHECK_DEADLOCK FALSE
