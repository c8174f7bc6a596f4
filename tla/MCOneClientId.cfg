SPECIFICATION Spec
CONSTANTS
  Devices = {d1, d2}
  Resolutions = {"hd"}
  Conns = {k1, k2}
  None = None
  MaxCandidates = 0
  MaxFaults = 0
PROPERTIES ClientsDoNotKick
CHECK_DEADLOCK FALSE
