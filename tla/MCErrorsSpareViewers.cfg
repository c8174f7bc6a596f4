CONSTANTS
  Clients = {c1, c2}
  StreamIds = {i1}
  None = None
  MaxFaults = 1
SPECIFICATION Spec
SYMMETRY Symmetry
PROPERTIES ErrorsSpareViewers
CHECK_DEADLOCK FALSE
