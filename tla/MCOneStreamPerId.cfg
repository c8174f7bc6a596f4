CONSTANTS
  Clients = {c1, c2}
  StreamIds = {i1}
  None = None
  MaxFaults = 0
SPECIFICATION Spec
INVARIANTS OneStreamPerId
CHECK_DEADLOCK FALSE
