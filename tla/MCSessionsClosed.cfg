CONSTANTS
  Clients = {c1, c2}
  StreamIds = {i1}
  None = None
  MaxFaults = 1
SPECIFICATION Spec
INVARIANTS SessionsClosed
CHECK_DEADLOCK FALSE
