CONSTANTS
  Clients = {c1, c2}
  StreamIds = {i1}
  None = None
  MaxFaults = 1
SPECIFICATION Spec
SYMMETRY Symmetry
INVARIANTS TypeOK LocksHeld ConnectingIsAttended PendingShutdown NoForgottenBridge ClosedIsForgotten
PROPERTIES ViewersKeepStream BridgesKeepContract
CHECK_DEADLOCK FALSE
