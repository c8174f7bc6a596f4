SPECIFICATION Spec
CONSTANTS
  Sessions = {s1, s2}
  Ports = {4, 6}
  Channels = {0}
  None = None
  Bounds <- SomeBounds
INVARIANTS TypeOK RoutesAsPromised SocketsOwned RegisteredAlive KeyframesDecodable NobodyStuck
SYMMETRY Symmetry
CHECK_DEADLOCK FALSE
