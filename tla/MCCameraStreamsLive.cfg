CONSTANTS
  Clients = {c1}
  StreamIds = {i1}
  None = None
  MaxFaults = 2
SPECIFICATION FairSpec
PROPERTIES  ConnectingEnds UnwatchedEnds
CHECK_DEADLOCK FALSE
