CONSTANTS
  p1 = p1
  p2 = p2
  w1 = w1
  w2 = w2
  Procs = {p1, p2}
  WebUsers = {w1, w2}
  AddonUser = AddonUser
  DirectUser = DirectUser
  None = None
  Empty = Empty
  Broken = Broken
  Prefix <- MCPrefix
  Decimal <- MCDecimal
  Homes <- MCHomes
  Shared <- MCShared
  Category <- MCCategory
  NameOf <- MCNameOf
  SkillOf <- MCSkillOf
  Configs <- MCConfigs
  DirectCamera <- MCDirectCamera
  MaxLaunches = 3
  MaxCrashes = 1
SPECIFICATION Spec
SYMMETRY ProcSymmetry
CHECK_DEADLOCK FALSE
INVARIANTS TypeOK UpdatesKept RemovedIsGone CamerasOwned EndpointsWork
PROPERTIES BrokenStays
