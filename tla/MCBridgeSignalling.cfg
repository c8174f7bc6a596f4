SPECIFICATION Spec
CONSTANTS
  Devices = {d1}
  Resolutions = {"hd"}
  Conns = {k1, k2}
  None = None
  MaxCandidates = 2
  MaxFaults = 1
SYMMETRY Symmetry
INVARIANTS TypeOK CandidatesKept AnswerFirst SuccessIsEarned LatchBeforeLock FailureIsOwn NoWakeUpLost
PROPERTIES BridgesKeepContract
CHECK_DEADLOCK FALSE
