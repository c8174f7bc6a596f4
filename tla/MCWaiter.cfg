CONSTANTS
  Threads = {t1, t2, t3, t4}
  Errors = {e1, e2}
  Nil = Nil
  Torn = Torn
  NoThread = NoThread
SPECIFICATION Spec
INVARIANTS TypeOK CounterFollowsState GateStaysOpen LateWaitsSeeResult
PROPERTIES OutcomeIsFinal WaitersReturn
CHECK_DEADLOCK FALSE
