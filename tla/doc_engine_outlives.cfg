SPECIFICATION Spec
CONSTANTS
  w1 = w1
  w2 = w2
  Worker = {w1, w2}
  MaxEvents = 2
  Careless = {"engineGone"}
  Faults = {}
CHECK_DEADLOCK FALSE
INVARIANT
  EngineOutlives
