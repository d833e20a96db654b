SPECIFICATION Spec
CONSTANTS
  w1 = w1
  w2 = w2
  Worker = {w1, w2}
  MaxEvents = 2
  Careless = {}
  Faults = {"unsubscribe"}
CHECK_DEADLOCK FALSE
INVARIANT
  NoUseAfterFree
