SPECIFICATION FairSpec
CONSTANTS
  w1 = w1
  w2 = w2
  Worker = {w1, w2}
  MaxEvents = 2
  Careless = {}
  Faults = {}
CHECK_DEADLOCK FALSE
PROPERTY
  IterEnds
