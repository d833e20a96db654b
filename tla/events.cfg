SPECIFICATION FairSpec
CONSTANTS
  w1 = w1
  w2 = w2
  Worker = {w1, w2}
  MaxEvents = 5
  Careless = {}
  Faults = {}
CHECK_DEADLOCK FALSE
INVARIANTS
  TypeOK
  NoUseAfterFree
  FreedOnce
  NothingLost
  WorkerOrder
PROPERTIES
  DropReturns
  Delivered
