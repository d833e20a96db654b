SPECIFICATION FairSpec
CONSTANTS
  s1 = s1
  s2 = s2
  f1 = f1
  Session = {s1, s2}
  FilterId = {f1}
  Faulty = {s2}
  DirectCallers = {}
  Kinds = {"dynamic", "static"}
INVARIANTS
  RegisteredTogether
  IdempotentRegistration
  RegistrationInv
PROPERTIES
  InitReturns
  LockFreed
