SPECIFICATION Spec
CONSTANTS
  s1 = s1
  s2 = s2
  f1 = f1
  f2 = f2
  Session = {s1, s2}
  FilterId = {f1, f2}
  Faulty = {s2}
  DirectCallers = {s1}
  Kinds = {"dynamic", "static"}
SYMMETRY FilterIds
INVARIANTS
  SessionInv
  EnforcedAsPromised
  TxnOwnership
  ClosedOnDrop
PROPERTIES
  OrphanInert
  DeadSilent
  ImplementsAtomicRules
