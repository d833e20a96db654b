SPECIFICATION Spec
CONSTANTS
  OctetBits = 2
  NumOctets = 2
  None = None
  Lone = Lone
  AppId <- AppIds
  HalfBits = 3
  WindowsToUnixEpoch = 20
  TicksPerSecond = 5
  NanosPerTick = 2
  World <- RuleWorlds
CHECK_DEADLOCK FALSE
INVARIANTS
  TypeOK
  BlobFreed
  TranslationExact
  HeaviestRuleDecides
  CidrAccepted
  EventFindsRule
  TimestampExact
