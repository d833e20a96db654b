SPECIFICATION FairSpec
CONSTANTS
  OctetBits = 2
  NumOctets = 2
  None = None
  Lone = Lone
  AppId <- AppIds
  BatchSize = 2
  Rule <- Rules
  Foreign <- Others
  MaxId = 3
INVARIANTS
  TypeOK
  OneMoment
  NothingLeaked
  InfoTellsRule
PROPERTY
  EnumReturns
