CONSTANTS
  CAPACITY = 4
  MaxCalls = 7
SPECIFICATION FairSpec
INVARIANTS
  TypeOK
  SlotIsExclusive
PROPERTIES
  ImplementsChannel
  BothFinish
