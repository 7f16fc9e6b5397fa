CONSTANTS
  MaxFile = 7
  Capacities = {1, 3, 4, 9}
  LowSpace = 2
SPECIFICATION Spec
INVARIANTS
  TypeOK
  NothingLostOrRepeated
  OnlyUnendedLineLeft
PROPERTIES
  ReadsToTheEnd
