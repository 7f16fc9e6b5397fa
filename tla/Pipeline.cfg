CONSTANTS
  OrderId = {o1, o2}
  Quantity = {1}
  Price = {1, 2}
  MaxErrors = 4
  MaxTraded = 4
  MaxCrosses = 4
  BookPeriod = 1
  MaxMessages = 4
SPECIFICATION Spec
INVARIANTS
  TypeOK
  MirrorCatchesUp
PROPERTIES
  ImplementsReporter
  DrainedUnlessInWindow
  Terminates
