CONSTANTS
  OrderId = {o1, o2, o3}
  Quantity = {1, 2}
  Price = {1, 2, 3}
  MaxErrors = 1
SYMMETRY Ids
SPECIFICATION Spec
INVARIANTS
  TypeOK
  SortedBook
  AggregatedBook
  OneSidePerOrder
  NoCriticalErrors
PROPERTIES
  EventReplays
  ImplementsBook
