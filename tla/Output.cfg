CONSTANTS
  CAPACITY = 70
  CAPACITY_MAX = 240
  IndexColumn = 2
  AskColumn = 12
  Margin = 22
  Precision = 3
  FloatPrecision = 1
  MaxLimits = 4
  Quantities = {1, 12}
  MaxNumber = 12345
  MaxUses = 5
  Lengths = {1, 69, 71}
  PutLengths = {1, 3}
  Columns = {2, 70, 80, 241}
SPECIFICATION Spec
INVARIANTS
  TypeOK
  StreamHoldsText
  NumberReadsBack
  BookPrintedInFull
  SummaryCountsAll
