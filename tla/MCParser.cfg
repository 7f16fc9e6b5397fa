CONSTANTS
  Char = {" ", ",", "/", "-", ".", "0", "1", "A", "T", "B"}
  MaxLen = 12
  OrderIdDigits = 1
  QtyDigits = 1
  PriceDigits = 1
  PricePrecision = 1
SPECIFICATION Spec
INVARIANTS
  TypeOK
  AcceptedFieldsAreTheLines
  AcceptedWithinBounds
  CounterTellsTheField
  CounterTellsTheLine
