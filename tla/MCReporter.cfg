CONSTANTS
  Price = {1, 2, 3}
  Quantity = {1}
  BookPeriod = 2
  MaxTraded = 6
  MaxCrosses = 2
  MaxTrades = 3
SPECIFICATION HistorySpec
CHECK_DEADLOCK FALSE
INVARIANTS
  TypeOK
  TradeWaitsForBook
  MidquoteOfBestPrices
  TradeLineIsTotal
PROPERTY
  LastingCrossIsCounted
