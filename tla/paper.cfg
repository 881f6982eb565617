CONSTANTS
  Symbols = {s1}
  Executor = executor
  Others = {positions}
  Prices <- TickerPrices
  Leverages <- SetLeverages
  Quantities <- OrderQuantities
  FeeDiv = 12
  Initial = 120
  MaxOrders = 3
  MaxFaults = 1
  MaxRestarts = 1
  None = None
SPECIFICATION Spec
INVARIANTS TypeOK LockedBacksPositions AccountCurrent PeakIsHighest
