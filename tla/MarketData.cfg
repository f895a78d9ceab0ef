SPECIFICATION Spec
CONSTANTS
  Bounds <- Cases
  Interval = 2
  RestCandles = 3
  RestTrades = 2
  Timeout = 2
  TradeHistory = 1
  Ratios <- TwoRatios
  ClockOffset = 7
CONSTRAINT NothingOldUnderWay
INVARIANT TradeCountsOnce
INVARIANT PolledValuesHold
PROPERTY CandlesBecomeExact
CHECK_DEADLOCK FALSE
