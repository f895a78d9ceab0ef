SPECIFICATION MCSpec
CONSTANTS
  Bounds <- LeadCases
  Symbols <- Assets
  CoinbaseBounds <- CoinbaseCases
  Products <- TwoProducts
  HeartbeatStale = 1
  MaxHistory = 1
  BucketLength = 1
  ReturnWindows = {1}
  FlowWindows = {1}
  OiWindows = {1}
  TradeHistory = 2
  OiHistory = 2
  LiquidationHistory = 2
  ReturnGap = 1
  OiGap = 1
INVARIANT StreamsAreOne
INVARIANT CoinbaseBookExact
PROPERTY OpenInterestMovesOn
PROPERTY StreamsComeBack
CHECK_DEADLOCK FALSE
