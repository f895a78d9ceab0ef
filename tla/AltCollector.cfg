SPECIFICATION AltSpec
CONSTANTS
  Bounds <- AltCases
  Symbols = {}
  CoinbaseBounds = {}
  Products = {}
  HeartbeatStale = 1
  MaxHistory = 1
  CoreSymbols <- Core
  SymbolOrder <- Order
  Exchanges <- Markets
  TargetSize = 1
  MinResidence = 1
  MinListingAge = 1
  BucketLength = 1
  ReturnWindows = {1}
  FlowWindows = {1}
  OiWindows = {1}
  TradeHistory = 2
  OiHistory = 2
  LiquidationHistory = 2
  ReturnGap = 1
  OiGap = 1
INVARIANT AltStreamsAreOne
PROPERTY BasketResidence
PROPERTY AltStreamsComeBack
CHECK_DEADLOCK FALSE
