SPECIFICATION Spec
CONSTANTS
  Decisions = {d}
  Bodies = {x, y}
  Clients = {p, q}
  MaxTime = 4
  Bounds <- Cases
  x = x
  y = y
  Mark <- Zigzag
  Horizons = {1, 2}
  Grace = 1
  Early = 1
  LeaseTtl = 1
  TradingSpacing = 2
SYMMETRY Interchangeable
INVARIANT UploadsAreHonoured
INVARIANT CaseIsOfDecision
INVARIANT LeaseOutlivesRead
PROPERTY OutcomesHold
CHECK_DEADLOCK FALSE
