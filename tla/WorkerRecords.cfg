SPECIFICATION MCSpec
CONSTANTS
  Decisions = {1, 2}
  Values <- TwoValues
  Prices = {1, 3}
  Lookback = 0
  MaxSyncs = 2
  MaxTime = 2
  MaxPlans = 2
  Null = null
  Configs = {k1, k2}
  Runs = {r1, r2}
  Trials = {t1, t2}
  Outputs = {o1, o2}
  Clients = {c1, c2}
  MaxRequests = 6
INVARIANT TellsWhatIsSo
INVARIANT OrdersAreSafe
INVARIANT GatesHold
PROPERTY ExperimentsKeepTheirWord
PROPERTY LineageHolds
CHECK_DEADLOCK FALSE
