SPECIFICATION MCSpec
CONSTANTS
  Orders <- AllPositions
  Positions <- AllPositions
  Uses <- Cases
  MaxPlans = 2
  Quantities = {1, 2}
  MaxPosition = 2
  MaxFills = 4
  Limit = 3
INVARIANT OneActivePlan
INVARIANT OneOpenTrade
INVARIANT TradesFollowPlans
INVARIANT LedgerExplainsTrades
INVARIANT LiveTradeIsComplete
PROPERTY EndedPlanStaysEnded
PROPERTY WaitingEnds
