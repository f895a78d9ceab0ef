SPECIFICATION MCSpec
CONSTANTS
  Orders <- AllPositions
  Positions <- AllPositions
  Uses <- Switched
  MaxPlans = 2
  Quantities = {1, 2}
  MaxPosition = 2
  MaxFills = 4
  Limit = 3
INVARIANT EndedPositionEndsPlan
