SPECIFICATION LagSpec
CONSTANTS
  N = 2
  MaxUnavailable = 1
  Lag = TRUE
  MaxTemplates = 2
  MaxFlavors = 1
  MaxRounds = 1
  MaxUpsets = 1
PROPERTY TakenWithinBudget
CHECK_DEADLOCK FALSE
