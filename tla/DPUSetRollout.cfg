SPECIFICATION FairSpec
CONSTANTS
  N = 2
  MaxUnavailable = 1
  Lag = FALSE
  MaxTemplates = 2
  MaxFlavors = 2
  MaxRounds = 1
  MaxUpsets = 2
INVARIANT TypeOK
PROPERTIES TakenWithinBudget RoundFinished 
