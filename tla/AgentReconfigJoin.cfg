SPECIFICATION FairSpec
CONSTANTS
  MaxRounds = 1
  MaxEdits = 0
  MaxLate = 0
  MaxUpsets = 0
PROPERTY JoinedRoundCompletes
CHECK_DEADLOCK FALSE
