SPECIFICATION FairSpec
CONSTANTS
  MaxRounds = 2
  MaxEdits = 1
  MaxLate = 1
  MaxUpsets = 2
INVARIANTS TypeOK 
PROPERTIES NoSecondRun ArmedConfigEnds
CHECK_DEADLOCK FALSE
