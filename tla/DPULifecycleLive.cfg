SPECIFICATION FairSpec
CONSTANTS
    DPUs = {d1, d2}
    d1 = d1
    d2 = d2
    Max = 1
    MaxRestarts = 1
    InitRaces = TRUE
    Labels = {"none", "skip"}
    Recreate = FALSE
CHECK_DEADLOCK FALSE
INVARIANTS SlotsAlive 
PROPERTIES  DeletionCompletes
