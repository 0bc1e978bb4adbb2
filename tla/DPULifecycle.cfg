SPECIFICATION Spec
CONSTANTS
    DPUs = {d1, d2, d3}
    d1 = d1
    d2 = d2
    d3 = d3
    Max = 2
    MaxRestarts = 0
    InitRaces = TRUE
    Labels = {"none", "skipHW"}
    Recreate = TRUE
SYMMETRY Symmetry
INVARIANTS TypeOK Capacity 
