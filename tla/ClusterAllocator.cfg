SPECIFICATION FairSpec
CONSTANTS
  DPUs = {d1, d2}
  Names = {c1}
  None = None
  Preassigned = {d2}
  Stable = {}
  MaxGen = 1
  MaxRestarts = 1
  MaxNodes <- MCMaxNodes
  Selects <- MCSelects
INVARIANTS TypeOK Capacity  NoSlotLost
PROPERTIES RoomIsUsed ClusterGoes
