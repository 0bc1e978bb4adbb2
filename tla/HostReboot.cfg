SPECIFICATION FairSpec
CONSTANTS
  DPUs = {d1, d2}
  Methods = {"script", "external", "hostAgent"}
  MaxStages = 2
  MaxUpsets = 1
INVARIANTS TypeOK RunningJobKept
PROPERTIES  NoNeedlessJob StaleProgressEnds RebootCompletes
