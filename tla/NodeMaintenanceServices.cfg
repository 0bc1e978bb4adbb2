CONSTANTS
  d1 = d1
  s1 = s1
  DPUs = {d1}
  Services = {s1}
  Effects = {"Drain", "Hold"}
  ExternalDelete = TRUE
SPECIFICATION FairSpec
INVARIANTS NoEffectLeft
PROPERTIES EmptyMaintenanceReleased
