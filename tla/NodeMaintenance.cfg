CONSTANTS
  d1 = d1
  d2 = d2
  DPUs = {d1, d2}
  Services = {}
  Effects = {"NoEffect", "Drain", "Taint", "CustomLabel", "CustomAction", "Hold"}
  ExternalDelete = TRUE
SYMMETRY Symmetry
SPECIFICATION Spec
INVARIANTS TypeOK EffectHeld NoEffectLeft NoOrphanRequestor
PROPERTY MaintenanceIsLease
