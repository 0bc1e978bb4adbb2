CONSTANTS
  d1 = d1
  d2 = d2
  DPUs = {d1, d2}
  Services = {}
  Effects = {"Drain"}
  ExternalDelete = FALSE
SYMMETRY Symmetry
SPECIFICATION Spec
INVARIANTS EffectHeldByAll
