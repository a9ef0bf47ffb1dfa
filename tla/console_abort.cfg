SPECIFICATION Spec
CONSTANTS
  p1 = p1
  p2 = p2
  NoPod = NoPod
  Pods <- TwoPods
  Rules <- NoRules
  Disturbances = {"evict"}
  Resync = TRUE
  Observed = {}
  MaxErrors = 0
  MaxAuthorisations = 0
PROPERTY AbortStopsConsole
