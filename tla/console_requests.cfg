SPECIFICATION Spec
CONSTANTS
  p1 = p1
  p2 = p2
  NoPod = NoPod
  Pods <- OnePod
  Rules <- NoRules
  Disturbances = {}
  Resync = TRUE
  Observed = {"request"}
  MaxErrors = 0
  MaxAuthorisations = 1
INVARIANT RequestedOnce
