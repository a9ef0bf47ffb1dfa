SPECIFICATION FairSpec
CONSTANTS
  p1 = p1
  p2 = p2
  NoPod = NoPod
  Pods <- OnePod
  Rules <- NoRules
  Disturbances = {"foreground", "deleteJob"}
  Resync = FALSE
  Observed = {}
  MaxErrors = 0
  MaxAuthorisations = 0
PROPERTIES EventuallyCollected
