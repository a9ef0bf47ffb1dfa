SPECIFICATION FairSpec
CONSTANTS
  p1 = p1
  p2 = p2
  NoPod = NoPod
  Pods <- PodsUnscheduled
  Rules <- AuthorisedByOne
  Disturbances = {"foreground", "deleteJob", "deleteConsole"}
  Resync = FALSE
  Observed = {}
  MaxErrors = 0
  MaxAuthorisations = 1
INVARIANT NothingUnnoticed
PROPERTIES EventuallyCollected
