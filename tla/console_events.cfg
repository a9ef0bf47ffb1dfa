SPECIFICATION FreshSpec
CONSTANTS
  p1 = p1
  p2 = p2
  NoPod = NoPod
  Pods <- OnePod
  Rules <- RuleEdited
  Disturbances = {"editTemplate"}
  Resync = TRUE
  Observed = {"start", "terminate"}
  MaxErrors = 1
  MaxAuthorisations = 2
INVARIANT AuditedTransitions
PROPERTY KeepsAuthorisers
