SPECIFICATION FairSpec
CONSTANTS
  p1 = p1
  NoPod = NoPod
  Pods = {p1}
  Rules = {1, 2}
  Options <- AllOptions
  MaxApprovals = 1
  MaxVersions = 3
PROPERTY FailureEndsWait
CHECK_DEADLOCK FALSE
