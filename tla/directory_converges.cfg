SPECIFICATION FairSpec
CONSTANTS
  b1 = b1
  b2 = b2
  g1 = g1
  g2 = g2
  Bindings = {b1, b2}
  Groups = {g1, g2}
  Roles = {"r"}
  Specs <- TwoGroups
  Users = {1}
  TTL = 1
  Refresh = 1
  PerPage = 1
  GoogleMaxPages = 1
  Prompt = TRUE
  MaxListing = 0
  Horizon = 0
  Tracked = {"ever"}
  MaxChanges = 1
  MaxUid = 1
  MaxFailures = 1
INVARIANTS TypeOK OnlyEntitled NothingUnnoticed
PROPERTY Converges
