SPECIFICATION Spec
CONSTANTS
  b1 = b1
  b2 = b2
  g1 = g1
  g2 = g2
  Bindings = {b1}
  Groups = {g1}
  Roles = {"r"}
  Specs <- OneSpec
  Users = {1, 2}
  TTL = 3
  Refresh = 2
  PerPage = 1
  GoogleMaxPages = 2
  Prompt = TRUE
  MaxListing = 1
  Horizon = 8
  Tracked = {"settled"}
  MaxChanges = 2
  MaxUid = 2
  MaxFailures = 1
INVARIANT SettledAccess
