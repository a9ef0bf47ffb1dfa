SPECIFICATION Spec
CONSTANTS
  b1 = b1
  b2 = b2
  g1 = g1
  g2 = g2
  Bindings = {b1}
  Groups = {g1}
  Roles = {"r", "s"}
  Specs <- TwoRoles
  Users = {1}
  TTL = 1
  Refresh = 1
  PerPage = 1
  GoogleMaxPages = 2
  Prompt = FALSE
  MaxListing = 0
  Horizon = 0
  Tracked = {}
  MaxChanges = 1
  MaxUid = 1
  MaxFailures = 0
INVARIANT SameRole
