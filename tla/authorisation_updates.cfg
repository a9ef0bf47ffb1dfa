SPECIFICATION Spec
CONSTANTS
  alice = alice
  bob = bob
  c1 = c1
  c2 = c2
  n1 = n1
  n2 = n2
  Users = {alice, bob}
  Namespaces = {n1, n2}
  Consoles = {c1, c2}
  Owner <- OwnedByAliceAndBob
  Kinds = {"append", "put", "merge"}
  MaxList = 2
INVARIANTS TypeOK OwnerNeverListed RecordedApprovals ConfirmedApprovals
SYMMETRY Symmetry
