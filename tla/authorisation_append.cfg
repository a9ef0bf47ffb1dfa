SPECIFICATION Spec
CONSTANTS
  alice = alice
  bob = bob
  c1 = c1
  c2 = c2
  n1 = n1
  n2 = n2
  Users = {alice, bob}
  Namespaces = {n1}
  Consoles = {c1}
  Owner <- OwnedByAlice
  Kinds = {"append", "put"}
  MaxList = 2
PROPERTY AppendOnly
