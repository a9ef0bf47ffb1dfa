------------------------------ MODULE MCDirectory ------------------------------
(* Values of DirectoryRoleBinding's constants for TLC. *)
EXTENDS DirectoryRoleBinding

CONSTANTS b1, b2, g1, g2

OneSpec == [groups : {{g1}}, users : {{}, {1}}, role : {"r"}]
TwoGroups == [groups : {{g1, g2}, {g2}}, users : {{}}, role : {"r"}]
TwoRoles == [groups : {{g1}}, users : {{}}, role : {"r", "s"}]
=============================================================================
