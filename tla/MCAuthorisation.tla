---------------------------- MODULE MCAuthorisation ----------------------------
(* Values of ConsoleAuthorisation's constants for TLC. *)
EXTENDS ConsoleAuthorisation, TLC

CONSTANTS alice, bob, c1, c2, n1, n2

OwnedByAlice == [c \in Consoles |-> alice]
OwnedByAliceAndBob == [c \in Consoles |-> IF c = c1 THEN alice ELSE bob]

\* Under OwnedByAliceAndBob the users change places only together with their consoles.
Symmetry ==
  {p \in Permutations({alice, bob, c1, c2, n1, n2}) :
     /\ {p[n1], p[n2]} = {n1, n2}
     /\ p[alice] \in {alice, bob} /\ p[bob] \in {alice, bob}
     /\ p[c1] = IF p[alice] = alice THEN c1 ELSE c2
     /\ p[c2] = IF p[alice] = alice THEN c2 ELSE c1}
=============================================================================
