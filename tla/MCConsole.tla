------------------------------ MODULE MCConsole ------------------------------
(* Values of ConsoleController's constants for TLC. *)
EXTENDS ConsoleRefinement

CONSTANTS p1, p2

PodsUnscheduled == {}
OnePod == {p1}
TwoPods == {p1, p2}

NoRules == {NoRule}

AuthorisedByOne == {1}
RuleEdited == {0, 1}
=============================================================================
