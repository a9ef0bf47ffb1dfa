------------------------------- MODULE MCRunner -------------------------------
(* Values of ConsoleRunner's constants for TLC. *)
EXTENDS ConsoleRunner

CONSTANT p1

\* Every call whose options make a difference.
AllOptions ==
  {o \in [flow : {"create", "authorise", "attach"}, attach : BOOLEAN, noninteractive : BOOLEAN,
          ruleKnown : BOOLEAN] :
     /\ o.flow # "create" => o.ruleKnown
     /\ o.flow = "attach" => o.attach
     /\ ~o.attach => ~o.noninteractive
     /\ ~o.ruleKnown => ~o.attach}
=============================================================================
