------------------------------ MODULE MCDeadlines ------------------------------
(* Values of ConsoleDeadlines' constants for TLC. *)
EXTENDS ConsoleDeadlines

Generous == [default |-> 2, max |-> 3, ttlBefore |-> 1, ttlAfter |-> Unset]
Strict == [default |-> 1, max |-> 1, ttlBefore |-> Unset, ttlAfter |-> 0]
Inverted == [default |-> 2, max |-> 1, ttlBefore |-> 2, ttlAfter |-> 1]
Closed == [default |-> 1, max |-> 0, ttlBefore |-> 2, ttlAfter |-> 1]

SomeTTLs == {Unset, 1}

OpenTemplates == {Generous, Strict, Inverted}
=============================================================================
