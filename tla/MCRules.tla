-------------------------------- MODULE MCRules --------------------------------
(* CommandRules for TLC, with the examples of its comment as a check of Matches. *)
EXTENDS CommandRules

\* The table of helpers.go:135-145 (its last row is not a valid pattern).
ASSUME ExamplesOfTheComment ==
  /\ Matches(<<"bash">>, <<"bash">>)
  /\ ~Matches(<<"ls", "*">>, <<"ls">>)
  /\ Matches(<<"ls", "*">>, <<"ls", "file">>)
  /\ ~Matches(<<"ls", "*", "file2">>, <<"ls", "file", "file3", "file2">>)
  /\ Matches(<<"ls", "*", "file2">>, <<"ls", "file", "file2">>)
  /\ Matches(<<"echo", "**">>, <<"echo">>)
  /\ Matches(<<"echo", "**">>, <<"echo", "hello">>)
  /\ Matches(<<"echo", "**">>, <<"echo", "hi", "bye">>)
=============================================================================
