SPECIFICATION Spec
CONSTANTS
  Words = {"a", "b"}
  Callers = {"controller", "runner"}
  MaxRules = 1
  MaxMatchers = 2
  MaxCommand = 1
INVARIANT RuleOfStartedCommand
CHECK_DEADLOCK FALSE
