SPECIFICATION Spec
CONSTANTS
  Words = {"a", "b"}
  Callers = {"controller", "runner"}
  MaxRules = 2
  MaxMatchers = 2
  MaxCommand = 2
INVARIANTS TypeOK FirstRuleWins ValidTemplatesHaveRules
CHECK_DEADLOCK FALSE
