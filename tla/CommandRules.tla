------------------------------ MODULE CommandRules ------------------------------
(***************************************************************************)
(* Which authorisation rule of a console template applies to a command:    *)
(* GetAuthorisationRuleForCommand as the loop it is, against the meaning   *)
(* its comment gives to a pattern of matchers, and the command that each   *)
(* of its callers hands to it.                                             *)
(***************************************************************************)
EXTENDS Integers, Sequences

CONSTANTS
  Words,        \* the strings a command is made of
  Callers,      \* who looks for the rule: "controller", "runner"
  MaxRules, MaxMatchers, MaxCommand  \* bounds on what TLC enumerates

ASSUME CallersAssumption == Callers \subseteq {"controller", "runner"}
ASSUME BoundsAssumption == MaxRules \in Nat /\ MaxMatchers \in Nat /\ MaxCommand \in Nat

Matchers == Words \cup {"*", "**", ""}

SequencesOf(S, lengths) == UNION {[1..n -> S] : n \in lengths}

Patterns == SequencesOf(Matchers, 0..MaxMatchers)
Commands == SequencesOf(Words, 0..MaxCommand)
\* A template has one container or, where nobody filled it in, none: of each the command.
Templates == [rules : SequencesOf(Patterns, 0..MaxRules), hasDefault : BOOLEAN,
              containers : SequencesOf(Commands, {0, 1})]

VARIABLES
  tpl,      \* the console template
  asked,    \* the command in the console's spec, empty for the template's own
  caller,   \* who asks
  command,  \* the command whose rule is looked for
  pc, r, i, \* the loop: the rule and the matcher it is at
  result    \* what is returned

vars == <<tpl, asked, caller, command, pc, r, i, result>>
inputs == <<tpl, asked, caller>>

Rule(n) == [kind |-> "rule", rule |-> n]
DefaultRule == Rule(0)
Failure(kind) == [kind |-> kind, rule |-> 0]
Pending == Failure("pending")

-----------------------------------------------------------------------------
(* What the comment of GetAuthorisationRuleForCommand promises *)

Fits(pattern, cmd) ==
  /\ Len(pattern) = Len(cmd)
  /\ \A j \in 1..Len(cmd) : pattern[j] \in {"*", cmd[j]}

\* A double wildcard stands for any number of wildcards.
Expanded(pattern, n) ==
  IF pattern # <<>> /\ pattern[Len(pattern)] = "**"
  THEN SubSeq(pattern, 1, Len(pattern) - 1) \o [j \in 1..n |-> "*"]
  ELSE pattern

Matches(pattern, cmd) == \E n \in 0..Len(cmd) : Fits(Expanded(pattern, n), cmd)

MatchingRules(cmd) == {n \in DOMAIN tpl.rules : Matches(tpl.rules[n], cmd)}

\* The first rule that matches, or else the default.
IsRuleFor(n, cmd) ==
  IF MatchingRules(cmd) = {} THEN n = 0
  ELSE n \in MatchingRules(cmd) /\ \A m \in MatchingRules(cmd) : n <= m

-----------------------------------------------------------------------------
(* The code: api/workloads/v1alpha1/helpers.go *)

HasAuthorisationRules == tpl.rules # <<>> \/ tpl.hasDefault

ValidPattern_Anywhere(pattern) ==                                       \* mutant
  \A j \in DOMAIN pattern : pattern[j] # ""

ValidPattern(pattern) ==
  \A j \in DOMAIN pattern : /\ pattern[j] # ""
                            /\ pattern[j] = "**" => j + 1 > Len(pattern)

Validate ==
  /\ \A n \in DOMAIN tpl.rules : ValidPattern(tpl.rules[n])
  /\ tpl.rules # <<>> => tpl.hasDefault

\* The API takes only what the webhook admits and, by the CRD's MinItems, no empty pattern.
Admitted == Validate /\ \A n \in DOMAIN tpl.rules : tpl.rules[n] # <<>>

\* The controller starts a console with its own command or else its template's.
HasCommand == asked # <<>> \/ tpl.containers # <<>>
getCommand == IF asked # <<>> THEN asked ELSE tpl.containers[1]

LengthFits_Any(pattern) ==                                              \* mutant
  pattern[Len(pattern)] = "**" \/ Len(command) = Len(pattern)

LengthFits(pattern) ==
  IF pattern[Len(pattern)] = "**" THEN Len(command) >= Len(pattern) - 1
  ELSE Len(command) = Len(pattern)

-----------------------------------------------------------------------------
Init ==
  /\ tpl \in Templates /\ asked \in Commands /\ caller \in Callers
  /\ command = <<>> /\ pc = "call" /\ r = 0 /\ i = 0 /\ result = Pending

Return(value) == pc' = "done" /\ result' = value /\ UNCHANGED <<inputs, command, r, i>>

NextRule_Second == pc' = "rule" /\ r' = r + 2 /\ i' = 0                  \* mutant
NextRule == pc' = "rule" /\ r' = r + 1 /\ i' = 0

\* The controller asks for the command that it starts, if it finds one and there are
\* rules; the runner, for the command that its user gave.
Call ==
  /\ pc = "call"
  /\ \/ /\ caller = "controller" /\ ~HasCommand
        /\ Return(Failure("no command"))
     \/ /\ caller = "controller" /\ HasCommand /\ ~HasAuthorisationRules
        /\ Return(Failure("no rules"))
     \/ /\ caller = "controller" => HasCommand /\ HasAuthorisationRules
        /\ ~Validate
        /\ Return(Failure("invalid"))
     \/ /\ caller = "controller" => HasCommand /\ HasAuthorisationRules
        /\ Validate
        /\ command' = IF caller = "controller" THEN getCommand ELSE asked
        /\ NextRule
        /\ UNCHANGED <<inputs, result>>

\* The head of the loop: the last matcher decides which lengths will do, and an empty
\* pattern has none.
CheckLength ==
  /\ pc = "rule" /\ r <= Len(tpl.rules)
  /\ \/ /\ tpl.rules[r] = <<>>
        /\ Return(Failure("panic"))
     \/ /\ tpl.rules[r] # <<>>
        /\ IF LengthFits(tpl.rules[r])
           THEN pc' = "matcher" /\ i' = 1 /\ UNCHANGED r
           ELSE NextRule
        /\ UNCHANGED <<inputs, command, result>>

\* command[i] panics when it is out of range.
CheckMatcher ==
  /\ pc = "matcher" /\ i <= Len(tpl.rules[r]) /\ tpl.rules[r][i] # "**"
  /\ IF tpl.rules[r][i] # "*" /\ i > Len(command)
     THEN Return(Failure("panic"))
     ELSE /\ IF tpl.rules[r][i] = "*" \/ tpl.rules[r][i] = command[i]
             THEN i' = i + 1 /\ UNCHANGED <<pc, r>>
             ELSE NextRule
          /\ UNCHANGED <<inputs, command, result>>

\* A double wildcard, or the end of the pattern.
RuleMatched ==
  /\ pc = "matcher"
  /\ i <= Len(tpl.rules[r]) => tpl.rules[r][i] = "**"
  /\ Return(Rule(r))

NoRuleMatched ==
  /\ pc = "rule" /\ r > Len(tpl.rules)
  /\ Return(IF tpl.hasDefault THEN DefaultRule ELSE Failure("no match"))

Next == Call \/ CheckLength \/ CheckMatcher \/ RuleMatched \/ NoRuleMatched

Spec == Init /\ [][Next]_vars

-----------------------------------------------------------------------------
(* Properties *)

TypeOK ==
  /\ tpl \in Templates /\ asked \in Commands /\ caller \in Callers
  /\ command \in Commands /\ pc \in {"call", "rule", "matcher", "done"}
  /\ r \in 0..MaxRules + 1 /\ i \in 0..MaxMatchers + 1
  /\ result \in [kind : {"pending", "rule", "no command", "no rules", "invalid",
                         "no match", "panic"}, rule : 0..MaxRules]

\* Whatever the template and the command, the loop returns the first rule whose
\* pattern matches in the comment's sense, and the default rule when none does.
FirstRuleWins == result.kind = "rule" => IsRuleFor(result.rule, command)

\* A template that the API admits always has a rule to give, for any command there is:
\* the caller sees neither an error nor an index out of range.
ValidTemplatesHaveRules ==
  pc = "done" /\ Admitted /\ HasCommand /\ HasAuthorisationRules => result.kind = "rule"

\* The rule that is found is that of "the command that a console is being started
\* with" (helpers.go:114), for whoever asks.
RuleOfStartedCommand ==
  result.kind = "rule" /\ HasCommand => IsRuleFor(result.rule, getCommand)
=============================================================================
