--------------------------- MODULE CommandRulesProofs ---------------------------
(***************************************************************************)
(* Theorems about CommandRules, for every template and command.            *)
(*                                                                         *)
(* MatchCriterion says what the loop has to test of a valid pattern: the   *)
(* lengths, and each matcher before a double wildcard.  The invariant then *)
(* says how far the loop has come: no rule before r matches, and every     *)
(* matcher before i fits.                                                  *)
(***************************************************************************)
EXTENDS CommandRules, SequenceTheorems, TLAPS

Element(pattern, cmd, j) == pattern[j] = "*" \/ pattern[j] = cmd[j]

LengthOf(pattern, cmd) ==
  IF pattern[Len(pattern)] = "**" THEN Len(cmd) >= Len(pattern) - 1
  ELSE Len(cmd) = Len(pattern)

Looping ==
  pc \in {"rule", "matcher"} =>
    /\ Validate
    /\ r \in Nat \ {0}
    /\ \A n \in DOMAIN tpl.rules : n < r => ~Matches(tpl.rules[n], command)

AtMatcher ==
  pc = "matcher" =>
    /\ r \in DOMAIN tpl.rules /\ tpl.rules[r] # <<>>
    /\ LengthOf(tpl.rules[r], command)
    /\ i \in 1..Len(tpl.rules[r]) + 1
    /\ \A j \in 1..i - 1 : tpl.rules[r][j] # "**" /\ Element(tpl.rules[r], command, j)

Typed ==
  /\ tpl \in [rules : Seq(Seq(Matchers)), hasDefault : BOOLEAN,
             containers : Seq(Seq(Words))]
  /\ asked \in Seq(Words) /\ command \in Seq(Words)
  /\ pc \in {"call", "rule", "matcher", "done"}

Unanswered ==
  /\ pc # "done" => result = Pending
  /\ pc = "call" => r = 0

Inv == Typed /\ Looping /\ AtMatcher /\ Unanswered /\ FirstRuleWins

-----------------------------------------------------------------------------
LEMMA SequencesAreSeq ==
  ASSUME NEW S, NEW N \in SUBSET Nat, NEW s \in SequencesOf(S, N)
  PROVE  s \in Seq(S)
BY DEF SequencesOf

\* A double wildcard is tried at any length; the one that fits is the command's own.
LEMMA MatchCriterion ==
  ASSUME NEW p \in Seq(Matchers), p # <<>>, ValidPattern(p), NEW cmd \in Seq(Words)
  PROVE  Matches(p, cmd) <=>
           /\ LengthOf(p, cmd)
           /\ \A j \in 1..Len(p) : p[j] = "**" \/ Element(p, cmd, j)
<1> DEFINE n == Len(p)
<1>1. n \in Nat /\ n >= 1 /\ Len(cmd) \in Nat /\ DOMAIN p = 1..n /\ n = Len(p)
  BY EmptySeq, LenProperties
<1>0. n \in Int /\ n >= 1
  BY <1>1
<1> HIDE DEF n
<1>2. \A j \in 1..n : p[j] = "**" => j = n
  <2> SUFFICES ASSUME NEW j \in 1..n, p[j] = "**" PROVE j = n
    OBVIOUS
  <2>1. j \in Int /\ j <= n /\ n \in Int
    BY <1>1
  <2>2. j \in DOMAIN p
    BY <1>1
  <2>3. j + 1 > n
    BY <1>1, <2>2 DEF ValidPattern
  <2> QED BY <2>1, <2>3
<1>3. CASE p[n] # "**"
  <2>1. \A k \in 0..Len(cmd) : Expanded(p, k) = p
    BY <1>1, <1>3 DEF Expanded
  <2>2. Matches(p, cmd) <=> Fits(p, cmd)
    BY <2>1, <1>1 DEF Matches
  <2>3. \A j \in 1..n : p[j] # "**"
    BY <1>2, <1>3
  <2> QED BY <1>1, <1>3, <2>2, <2>3 DEF Fits, LengthOf, Element
<1>4. CASE p[n] = "**"
  <2>1. ASSUME NEW k \in Nat
        PROVE  /\ Len(Expanded(p, k)) = n - 1 + k
               /\ \A j \in 1..n - 1 : Expanded(p, k)[j] = p[j]
               /\ \A j \in n..n - 1 + k : Expanded(p, k)[j] = "*"
    <3> DEFINE front == SubSeq(p, 1, n - 1)
               wild == [j \in 1..k |-> "*"]
    <3>1. /\ front \in Seq(Matchers) /\ Len(front) = n - 1
          /\ \A j \in 1..n - 1 : front[j] = p[j]
      <4>1. n - 1 \in Nat /\ \A j \in 1..n - 1 : p[j] \in Matchers
        BY <1>1, ElementOfSeq
      <4>2. 1 \in Int /\ n - 1 \in Int
        BY <4>1
      <4>3. /\ front \in Seq(Matchers)
            /\ Len(front) = IF 1 <= n - 1 THEN n - 1 - 1 + 1 ELSE 0
            /\ \A j \in 1..n - 1 - 1 + 1 : front[j] = p[1 + j - 1]
        BY <4>1, <4>2, SubSeqProperties
      <4>4. n - 1 - 1 + 1 = n - 1 /\ \A j \in Int : 1 + j - 1 = j
        BY <1>1
      <4>5. Len(front) = n - 1
        BY <1>1, <4>3
      <4>6. \A j \in 1..n - 1 : front[j] = p[j]
        BY <4>3, <4>4
      <4> QED BY <4>3, <4>5, <4>6
    <3>2. wild \in Seq({"*"}) /\ Len(wild) = k
      BY <2>1
    <3>3. Expanded(p, k) = front \o wild
      BY <1>1, <1>4 DEF Expanded
    <3>4. /\ Len(front \o wild) = n - 1 + k
          /\ \A j \in 1..n - 1 : (front \o wild)[j] = front[j]
          /\ \A j \in n..n - 1 + k : (front \o wild)[j] = wild[j - (n - 1)]
      BY <1>1, <3>1, <3>2
    <3>5. \A j \in n..n - 1 + k : j - (n - 1) \in 1..k
      BY <1>1
    <3> HIDE DEF front
    <3> QED BY <3>1, <3>3, <3>4, <3>5
  <2>2. ASSUME Matches(p, cmd)
        PROVE  LengthOf(p, cmd) /\ \A j \in 1..n : p[j] = "**" \/ Element(p, cmd, j)
    <3>1. PICK k \in 0..Len(cmd) : Fits(Expanded(p, k), cmd)
      BY <2>2 DEF Matches
    <3>2. k \in Nat /\ Len(Expanded(p, k)) = n - 1 + k
      BY <1>1, <2>1
    <3>3. Len(cmd) = n - 1 + k
      BY <3>1, <3>2 DEF Fits
    <3>4. ASSUME NEW j \in 1..n - 1 PROVE Element(p, cmd, j)
      <4>1. Expanded(p, k)[j] = p[j]
        BY <2>1, <3>2
      <4>2. j \in 1..Len(cmd)
        BY <1>1, <3>2, <3>3
      <4> QED BY <3>1, <4>1, <4>2 DEF Fits, Element
    <3> QED BY <1>1, <1>4, <3>2, <3>3, <3>4 DEF LengthOf
  <2>3. ASSUME LengthOf(p, cmd), \A j \in 1..n : p[j] = "**" \/ Element(p, cmd, j)
        PROVE  Matches(p, cmd)
    <3> DEFINE k == Len(cmd) - (n - 1)
    <3>1. k \in 0..Len(cmd) /\ k \in Nat /\ n - 1 + k = Len(cmd)
      BY <1>1, <1>4, <2>3 DEF LengthOf
    <3>2. ASSUME NEW j \in 1..n - 1 PROVE Element(p, cmd, j)
      <4>1. j \in 1..n /\ j # n
        BY <1>0
      <4> QED BY <1>2, <2>3, <4>1
    <3> HIDE DEF k
    <3>3. Len(Expanded(p, k)) = Len(cmd)
      BY <1>1, <2>1, <3>1
    <3>4. ASSUME NEW j \in 1..Len(cmd) PROVE Expanded(p, k)[j] \in {"*", cmd[j]}
      <4>1. CASE j <= n - 1
        <5>1. j \in 1..n - 1 /\ Element(p, cmd, j)
          BY <1>1, <3>2, <4>1
        <5>2. Expanded(p, k)[j] = p[j]
          BY <2>1, <3>1, <5>1
        <5> QED BY <5>1, <5>2 DEF Element
      <4>2. CASE j >= n
        <5>1. j \in n..n - 1 + k
          BY <1>1, <3>1, <4>2
        <5> QED BY <2>1, <3>1, <5>1
      <4> QED BY <1>1, <4>1, <4>2
    <3> QED BY <3>1, <3>3, <3>4 DEF Matches, Fits
  <2> QED BY <1>1, <2>2, <2>3
<1> QED BY <1>3, <1>4

\* The criterion for the rule at hand, with the loop's own test of the lengths.
LEMMA RuleCriterion ==
  ASSUME Typed, Validate, NEW n \in DOMAIN tpl.rules, tpl.rules[n] # <<>>
  PROVE  /\ tpl.rules[n] \in Seq(Matchers)
         /\ LengthFits(tpl.rules[n]) <=> LengthOf(tpl.rules[n], command)
         /\ Matches(tpl.rules[n], command) <=>
              /\ LengthOf(tpl.rules[n], command)
              /\ \A j \in 1..Len(tpl.rules[n]) :
                   tpl.rules[n][j] = "**" \/ Element(tpl.rules[n], command, j)
<1>1. tpl.rules[n] \in Seq(Matchers) /\ ValidPattern(tpl.rules[n]) /\ command \in Seq(Words)
  BY DEF Typed, Validate
<1>2. LengthFits(tpl.rules[n]) <=> LengthOf(tpl.rules[n], command)
  BY DEF LengthFits, LengthOf
<1> QED BY <1>1, <1>2, MatchCriterion

-----------------------------------------------------------------------------
LEMMA InitInv == Init => Inv
<1> SUFFICES ASSUME Init PROVE Inv
  OBVIOUS
<1>1. /\ 0..MaxMatchers \in SUBSET Nat
      /\ 0..MaxRules \in SUBSET Nat /\ 0..MaxCommand \in SUBSET Nat
  BY BoundsAssumption
<1>2. Patterns \subseteq Seq(Matchers) /\ Commands \subseteq Seq(Words)
  BY <1>1, SequencesAreSeq DEF Patterns, Commands
<1>3. SequencesOf(Patterns, 0..MaxRules) \subseteq Seq(Seq(Matchers))
  BY <1>1, <1>2 DEF SequencesOf
<1>4. SequencesOf(Commands, {0, 1}) \subseteq Seq(Seq(Words))
  <2>1. ASSUME NEW n \in {0, 1}, NEW f \in [1..n -> Commands] PROVE f \in Seq(Commands)
    OBVIOUS
  <2>2. Seq(Commands) \subseteq Seq(Seq(Words))
    BY <1>2
  <2> QED BY <2>1, <2>2 DEF SequencesOf
<1>5. Typed
  BY <1>2, <1>3, <1>4 DEF Init, Templates, Typed
<1> QED BY <1>5 DEF Init, Inv, Looping, AtMatcher, Unanswered, FirstRuleWins, Pending, Failure

\* The template is never written, so nothing that depends on it alone changes.
LEMMA InputsStay ==
  ASSUME Next
  PROVE  /\ tpl' = tpl /\ asked' = asked
         /\ Validate' <=> Validate
BY DEF Next, Call, CheckLength, CheckMatcher, RuleMatched, NoRuleMatched, Return, inputs,
       Validate

LEMMA CommandType ==
  ASSUME NEW S, tpl.containers \in Seq(S), asked \in S, HasCommand
  PROVE  getCommand \in S
<1>1. ASSUME NEW c \in Seq(S), c # <<>> PROVE c[1] \in S
  BY <1>1
<1> QED BY <1>1 DEF getCommand, HasCommand

LEMMA TypedNext == Typed /\ Next => Typed'
<1> SUFFICES ASSUME Typed, Next PROVE Typed'
  OBVIOUS
<1>1. CASE Call
  <2>1. HasCommand => getCommand \in Seq(Words)
    BY CommandType DEF Typed
  <2>2. command' \in Seq(Words)
    BY <1>1, <2>1 DEF Call, Return, Typed
  <2> QED BY <1>1, <2>2, InputsStay DEF Typed, Call, Return, NextRule
<1>2. CASE CheckLength \/ CheckMatcher \/ RuleMatched \/ NoRuleMatched
  BY <1>2, InputsStay DEF Typed, CheckLength, CheckMatcher, RuleMatched, NoRuleMatched,
                          Return, NextRule, inputs
<1> QED BY <1>1, <1>2 DEF Next

\* A rule that does not match is left for good.
LEMMA PassOver ==
  ASSUME Typed, Looping, pc \in {"rule", "matcher"}, r \in DOMAIN tpl.rules,
         ~Matches(tpl.rules[r], command),
         NextRule, UNCHANGED <<inputs, command>>
  PROVE  Looping' /\ AtMatcher'
<1>1. Validate' /\ r \in Int /\ r > 0 /\ r' = r + 1
  BY DEF Looping, Validate, NextRule, inputs
<1>2. ASSUME NEW n \in DOMAIN tpl.rules, n < r' PROVE ~Matches(tpl.rules[n], command)
  <2>1. n \in Int
    BY LenProperties DEF Typed
  <2>2. n < r \/ n = r
    BY <1>1, <1>2, <2>1
  <2> QED BY <2>2 DEF Looping
<1> QED BY <1>1, <1>2 DEF Looping, AtMatcher, NextRule, inputs

LEMMA CallInv == Inv /\ Call => Looping' /\ AtMatcher'
<1> SUFFICES ASSUME Inv, Call PROVE Looping' /\ AtMatcher'
  OBVIOUS
<1>1. CASE pc' = "done"
  BY <1>1 DEF Looping, AtMatcher
<1>2. CASE pc' # "done"
  <2>1. pc = "call" /\ Validate /\ NextRule /\ tpl' = tpl
    BY <1>2 DEF Call, Return, inputs
  <2>2. r = 0 /\ pc' = "rule" /\ r' = r + 1
    BY <2>1 DEF NextRule, Inv, Unanswered
  <2>3. Validate'
    BY <2>1 DEF Validate
  <2>4. r' = 1 /\ \A n \in DOMAIN tpl.rules : ~(n < 1)
    BY <2>2, LenProperties DEF Inv, Typed
  <2> QED BY <2>1, <2>2, <2>3, <2>4 DEF Looping, AtMatcher
<1> QED BY <1>1, <1>2

LEMMA CheckLengthInv == Inv /\ CheckLength => Looping' /\ AtMatcher'
<1> SUFFICES ASSUME Inv, CheckLength PROVE Looping' /\ AtMatcher'
  OBVIOUS
<1> USE DEF Inv
<1>1. CASE pc' = "done"
  BY <1>1 DEF Looping, AtMatcher
<1>2. CASE pc' # "done"
  <2>1. /\ pc = "rule" /\ tpl.rules[r] # <<>> /\ Validate
        /\ r \in Int /\ r > 0 /\ r <= Len(tpl.rules)
        /\ UNCHANGED <<inputs, command>>
    BY <1>2 DEF CheckLength, Return, Looping
  <2>2. r \in DOMAIN tpl.rules /\ Len(tpl.rules[r]) \in Nat
    BY <2>1, LenProperties DEF Typed
  <2>3. CASE LengthFits(tpl.rules[r])
    <3>1. pc' = "matcher" /\ i' = 1 /\ r' = r
      BY <1>2, <2>1, <2>3 DEF CheckLength
    <3>2. LengthOf(tpl.rules[r], command)
      BY <2>1, <2>2, <2>3, RuleCriterion
    <3>3. Looping'
      BY <2>1, <3>1 DEF Looping, Validate, inputs
    <3>4. 1 \in 1..Len(tpl.rules[r]) + 1 /\ 1..1 - 1 = {}
      BY <2>2
    <3> QED BY <2>1, <2>2, <3>1, <3>2, <3>3, <3>4 DEF AtMatcher, inputs
  <2>4. CASE ~LengthFits(tpl.rules[r])
    <3>1. ~Matches(tpl.rules[r], command)
      BY <2>1, <2>2, <2>4, RuleCriterion
    <3>2. NextRule
      BY <1>2, <2>1, <2>4 DEF CheckLength
    <3> QED BY <2>1, <2>2, <3>1, <3>2, PassOver
  <2> QED BY <2>3, <2>4
<1> QED BY <1>1, <1>2

LEMMA CheckMatcherInv == Inv /\ CheckMatcher => Looping' /\ AtMatcher'
<1> SUFFICES ASSUME Inv, CheckMatcher PROVE Looping' /\ AtMatcher'
  OBVIOUS
<1> USE DEF Inv
<1> DEFINE p == tpl.rules[r]
<1>1. /\ pc = "matcher" /\ Validate /\ r \in DOMAIN tpl.rules /\ p # <<>>
      /\ LengthOf(p, command) /\ p[i] # "**"
      /\ \A j \in 1..i - 1 : p[j] # "**" /\ Element(p, command, j)
  BY DEF CheckMatcher, Looping, AtMatcher
<1>2. i \in Int /\ i >= 1 /\ i <= Len(p) /\ Len(p) \in Nat
  BY <1>1, LenProperties DEF CheckMatcher, AtMatcher, Typed
<1>3. CASE pc' = "done"
  BY <1>3 DEF Looping, AtMatcher
<1>4. CASE pc' # "done"
  <2>1. UNCHANGED <<inputs, command>>
    BY <1>4 DEF CheckMatcher, Return
  <2>2. CASE Element(p, command, i)
    <3>1. i' = i + 1 /\ UNCHANGED <<pc, r>>
      BY <1>1, <1>4, <2>2 DEF CheckMatcher, Element, Return
    <3>2. \A j \in 1..i' - 1 : p[j] # "**" /\ Element(p, command, j)
      <4>1. ASSUME NEW j \in 1..i' - 1 PROVE j \in 1..i - 1 \/ j = i
        BY <1>2, <3>1
      <4> QED BY <1>1, <2>2, <4>1
    <3>3. i' \in 1..Len(p) + 1
      BY <1>2, <3>1
    <3>4. Looping'
      BY <1>1, <2>1, <3>1 DEF Looping, Validate, inputs
    <3> QED BY <1>1, <2>1, <3>1, <3>2, <3>3, <3>4 DEF AtMatcher, inputs
  <2>3. CASE ~Element(p, command, i)
    <3>1. NextRule
      BY <1>1, <1>4, <2>3 DEF CheckMatcher, Element, Return
    <3>2. ~Matches(p, command)
      BY <1>1, <1>2, <2>3, RuleCriterion
    <3> QED BY <1>1, <2>1, <3>1, <3>2, PassOver
  <2> QED BY <2>2, <2>3
<1> QED BY <1>3, <1>4

\* Every matcher before i fits; a double wildcard, or the end, settles the rest.
LEMMA MatchedRule ==
  ASSUME Inv, RuleMatched
  PROVE  r \in MatchingRules(command) /\ \A m \in MatchingRules(command) : r <= m
<1> USE DEF Inv
<1> DEFINE p == tpl.rules[r]
<1>1. /\ Validate /\ r \in DOMAIN tpl.rules /\ p # <<>> /\ LengthOf(p, command)
      /\ i <= Len(p) => p[i] = "**"
      /\ \A j \in 1..i - 1 : p[j] # "**" /\ Element(p, command, j)
  BY DEF RuleMatched, Looping, AtMatcher
<1>2. i \in Int /\ i >= 1 /\ i <= Len(p) + 1 /\ Len(p) \in Nat /\ DOMAIN p = 1..Len(p)
  BY <1>1, LenProperties DEF RuleMatched, AtMatcher, Typed
<1>3. ASSUME NEW j \in 1..Len(p) PROVE p[j] = "**" \/ Element(p, command, j)
  <2>1. j \in 1..i - 1 \/ j = i \/ (j > i /\ i <= Len(p) /\ i \in DOMAIN p)
    BY <1>2
  <2>2. i \in DOMAIN p /\ p[i] = "**" => i + 1 > Len(p)
    BY <1>1 DEF Validate, ValidPattern
  <2>3. ~(j > i /\ i + 1 > Len(p))
    BY <1>2
  <2>4. i \in DOMAIN p => p[i] = "**"
    BY <1>1, <1>2
  <2>5. j = i => i \in DOMAIN p
    BY <1>2
  <2> QED BY <1>1, <2>1, <2>2, <2>3, <2>4, <2>5
<1>4. Matches(p, command)
  BY <1>1, <1>3, RuleCriterion
<1>5. \A m \in DOMAIN tpl.rules : m \in Int
  BY LenProperties DEF Typed
<1> QED BY <1>1, <1>4, <1>5 DEF MatchingRules, Looping, RuleMatched

LEMMA NothingMatched ==
  ASSUME Inv, NoRuleMatched
  PROVE  MatchingRules(command) = {}
<1>1. ASSUME NEW n \in DOMAIN tpl.rules PROVE n < r
  <2>1. Len(tpl.rules) \in Int /\ n \in Int /\ n <= Len(tpl.rules)
    BY LenProperties DEF Inv, Typed
  <2>2. pc = "rule" /\ r > Len(tpl.rules)
    BY DEF NoRuleMatched
  <2>3. r \in Int
    BY <2>2 DEF Inv, Looping
  <2> QED BY <2>1, <2>2, <2>3
<1> QED BY <1>1 DEF MatchingRules, Inv, Looping, NoRuleMatched

LEMMA Results ==
  /\ \A n : Rule(n).rule = n /\ Rule(n).kind = "rule"
  /\ \A kind : Failure(kind).kind = kind /\ Failure(kind).rule = 0
BY DEF Rule, Failure

\* Only a return gives a result, and the command is settled before it.
LEMMA FirstRuleNext == Inv /\ Next => FirstRuleWins'
<1> SUFFICES ASSUME Inv, Next PROVE FirstRuleWins'
  OBVIOUS
<1> USE DEF Inv
<1>1. CASE RuleMatched
  <2>1. UNCHANGED <<tpl, command>> /\ result' = Rule(r)
    BY <1>1 DEF RuleMatched, Return, inputs
  <2> QED BY <1>1, <2>1, MatchedRule DEF FirstRuleWins, IsRuleFor, MatchingRules, Rule
<1>2. CASE NoRuleMatched
  <2>1. /\ UNCHANGED <<tpl, command>>
        /\ result' = DefaultRule \/ result' = Failure("no match")
    BY <1>2 DEF NoRuleMatched, Return, inputs
  <2>2. result'.rule = 0
    BY <2>1, Results DEF DefaultRule
  <2>3. MatchingRules(command)' = {}
    BY <1>2, <2>1, NothingMatched DEF MatchingRules
  <2> QED BY <2>2, <2>3 DEF FirstRuleWins, IsRuleFor
<1>3. CASE Call \/ CheckLength \/ CheckMatcher
  <2>1. pc # "done"
    BY <1>3 DEF Call, CheckLength, CheckMatcher
  <2>2. result = Failure("pending")
    BY <2>1 DEF Unanswered, Pending
  <2>3. \E kind \in {"pending", "no command", "no rules", "invalid", "panic"} : result' = Failure(kind)
    BY <1>3, <2>2 DEF Call, CheckLength, CheckMatcher, Return
  <2>4. result'.kind # "rule"
    <3>1. PICK kind \in {"pending", "no command", "no rules", "invalid", "panic"} : result' = Failure(kind)
      BY <2>3
    <3>2. result'.kind = kind /\ kind # "rule"
      BY <3>1, Results
    <3> QED BY <3>2
  <2> QED BY <2>4 DEF FirstRuleWins
<1> QED BY <1>1, <1>2, <1>3 DEF Next

LEMMA NextInv == Inv /\ [Next]_vars => Inv'
<1> SUFFICES ASSUME Inv, [Next]_vars PROVE Inv'
  OBVIOUS
<1>1. CASE Next
  <2>1. Looping' /\ AtMatcher'
    <3>1. CASE RuleMatched \/ NoRuleMatched
      BY <3>1 DEF RuleMatched, NoRuleMatched, Return, Looping, AtMatcher
    <3> QED BY <1>1, <3>1, CallInv, CheckLengthInv, CheckMatcherInv DEF Next
  <2>2. Unanswered'
    BY <1>1 DEF Inv, Unanswered, Next, Call, CheckLength, CheckMatcher, RuleMatched,
                NoRuleMatched, Return, NextRule
  <2> QED BY <1>1, <2>1, <2>2, TypedNext, FirstRuleNext DEF Inv
<1>2. CASE UNCHANGED vars
  BY <1>2 DEF vars, Inv, Typed, Looping, AtMatcher, Unanswered, FirstRuleWins, Validate,
              IsRuleFor, MatchingRules
<1> QED BY <1>1, <1>2

LEMMA Invariant == Spec => []Inv
BY InitInv, NextInv, PTL DEF Spec

\* GetAuthorisationRuleForCommand returns the first rule whose pattern matches, and the
\* default rule only when none does.
THEOREM FirstRuleIsFound == Spec => []FirstRuleWins
<1>1. Inv => FirstRuleWins
  BY DEF Inv
<1> QED BY <1>1, Invariant, PTL

-----------------------------------------------------------------------------
\* An exact matcher is compared only where the command has an element.
LEMMA InRange == Inv /\ CheckMatcher => i <= Len(command)
<1> SUFFICES ASSUME Inv, CheckMatcher PROVE i <= Len(command)
  OBVIOUS
<1> USE DEF Inv
<1> DEFINE p == tpl.rules[r]
<1>1. /\ r \in DOMAIN tpl.rules /\ LengthOf(p, command) /\ p[i] # "**"
      /\ i \in 1..Len(p) + 1 /\ i <= Len(p)
  BY DEF CheckMatcher, AtMatcher
<1>2. Len(p) \in Int /\ Len(command) \in Int
  BY <1>1, LenProperties DEF Typed
<1>3. CASE p[Len(p)] = "**"
  <2>1. Len(command) >= Len(p) - 1
    BY <1>1, <1>3 DEF LengthOf
  <2>2. i # Len(p)
    BY <1>1, <1>3
  <2> QED BY <1>1, <1>2, <2>1, <2>2
<1>4. CASE p[Len(p)] # "**"
  <2>1. Len(command) = Len(p)
    BY <1>1, <1>4 DEF LengthOf
  <2> QED BY <1>1, <1>2, <2>1
<1> QED BY <1>3, <1>4

LEMMA RulesNext ==
  ASSUME Inv, ValidTemplatesHaveRules, Next
  PROVE  ValidTemplatesHaveRules'
<1> USE DEF Inv
<1>1. Admitted' <=> Admitted
  BY InputsStay DEF Admitted
<1>2. /\ HasAuthorisationRules' <=> HasAuthorisationRules
      /\ Validate' <=> Validate
      /\ HasCommand' <=> HasCommand
  BY InputsStay DEF HasAuthorisationRules, HasCommand
<1>3. CASE Call
  BY <1>1, <1>2, <1>3 DEF Admitted, Call, NextRule, Return, ValidTemplatesHaveRules
<1>4. CASE CheckLength
  <2> SUFFICES ASSUME Admitted PROVE ValidTemplatesHaveRules'
    BY <1>1 DEF ValidTemplatesHaveRules
  <2>1. tpl.rules[r] # <<>>
    <3>1. r \in Int /\ r > 0 /\ r <= Len(tpl.rules)
      BY <1>4 DEF CheckLength, Looping
    <3>2. r \in DOMAIN tpl.rules
      BY <3>1, LenProperties DEF Typed
    <3> QED BY <3>2 DEF Admitted
  <2> QED BY <1>1, <1>4, <2>1 DEF CheckLength, NextRule, ValidTemplatesHaveRules
<1>5. CASE CheckMatcher
  <2>1. ~(i > Len(command))
    <3>1. i \in Int /\ Len(command) \in Int
      BY <1>5, LenProperties DEF CheckMatcher, AtMatcher, Typed
    <3> QED BY <1>5, <3>1, InRange
  <2> QED BY <1>1, <1>5, <2>1 DEF CheckMatcher, NextRule, ValidTemplatesHaveRules
<1>6. CASE RuleMatched
  BY <1>1, <1>6, Results DEF RuleMatched, Return, ValidTemplatesHaveRules
<1>7. CASE NoRuleMatched
  <2>1. CASE HasAuthorisationRules
    <3>1. tpl.hasDefault
      BY <1>7, <2>1 DEF NoRuleMatched, Looping, Validate, HasAuthorisationRules
    <3>2. result' = DefaultRule
      BY <1>7, <3>1 DEF NoRuleMatched, Return
    <3> QED BY <1>1, <3>2, Results DEF DefaultRule, ValidTemplatesHaveRules
  <2>2. CASE ~HasAuthorisationRules
    BY <1>1, <1>2, <2>2 DEF ValidTemplatesHaveRules
  <2> QED BY <2>1, <2>2
<1> QED BY <1>1, <1>3, <1>4, <1>5, <1>6, <1>7 DEF Next

\* A template that the API admits gives a rule for every command, without an error and
\* without an index out of range.
THEOREM ValidTemplatesAnswer == Spec => []ValidTemplatesHaveRules
<1> DEFINE I == Inv /\ ValidTemplatesHaveRules
<1>1. Init => I
  BY InitInv DEF Init, ValidTemplatesHaveRules
<1>2. I /\ [Next]_vars => I'
  <2>1. CASE UNCHANGED vars
    BY <2>1, NextInv DEF vars, ValidTemplatesHaveRules, Admitted, Validate,
                         HasAuthorisationRules, HasCommand
  <2> QED BY <2>1, NextInv, RulesNext
<1>3. I => ValidTemplatesHaveRules
  OBVIOUS
<1> QED BY <1>1, <1>2, <1>3, PTL DEF Spec

-----------------------------------------------------------------------------
LEMMA Limits ==
  ASSUME tpl \in Templates
  PROVE  /\ Len(tpl.rules) \in Nat /\ Len(tpl.rules) <= MaxRules
         /\ DOMAIN tpl.rules = 1..Len(tpl.rules)
         /\ \A n \in DOMAIN tpl.rules :
              Len(tpl.rules[n]) \in Nat /\ Len(tpl.rules[n]) <= MaxMatchers
<1>1. ASSUME NEW S, NEW m \in Nat, NEW s \in SequencesOf(S, 0..m)
      PROVE  /\ s \in Seq(S) /\ Len(s) \in Nat /\ Len(s) <= m /\ DOMAIN s = 1..Len(s)
             /\ \A n \in DOMAIN s : s[n] \in S
  <2>1. PICK k \in 0..m : s \in [1..k -> S]
    BY DEF SequencesOf
  <2> QED BY <2>1
<1>2. tpl.rules \in SequencesOf(Patterns, 0..MaxRules)
  BY DEF Templates
<1>3. \A n \in DOMAIN tpl.rules : tpl.rules[n] \in Patterns
  BY <1>1, <1>2, BoundsAssumption
<1> QED BY <1>1, <1>2, <1>3, BoundsAssumption DEF Patterns

Outcomes ==
  [kind : {"pending", "rule", "no command", "no rules", "invalid", "no match", "panic"},
   rule : 0..MaxRules]

Counting ==
  /\ tpl \in Templates /\ asked \in Commands /\ caller \in Callers
  /\ command \in Commands /\ pc \in {"call", "rule", "matcher", "done"}
  /\ r \in 0..MaxRules + 1 /\ i \in 0..MaxMatchers + 1
  /\ result \in Outcomes

LEMMA ReturnTyped ==
  ASSUME Counting, NEW value \in Outcomes, Return(value)
  PROVE  Counting'
BY DEF Counting, Return, inputs

LEMMA CountingNext ==
  ASSUME Inv, Counting, Next
  PROVE  Counting'
<1> USE BoundsAssumption
<1>1. tpl \in Templates
  BY DEF Counting
<1>2. /\ \A kind \in {"no command", "no rules", "invalid", "no match", "panic"} :
           Failure(kind) \in Outcomes
      /\ \A n \in 0..MaxRules : Rule(n) \in Outcomes
  BY DEF Failure, Rule, Outcomes
<1>3. ASSUME NextRule, r \in 0..MaxRules, UNCHANGED <<inputs, command, result>>
      PROVE  Counting'
  BY <1>3 DEF Counting, NextRule, inputs
<1>4. CASE Call
  <2>1. ASSUME NEW kind \in {"no command", "no rules", "invalid"}, Return(Failure(kind))
        PROVE  Counting'
    BY <1>2, <2>1, ReturnTyped
  <2>2. ASSUME NextRule, UNCHANGED <<inputs, result>>,
               caller = "controller" => HasCommand,
               command' = IF caller = "controller" THEN getCommand ELSE asked
        PROVE  Counting'
    <3>1. command' \in Commands
      <4>1. ASSUME HasCommand PROVE getCommand \in Commands
        <5>1. tpl.containers \in SequencesOf(Commands, {0, 1})
          BY DEF Counting, Templates
        <5>2. ASSUME NEW n \in {0, 1}, NEW f \in [1..n -> Commands] PROVE f \in Seq(Commands)
          OBVIOUS
        <5>3. tpl.containers \in Seq(Commands)
          BY <5>1, <5>2 DEF SequencesOf
        <5> QED BY <4>1, <5>3, CommandType DEF Counting
      <4> QED BY <2>2, <4>1 DEF Counting
    <3>2. r = 0
      BY <1>4 DEF Call, Inv, Unanswered
    <3> QED BY <2>2, <3>1, <3>2 DEF Counting, NextRule, inputs
  <2> QED BY <1>4, <2>1, <2>2 DEF Call
<1>5. CASE CheckLength
  <2>1. r \in 0..MaxRules
    BY <1>1, <1>5, Limits DEF CheckLength, Counting
  <2>2. ASSUME Return(Failure("panic")) PROVE Counting'
    BY <1>2, <2>2, ReturnTyped
  <2>3. ASSUME pc' = "matcher", i' = 1, UNCHANGED r, UNCHANGED <<inputs, command, result>>
        PROVE  Counting'
    BY <2>3 DEF Counting, inputs
  <2> QED BY <1>3, <1>5, <2>1, <2>2, <2>3 DEF CheckLength
<1>6. CASE CheckMatcher
  <2>1. r \in DOMAIN tpl.rules
    BY <1>6 DEF CheckMatcher, Inv, AtMatcher
  <2>2. r \in 0..MaxRules /\ Len(tpl.rules[r]) \in Nat /\ Len(tpl.rules[r]) <= MaxMatchers
    BY <1>1, <2>1, Limits
  <2>3. ASSUME Return(Failure("panic")) PROVE Counting'
    BY <1>2, <2>3, ReturnTyped
  <2>4. ASSUME i' = i + 1, UNCHANGED <<pc, r>>, UNCHANGED <<inputs, command, result>>
        PROVE  Counting'
    BY <1>6, <2>2, <2>4 DEF CheckMatcher, Counting, inputs
  <2> QED BY <1>3, <1>6, <2>2, <2>3, <2>4 DEF CheckMatcher
<1>7. CASE RuleMatched
  <2>1. r \in DOMAIN tpl.rules
    BY <1>7 DEF RuleMatched, Inv, AtMatcher
  <2>2. r \in 0..MaxRules
    BY <1>1, <2>1, Limits
  <2> QED BY <1>2, <1>7, <2>2, ReturnTyped DEF RuleMatched
<1>8. CASE NoRuleMatched
  <2>1. DefaultRule \in Outcomes
    <3>1. 0 \in 0..MaxRules
      OBVIOUS
    <3> QED BY <1>2, <3>1 DEF DefaultRule
  <2>2. Failure("no match") \in Outcomes
    BY <1>2
  <2> QED BY <1>8, <2>1, <2>2, ReturnTyped DEF NoRuleMatched
<1> QED BY <1>4, <1>5, <1>6, <1>7, <1>8 DEF Next

\* The loop never leaves the rules and matchers that there are by more than one, and returns a
\* rule of the template's, its default or an error.
THEOREM TypeCorrect == Spec => []TypeOK
<1>1. Init => Counting
  <2>1. Pending \in Outcomes /\ <<>> \in Commands
    BY BoundsAssumption DEF Pending, Failure, Outcomes, Commands, SequencesOf
  <2> QED BY <2>1, BoundsAssumption DEF Init, Counting
<1>2. Inv /\ Counting /\ [Next]_vars => Counting'
  BY CountingNext DEF vars, Counting
<1>3. Counting => TypeOK
  BY DEF Counting, Outcomes, TypeOK
<1> QED BY <1>1, <1>2, <1>3, Invariant, PTL DEF Spec
=============================================================================
