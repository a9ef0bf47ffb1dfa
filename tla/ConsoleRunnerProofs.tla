-------------------------- MODULE ConsoleRunnerProofs --------------------------
(***************************************************************************)
(* Proofs about ConsoleRunner: for any calls of the runner, any rules of   *)
(* the template and any history of the console.                            *)
(***************************************************************************)
EXTENDS ConsoleRunner, TLAPS

\* Before it has a pod, while it attaches to it and while it waits for it to end.
Preparing == {"template", "create", "list", "watch", "listRB", "watchRB", "patch", "get", "find",
              "getPod"}
Attaching == {"attach", "observe", "connect", "session"}
Reporting == {"success", "listPod", "watchPod", "lostPod"}

Option == [flow : {"create", "authorise", "attach"}, attach : BOOLEAN,
           noninteractive : BOOLEAN, ruleKnown : BOOLEAN]

RoleBindings == 0..3

CliType ==
  cli \in [pc : Preparing \cup Attaching \cup Reporting \cup {"done"}, strict : BOOLEAN,
           at : Nat, rbAt : RoleBindings, csl : Version, waited : {"none", "Running", "Stopped"},
           report : {"none", "end", "failure"}, result : {"none", "ok", "error", "refused"}]

\* What is known of the console's versions, pod and RoleBinding, whatever the runner does.
ClusterInv ==
  /\ log \in Seq(Version) /\ Len(log) \in 1..MaxVersions
  /\ phase \in {Stored.phase, "Deleted"}
  /\ podState \in {"none", "Pending", "Running", "Succeeded", "Failed", "gone"}
  /\ podEnd \in {"none", "Succeeded", "Failed"} /\ rb \in 0..3
  /\ \A n \in 1..Len(log) : log[n].podName => podState # "none"
  /\ podState \in {"Succeeded", "Failed"} => podEnd = podState
  /\ podState \in {"none", "Pending", "Running"} => podEnd = "none"
  /\ rb = CollectedRoleBinding => phase = "Deleted"

\* What the runner holds of it: never more than there is or has been.
RunnerInv ==
  /\ CliType /\ opts \in Options /\ opts \in Option
  /\ user \in {"nobody", "caller", "other"} /\ attached \in {"none", "recorded", "missed"}
  /\ cli.at <= Len(log) /\ cli.rbAt <= rb
  /\ cli.result = "none" <=> cli.pc # "done"
  /\ cli.csl.podName => podState # "none"
  /\ cli.pc \in Attaching \cup Reporting => cli.csl.podName
  /\ cli.pc \in {"connect", "session"} => attached # "none"
  /\ cli.waited = "Running" /\ cli.pc \notin {"listRB", "watchRB", "done"} =>
       rb \in {NamedRoleBinding, CollectedRoleBinding}
  /\ cli.report # "none" => cli.pc \in Reporting \cup {"done"}
  /\ OwnerNotRefused /\ TruthfulSuccess

Inv == ClusterInv /\ RunnerInv

LEMMA RunnerInit == Init => Inv
<1> SUFFICES ASSUME Init PROVE Inv
  OBVIOUS
<1>1. opts \in Options /\ opts \in Option
  BY OptionsAssumption DEF Init, Option
<1>2. log \in Seq(Version) /\ Len(log) = 1 /\ log[1] = [phase |-> "Creating", podName |-> FALSE]
  BY DEF Init, Version, Waiting
<1>3. ClusterInv
  BY <1>2, HistoryAssumption
     DEF Init, LifecycleInit, ClusterInv, Stored, NoRoleBinding, CollectedRoleBinding
<1>4. [phase |-> "Creating", podName |-> FALSE] \in Version
  BY DEF Version, Waiting
<1>5. RunnerInv
  <2>1. 0 \in RoleBindings
    BY DEF RoleBindings
  <2>2. QED
  BY <1>1, <1>2, <1>4, <2>1
     DEF Init, RunnerInv, CliType, Option, Preparing, Attaching, Reporting, NoRoleBinding,
         OwnerNotRefused, TruthfulSuccess
<1>6. QED
  BY <1>3, <1>5 DEF Inv

-----------------------------------------------------------------------------
(* The cluster moves forward only *)

Forward ==
  /\ Len(log) <= Len(log') /\ rb <= rb'
  /\ podState # "none" => podState' # "none"
  /\ podState = "gone" => podState' = "gone"
  /\ podEnd # "none" => podEnd' = podEnd
  /\ phase = "Deleted" => phase' = "Deleted"
  /\ UNCHANGED <<user, attached, opts, cli>>

LEMMA ForwardKeeps == ClusterInv /\ ClusterInv' /\ RunnerInv /\ Forward => RunnerInv'
<1> SUFFICES ASSUME ClusterInv, ClusterInv', RunnerInv, Forward
             PROVE  RunnerInv'
  OBVIOUS
<1>1. /\ Len(log) \in Nat /\ Len(log') \in Nat /\ rb \in 0..3 /\ rb' \in 0..3
      /\ cli.at \in Nat /\ cli.rbAt \in 0..3
  BY DEF ClusterInv, RunnerInv, CliType, RoleBindings
<1>2. cli.at <= Len(log') /\ cli.rbAt <= rb'
  BY <1>1 DEF Forward, RunnerInv
<1>3. OwnerNotRefused' /\ TruthfulSuccess'
  BY DEF Forward, RunnerInv, OwnerNotRefused, TruthfulSuccess
<1>4. rb \in {NamedRoleBinding, CollectedRoleBinding} =>
        rb' \in {NamedRoleBinding, CollectedRoleBinding}
  BY <1>1 DEF Forward, NamedRoleBinding, CollectedRoleBinding
<1>5. QED
  BY <1>2, <1>3, <1>4 DEF Forward, RunnerInv, CliType

LEMMA ConsoleForward == ClusterInv /\ ConsoleMoves => ClusterInv' /\ Forward
<1> SUFFICES ASSUME ClusterInv, ConsoleMoves
             PROVE  ClusterInv' /\ Forward
  OBVIOUS
<1>1. /\ UNCHANGED <<podState, podEnd, rb, user, attached, opts, cli>>
      /\ LifecycleNext
      /\ phase' \in {phase, "Deleted"} => log' = log
      /\ phase' \notin {phase, "Deleted"} => Len(log) < MaxVersions /\ Store(phase')
  BY DEF ConsoleMoves
<1>2. /\ phase = "Deleted" => phase' = "Deleted"
      /\ phase' \in {phase, "Deleted"} \cup Waiting \cup Launched
  BY <1>1 DEF LifecycleNext, Approve, AwaitApproval, Launch, GrantAccess, Delete, Waiting,
              Launched
<1>3. CASE phase' \in {phase, "Deleted"}
  BY <1>1, <1>2, <1>3 DEF ClusterInv, Stored, Forward
<1>4. CASE phase' \notin {phase, "Deleted"}
  <2>1. PICK named \in BOOLEAN :
          /\ named => podState # "none"
          /\ log' = Append(log, [phase |-> phase', podName |-> named])
    BY <1>1, <1>4 DEF Store
  <2> DEFINE v == [phase |-> phase', podName |-> named]
  <2>2. v \in Version
    BY <1>2, <1>4 DEF Version
  <2>3. log \in Seq(Version) /\ Len(log) \in Nat /\ MaxVersions \in Nat
    BY HistoryAssumption DEF ClusterInv
  <2>4. /\ log' \in Seq(Version) /\ Len(log') = Len(log) + 1
        /\ log'[Len(log')] = v /\ \A n \in 1..Len(log) : log'[n] = log[n]
    BY <2>1, <2>2, <2>3
  <2>5. \A n \in 1..Len(log') : log'[n].podName => podState # "none"
    <3>1. TAKE n \in 1..Len(log')
    <3>2. CASE n = Len(log')
      BY <2>1, <2>4, <3>2
    <3>3. CASE n # Len(log')
      <4>1. n \in 1..Len(log)
        BY <2>3, <2>4, <3>3
      <4>2. QED
        BY <2>4, <4>1 DEF ClusterInv
    <3>4. QED
      BY <3>2, <3>3
  <2>6. phase' = Stored'.phase
    BY <2>4 DEF Stored
  <2>7. Len(log') \in 1..MaxVersions /\ Len(log) <= Len(log')
    BY <1>1, <1>4, <2>3, <2>4 DEF ClusterInv
  <2>8. phase # "Deleted"
    BY <1>2, <1>4
  <2>9. ClusterInv'
    BY <1>1, <2>4, <2>5, <2>6, <2>7, <2>8 DEF ClusterInv
  <2>10. QED
    BY <1>1, <2>7, <2>8, <2>9 DEF Forward, ClusterInv
<1>5. QED
  BY <1>3, <1>4

LEMMA PodForward == ClusterInv /\ (StartPod \/ MovePod) => ClusterInv' /\ Forward
<1> SUFFICES ASSUME ClusterInv, StartPod \/ MovePod
             PROVE  ClusterInv' /\ Forward
  OBVIOUS
<1>1. UNCHANGED <<phase, log, rb, user, attached, opts, cli>>
  BY DEF StartPod, MovePod, lifecycle
<1>2. /\ podState' \in {"Pending", "Running", "Succeeded", "Failed", "gone"}
      /\ podState # "gone" /\ (podState = "none" => podState' = "Pending")
      /\ podEnd' = IF podState = "Running" /\ podState' \in {"Succeeded", "Failed"}
                   THEN podState' ELSE podEnd
      /\ podState' \in {"Succeeded", "Failed"} => podState = "Running"
      /\ podState' \in {"Pending", "Running"} => podState \in {"none", "Pending"}
  BY DEF StartPod, MovePod
<1>3. QED
  BY <1>1, <1>2 DEF ClusterInv, Forward, Stored

LEMMA RoleBindingForward == ClusterInv /\ MoveRoleBinding => ClusterInv' /\ Forward
BY DEF ClusterInv, MoveRoleBinding, Forward, Stored, lifecycle, NoRoleBinding, EmptyRoleBinding,
       NamedRoleBinding, CollectedRoleBinding

-----------------------------------------------------------------------------
(* The runner's own steps *)

Still == UNCHANGED <<phase, log, podState, podEnd, rb, opts>>

LEMMA RunnerStep ==
  ASSUME Inv, Still, CliType',
         user' \in {"nobody", "caller", "other"}, attached' \in {"none", "recorded", "missed"},
         cli'.at <= Len(log), cli'.rbAt <= rb,
         cli'.result = "none" <=> cli'.pc # "done",
         cli'.csl.podName => podState # "none",
         cli'.pc \in Attaching \cup Reporting => cli'.csl.podName,
         cli'.pc \in {"connect", "session"} => attached' # "none",
         cli'.waited = "Running" /\ cli'.pc \notin {"listRB", "watchRB", "done"} =>
           rb \in {NamedRoleBinding, CollectedRoleBinding},
         cli'.report # "none" => cli'.pc \in Reporting \cup {"done"},
         cli'.result = "refused" /\ user' = "caller" /\ cli'.waited = "Running" =>
           phase = "Deleted",
         cli'.result = "ok" /\ cli'.report = "end" => podEnd = "Succeeded" \/ podState = "gone"
  PROVE  Inv'
BY DEF Inv, ClusterInv, RunnerInv, OwnerNotRefused, TruthfulSuccess, Still, Stored

Calm == Still /\ UNCHANGED <<user, attached>>

LEMMA Finishing ==
  ASSUME Inv, Calm, NEW result \in {"ok", "error", "refused"}, Finish(result),
         result = "refused" /\ user = "caller" /\ cli.waited = "Running" => phase = "Deleted",
         result = "ok" /\ cli.report = "end" => podEnd = "Succeeded" \/ podState = "gone"
  PROVE  Inv'
<1>1. cli' = [cli EXCEPT !.pc = "done", !.result = result] /\ CliType
  BY DEF Finish, Inv, RunnerInv
<1>2. CliType' /\ cli'.pc = "done" /\ cli'.result = result
      /\ cli'.at = cli.at /\ cli'.rbAt = cli.rbAt /\ cli'.csl = cli.csl
      /\ cli'.waited = cli.waited /\ cli'.report = cli.report
  BY <1>1 DEF CliType
<1>3. QED
  BY <1>2, RunnerStep DEF Inv, RunnerInv, Calm, Attaching, Reporting

\* A step that only moves the runner on, among the states in which it has no pod.
LEMMA Preparation ==
  ASSUME Inv, Still, UNCHANGED attached,
         user' \in {user, "caller"}, CliType',
         cli.pc \in Preparing, cli'.pc \in Preparing,
         cli'.at <= Len(log), cli'.rbAt <= rb,
         cli'.csl = cli.csl \/ cli'.csl = Stored,
         cli'.report = cli.report, cli'.result = cli.result,
         cli'.waited = "Running" /\ cli'.pc \notin {"listRB", "watchRB"} =>
           rb \in {NamedRoleBinding, CollectedRoleBinding}
  PROVE  Inv'
<1>1. cli.report = "none" /\ cli.result = "none"
  BY DEF Inv, RunnerInv, Preparing, Reporting
<1>2. cli'.csl.podName => podState # "none"
  BY DEF Inv, RunnerInv, ClusterInv, Stored
<1>3. cli'.pc \notin Attaching \cup Reporting \cup {"done", "connect", "session"}
  BY DEF Preparing, Attaching, Reporting
<1>4. QED
  BY <1>1, <1>2, <1>3, RunnerStep DEF Inv, RunnerInv

LEMMA ReadyStep ==
  ASSUME Inv, Calm, cli.pc \in Preparing, NEW seen \in {"none", "Running", "Stopped"}, Ready(seen),
         "Running" \in {seen, cli.waited} => rb \in {NamedRoleBinding, CollectedRoleBinding}
  PROVE  Inv'
<1>1. CliType /\ Len(log) \in Nat /\ rb \in 0..3 /\ 0 \in RoleBindings
  BY DEF Inv, RunnerInv, ClusterInv, RoleBindings
<1>2. CASE Wait(TRUE)
  <2>1. /\ CliType' /\ cli'.pc = "list" /\ cli'.at = 0 /\ cli'.rbAt = 0 /\ cli'.csl = cli.csl
        /\ cli'.waited = cli.waited /\ cli'.report = cli.report /\ cli'.result = cli.result
    BY <1>1, <1>2 DEF Wait, CliType, NoRoleBinding, Preparing
  <2>2. QED
    BY <1>1, <2>1, Preparation DEF Calm, Preparing
<1>3. CASE cli' = [cli EXCEPT !.pc = "find", !.waited = seen, !.at = 0, !.rbAt = NoRoleBinding]
  <2>1. /\ CliType' /\ cli'.pc = "find" /\ cli'.at = 0 /\ cli'.rbAt = 0 /\ cli'.csl = cli.csl
        /\ cli'.waited = seen /\ cli'.report = cli.report /\ cli'.result = cli.result
    BY <1>1, <1>3 DEF CliType, NoRoleBinding, Preparing
  <2>2. QED
    BY <1>1, <2>1, Preparation DEF Calm, Preparing
<1>4. CASE Finish("ok")
  <2>1. cli.report = "none"
    BY DEF Inv, RunnerInv, Preparing, Reporting
  <2>2. QED
    BY <1>4, <2>1, Finishing
<1>5. QED
  BY <1>2, <1>3, <1>4 DEF Ready

LEMMA CheckConsoleStep ==
  ASSUME Inv, Calm, cli.pc \in {"list", "watch"}, NEW n \in 1..Len(log),
         checkConsoleState(log[n], n)
  PROVE  Inv'
<1>1. /\ CliType /\ Len(log) \in Nat /\ rb \in 0..3 /\ 0 \in RoleBindings
      /\ cli.pc \in Preparing
      /\ cli.waited = "Running" => rb \in {NamedRoleBinding, CollectedRoleBinding}
  BY DEF Inv, RunnerInv, ClusterInv, Preparing, RoleBindings
<1>2. CASE log[n].phase \in {"Running", "Stopped"} /\ waitForRoleBinding(log[n].phase)
  <2>1. CASE Ready("Stopped")
    BY <1>1, <2>1, ReadyStep
  <2>2. CASE AwaitRoleBinding("Running")
    <3>1. /\ CliType' /\ cli'.pc = "listRB" /\ cli'.at = 0 /\ cli'.rbAt = cli.rbAt
          /\ cli'.csl = cli.csl /\ cli'.report = cli.report /\ cli'.result = cli.result
      BY <1>1, <2>2 DEF AwaitRoleBinding, CliType, Preparing
    <3>2. QED
      BY <1>1, <3>1, Preparation DEF Calm, Preparing, Inv, RunnerInv
  <2>3. QED
    BY <1>2, <2>1, <2>2 DEF waitForRoleBinding
<1>3. CASE RequiresAuthorisation
  <2>1. CASE Wait(TRUE)
    <3>1. /\ CliType' /\ cli'.pc = "list" /\ cli'.at = 0 /\ cli'.rbAt = 0 /\ cli'.csl = cli.csl
          /\ cli'.waited = cli.waited /\ cli'.report = cli.report /\ cli'.result = cli.result
      BY <1>1, <2>1 DEF Wait, CliType, NoRoleBinding, Preparing
    <3>2. QED
      BY <1>1, <3>1, Preparation DEF Calm, Preparing
  <2>2. CASE Finish("error")
    BY <2>2, Finishing
  <2>3. QED
    BY <1>3, <2>1, <2>2 DEF RequiresAuthorisation
<1>4. CASE cli' = [cli EXCEPT !.pc = "watch", !.at = n]
  <2> n \in Nat
    BY <1>1
  <2>1. /\ CliType' /\ cli'.pc = "watch" /\ cli'.at = n /\ cli'.rbAt = cli.rbAt
        /\ cli'.csl = cli.csl /\ cli'.waited = cli.waited
        /\ cli'.report = cli.report /\ cli'.result = cli.result
    BY <1>1, <1>4 DEF CliType, Preparing
  <2>2. QED
    BY <1>1, <2>1, Preparation DEF Calm, Preparing, Inv, RunnerInv
<1>5. QED
  BY <1>2, <1>3, <1>4 DEF checkConsoleState

LEMMA ConsoleWaitStep == Inv /\ (ListConsole \/ WatchConsole) => Inv'
<1> SUFFICES ASSUME Inv, ListConsole \/ WatchConsole PROVE Inv'
  OBVIOUS
<1>1. Calm /\ cli.pc \in {"list", "watch"}
  BY DEF ListConsole, WatchConsole, Calm, Still, cluster, lifecycle
<1>2. /\ CliType /\ Len(log) \in Nat /\ cli.at \in Nat
      /\ cli.waited = "Running" => rb \in {NamedRoleBinding, CollectedRoleBinding}
  BY <1>1 DEF Inv, RunnerInv, ClusterInv, CliType
<1>3. ASSUME NEW k \in {0, Len(log)},
             \/ cli' = [cli EXCEPT !.pc = "watch", !.at = k]
             \/ cli.pc = "watch" /\ cli' = [cli EXCEPT !.at = k]
      PROVE  Inv'
  <2> k \in Nat
    BY <1>2
  <2>1. CliType'
    <3>1. CASE cli' = [cli EXCEPT !.pc = "watch", !.at = k]
      BY <1>2, <3>1 DEF CliType, Preparing
    <3>2. CASE cli' = [cli EXCEPT !.at = k]
      BY <1>2, <3>2 DEF CliType
    <3>3. QED
      BY <1>3, <3>1, <3>2
  <2>2. /\ cli'.pc = "watch" /\ cli'.at = k /\ cli'.rbAt = cli.rbAt
        /\ cli'.csl = cli.csl /\ cli'.waited = cli.waited
        /\ cli'.report = cli.report /\ cli'.result = cli.result
    BY <1>2, <1>3 DEF CliType
  <2>3. QED
    BY <1>1, <1>2, <2>1, <2>2, Preparation DEF Calm, Preparing, Inv, RunnerInv
<1>4. ASSUME NEW n \in 1..Len(log), checkConsoleState(log[n], n)
      PROVE  Inv'
  BY <1>1, <1>4, CheckConsoleStep
<1>5. CASE ListConsole
  BY <1>3, <1>4, <1>5 DEF ListConsole
<1>6. CASE WatchConsole
  <2>1. CASE \E n \in cli.at + 1..Len(log) : checkConsoleState(log[n], n)
    <3>1. PICK n \in cli.at + 1..Len(log) : checkConsoleState(log[n], n)
      BY <2>1
    <3>2. n \in 1..Len(log)
      BY <1>2
    <3>3. QED
      BY <1>4, <3>1, <3>2
  <2>2. QED
    BY <1>1, <1>3, <1>6, <2>1 DEF WatchConsole
<1>7. QED
  BY <1>5, <1>6

LEMMA RoleBindingWaitStep == Inv /\ WatchRoleBinding => Inv'
<1> SUFFICES ASSUME Inv, WatchRoleBinding PROVE Inv'
  OBVIOUS
<1>1. /\ Calm /\ cli.pc \in {"listRB", "watchRB"} /\ cli.waited \in {"Running", "none", "Stopped"}
      /\ CliType /\ rb \in 0..3 /\ cli.rbAt \in 0..3 /\ Len(log) \in Nat
  BY DEF WatchRoleBinding, Calm, Still, cluster, lifecycle, Inv, RunnerInv, ClusterInv, CliType,
         RoleBindings
<1>2. PICK n \in 0..rb : SeesRoleBinding(n)
  BY <1>1 DEF WatchRoleBinding
<1> n \in RoleBindings
  BY <1>1 DEF RoleBindings
<1>3. CASE rbHasSubject(n)
  <2>1. rb \in {NamedRoleBinding, CollectedRoleBinding} /\ Ready(cli.waited)
    BY <1>1, <1>2, <1>3 DEF rbHasSubject, NamedRoleBinding, CollectedRoleBinding, SeesRoleBinding
  <2>2. QED
    BY <1>1, <2>1, ReadyStep DEF Preparing
<1>4. CASE ~rbHasSubject(n)
  <2>1. cli' = [cli EXCEPT !.pc = "watchRB", !.rbAt = n]
    BY <1>2, <1>4 DEF SeesRoleBinding
  <2>2. /\ CliType' /\ cli'.pc = "watchRB" /\ cli'.at = cli.at /\ cli'.rbAt = n
        /\ cli'.csl = cli.csl /\ cli'.waited = cli.waited
        /\ cli'.report = cli.report /\ cli'.result = cli.result
    BY <1>1, <2>1 DEF CliType, Preparing
  <2>3. QED
    BY <1>1, <2>2, Preparation DEF Calm, Preparing, Inv, RunnerInv
<1>5. QED
  BY <1>3, <1>4

LEMMA PreparationSteps ==
  Inv /\ (FindTemplateBySelector \/ CreateResource \/ GetConsole \/ FindConsoleByName) => Inv'
<1> SUFFICES ASSUME Inv, FindTemplateBySelector \/ CreateResource \/ GetConsole \/ FindConsoleByName
             PROVE  Inv'
  OBVIOUS
<1>1. /\ Still /\ UNCHANGED attached /\ user' \in {user, "caller"}
      /\ cli.pc \in Preparing \ {"listRB", "watchRB"}
  BY DEF FindTemplateBySelector, CreateResource, GetConsole, FindConsoleByName, Authenticate,
         Still, cluster, lifecycle, Preparing
<1>2. /\ CliType /\ Len(log) \in Nat /\ rb \in 0..3 /\ 0 \in RoleBindings
      /\ cli.waited = "Running" => rb \in {NamedRoleBinding, CollectedRoleBinding}
      /\ Stored \in Version /\ user \in {"nobody", "caller", "other"}
  BY <1>1 DEF Inv, RunnerInv, ClusterInv, Preparing, RoleBindings, Stored
<1>3. CASE Finish("error")
  <2>1. cli.pc # "create"
    BY <1>2, <1>3 DEF Finish, CliType, CreateResource, Wait, FindTemplateBySelector, GetConsole,
                      FindConsoleByName
  <2>2. Calm
    BY <1>1, <2>1 DEF Calm, FindTemplateBySelector, CreateResource, GetConsole, FindConsoleByName
  <2>3. QED
    BY <1>3, <2>2, Finishing
<1>4. CASE \E strict \in BOOLEAN : Wait(strict)
  <2>1. PICK strict \in BOOLEAN : Wait(strict)
    BY <1>4
  <2>2. /\ CliType' /\ cli'.pc = "list" /\ cli'.at = 0 /\ cli'.rbAt = 0 /\ cli'.csl = cli.csl
        /\ cli'.waited = cli.waited /\ cli'.report = cli.report /\ cli'.result = cli.result
    BY <1>2, <2>1 DEF Wait, CliType, NoRoleBinding, Preparing
  <2>3. QED
    BY <1>1, <1>2, <2>2, Preparation DEF Preparing
<1>5. CASE cli' = [cli EXCEPT !.pc = "create"]
  <2>1. /\ CliType' /\ cli'.pc = "create" /\ cli'.at = cli.at /\ cli'.rbAt = cli.rbAt
        /\ cli'.csl = cli.csl /\ cli'.waited = cli.waited
        /\ cli'.report = cli.report /\ cli'.result = cli.result
    BY <1>2, <1>5 DEF CliType, Preparing
  <2>2. QED
    BY <1>1, <1>2, <2>1, Preparation DEF Preparing, Inv, RunnerInv
<1>6. CASE cli' = [cli EXCEPT !.pc = "getPod", !.csl = Stored]
  <2>1. /\ CliType' /\ cli'.pc = "getPod" /\ cli'.at = cli.at /\ cli'.rbAt = cli.rbAt
        /\ cli'.csl = Stored /\ cli'.waited = cli.waited
        /\ cli'.report = cli.report /\ cli'.result = cli.result
    BY <1>2, <1>6 DEF CliType, Preparing
  <2>2. QED
    BY <1>1, <1>2, <2>1, Preparation DEF Preparing, Inv, RunnerInv
<1>7. QED
  BY <1>3, <1>4, <1>5, <1>6
     DEF FindTemplateBySelector, CreateResource, GetConsole, FindConsoleByName

LEMMA PatchStep == Inv /\ PatchAuthorisation => Inv'
<1> SUFFICES ASSUME Inv, PatchAuthorisation PROVE Inv'
  OBVIOUS
<1>1. /\ Calm /\ cli.pc \in Preparing \ {"listRB", "watchRB"}
      /\ Finish("error") \/ Finish("ok") \/ cli' = [cli EXCEPT !.pc = "get"]
  BY DEF PatchAuthorisation, Approve, lifecycle, Calm, Still, Preparing
<1>2. CliType /\ cli.report = "none"
  BY <1>1 DEF Inv, RunnerInv, Preparing, Reporting
<1>3. CASE cli' = [cli EXCEPT !.pc = "get"]
  <2>1. /\ CliType' /\ cli'.pc = "get" /\ cli'.at = cli.at /\ cli'.rbAt = cli.rbAt
        /\ cli'.csl = cli.csl /\ cli'.waited = cli.waited
        /\ cli'.report = cli.report /\ cli'.result = cli.result
    BY <1>2, <1>3 DEF CliType, Preparing
  <2>2. QED
    BY <1>1, <2>1, Preparation DEF Calm, Preparing, Inv, RunnerInv
<1>4. CASE Finish("error") \/ Finish("ok")
  BY <1>1, <1>2, <1>4, Finishing
<1>5. QED
  BY <1>1, <1>3, <1>4

\* A step of the runner that stays with the pod it holds.
LEMMA Attachment ==
  ASSUME Inv, Still, UNCHANGED user, CliType', attached' \in {"none", "recorded", "missed"},
         cli.csl.podName, cli.pc \notin {"listRB", "watchRB", "done"},
         cli'.pc \in Attaching \cup Reporting,
         cli'.at = cli.at, cli'.rbAt = cli.rbAt, cli'.csl = cli.csl, cli'.waited = cli.waited,
         cli'.result = cli.result,
         cli'.report # "none" => cli'.pc \in Reporting,
         cli'.pc \in {"connect", "session"} => attached' # "none"
  PROVE  Inv'
<1>1. cli.result = "none" /\ cli'.pc # "done"
  BY DEF Inv, RunnerInv, Attaching, Reporting
<1>2. QED
  BY <1>1, RunnerStep DEF Inv, RunnerInv

LEMMA AttachmentSteps ==
  Inv /\ (GetAttachablePod \/ AttachRefused \/ AttachAdmitted) => Inv'
<1> SUFFICES ASSUME Inv, GetAttachablePod \/ AttachRefused \/ AttachAdmitted
             PROVE  Inv'
  OBVIOUS
<1>1. Calm /\ cli.pc \in {"getPod", "attach"} /\ CliType /\ cli.report = "none"
  BY DEF GetAttachablePod, AttachRefused, AttachAdmitted, Calm, Still, cluster, lifecycle,
         Inv, RunnerInv, Reporting
<1>2. CASE GetAttachablePod /\ ~Attachable(cli.csl)
  BY <1>1, <1>2, Finishing DEF GetAttachablePod
<1>3. CASE AttachRefused
  <2>1. user = "caller" /\ cli.waited = "Running" => rb = CollectedRoleBinding
    BY <1>3 DEF AttachRefused, Inv, RunnerInv
  <2>2. user = "caller" /\ cli.waited = "Running" => phase = "Deleted"
    BY <2>1 DEF Inv, ClusterInv
  <2>3. QED
    BY <1>1, <1>3, <2>2, Finishing DEF AttachRefused
<1>4. CASE (GetAttachablePod /\ Attachable(cli.csl)) \/ AttachAdmitted
  <2>1. cli.csl.podName
    BY <1>4 DEF Attachable, AttachAdmitted, Inv, RunnerInv, Attaching
  <2>2. PICK pc \in {"attach", "observe"} : cli' = [cli EXCEPT !.pc = pc]
    BY <1>4 DEF GetAttachablePod, AttachAdmitted
  <2>3. /\ CliType' /\ cli'.pc = pc /\ cli'.at = cli.at /\ cli'.rbAt = cli.rbAt
        /\ cli'.csl = cli.csl /\ cli'.waited = cli.waited
        /\ cli'.report = cli.report /\ cli'.result = cli.result
    BY <1>1, <2>2 DEF CliType, Attaching
  <2>4. QED
    BY <1>1, <2>1, <2>3, Attachment DEF Calm, Attaching, Inv, RunnerInv
<1>5. QED
  BY <1>2, <1>3, <1>4

LEMMA AwaitPodStep ==
  ASSUME Inv, Calm, cli.pc \in Attaching, NEW report \in {"end", "failure"}, AwaitPod(report)
  PROVE  Inv'
<1>1. CliType /\ cli.csl.podName /\ cli.pc \notin {"listRB", "watchRB", "done"}
  BY DEF Inv, RunnerInv, Attaching
<1>2. /\ CliType' /\ cli'.pc = "success" /\ cli'.at = cli.at /\ cli'.rbAt = cli.rbAt
      /\ cli'.csl = cli.csl /\ cli'.waited = cli.waited
      /\ cli'.report = report /\ cli'.result = cli.result
  BY <1>1 DEF AwaitPod, CliType, Reporting
<1>3. QED
  BY <1>1, <1>2, Attachment DEF Calm, Reporting, Inv, RunnerInv

LEMMA ConnectSteps ==
  Inv /\ (ObserveAttach \/ AttachToPod \/ EndSession) => Inv'
<1> SUFFICES ASSUME Inv, ObserveAttach \/ AttachToPod \/ EndSession
             PROVE  Inv'
  OBVIOUS
<1>1. /\ Still /\ UNCHANGED user /\ CliType /\ cli.pc \in {"observe", "connect", "session"}
      /\ cli.report = "none" /\ cli.csl.podName
      /\ attached' \in {"none", "recorded", "missed"}
      /\ cli.pc = "connect" => attached # "none"
  BY DEF ObserveAttach, AttachToPod, EndSession, Observe, ConsoleAttach, Still, cluster, lifecycle,
         Inv, RunnerInv, Attaching, Reporting
<1>2. CASE Calm /\ (AttachFails \/ Finish("ok") \/ AwaitPod("end") \/ AwaitPod("failure"))
  <2>1. AttachFails => Finish("error") \/ AwaitPod("failure")
    BY DEF AttachFails
  <2>2. cli.pc \in Attaching
    BY <1>1 DEF Attaching
  <2>3. CASE Finish("ok") \/ Finish("error")
    BY <1>1, <1>2, <2>3, Finishing
  <2>4. CASE AwaitPod("end") \/ AwaitPod("failure")
    BY <1>2, <2>2, <2>4, AwaitPodStep
  <2>5. QED
    BY <1>2, <2>1, <2>3, <2>4
<1>3. CASE \E pc \in {"connect", "session"} : cli' = [cli EXCEPT !.pc = pc] /\ attached' # "none"
  <2>1. PICK pc \in {"connect", "session"} : cli' = [cli EXCEPT !.pc = pc] /\ attached' # "none"
    BY <1>3
  <2>2. /\ CliType' /\ cli'.pc = pc /\ cli'.at = cli.at /\ cli'.rbAt = cli.rbAt
        /\ cli'.csl = cli.csl /\ cli'.waited = cli.waited
        /\ cli'.report = cli.report /\ cli'.result = cli.result
    BY <1>1, <2>1 DEF CliType, Attaching
  <2>3. QED
    BY <1>1, <2>1, <2>2, Attachment DEF Attaching, Inv, RunnerInv
<1>4. CASE ObserveAttach
  <2>1. \/ AttachFails /\ UNCHANGED attached
        \/ attached' # "none" /\ cli' = [cli EXCEPT !.pc = "connect"]
    BY <1>4 DEF ObserveAttach, Observe, ConsoleAttach
  <2>2. QED
    BY <1>1, <1>2, <1>3, <2>1 DEF Calm
<1>5. CASE AttachToPod
  BY <1>1, <1>2, <1>3, <1>5 DEF AttachToPod, Calm
<1>6. CASE EndSession
  BY <1>1, <1>2, <1>6 DEF EndSession, Calm
<1>7. QED
  BY <1>4, <1>5, <1>6

LEMMA ReportSteps == Inv /\ (GetPod \/ ListPod \/ WatchPod) => Inv'
<1> SUFFICES ASSUME Inv, GetPod \/ ListPod \/ WatchPod PROVE Inv'
  OBVIOUS
<1>1. Calm /\ cli.pc \in {"success", "listPod", "watchPod"} /\ CliType /\ cli.csl.podName
  BY DEF GetPod, ListPod, WatchPod, Calm, Still, cluster, lifecycle, Inv, RunnerInv, Reporting
<1>2. CASE PodReported("error")
  BY <1>1, <1>2, Finishing DEF PodReported
<1>3. CASE PodReported("ok") /\ (podEnd = "Succeeded" \/ podState = "gone")
  BY <1>1, <1>3, Finishing DEF PodReported
<1>4. CASE \E pc \in Reporting : cli' = [cli EXCEPT !.pc = pc]
  <2>1. PICK pc \in Reporting : cli' = [cli EXCEPT !.pc = pc]
    BY <1>4
  <2>2. /\ CliType' /\ cli'.pc = pc /\ cli'.at = cli.at /\ cli'.rbAt = cli.rbAt
        /\ cli'.csl = cli.csl /\ cli'.waited = cli.waited
        /\ cli'.report = cli.report /\ cli'.result = cli.result
    BY <1>1, <2>1 DEF CliType, Reporting
  <2>3. QED
    BY <1>1, <2>1, <2>2, Attachment DEF Calm, Reporting, Inv, RunnerInv
<1>5. podState = "Succeeded" => podEnd = "Succeeded"
  BY DEF Inv, ClusterInv
<1>6. \A state : checkPodState(state) =>
        \/ cli' = [cli EXCEPT !.pc = "watchPod"]
        \/ PodReported("error") \/ (state = "Succeeded" /\ PodReported("ok"))
  BY DEF checkPodState
<1>7. QED
  BY <1>1, <1>2, <1>3, <1>4, <1>5, <1>6 DEF GetPod, ListPod, WatchPod, Reporting

LEMMA FailStep == Inv /\ Fail => Inv'
<1> SUFFICES ASSUME Inv, Fail PROVE Inv'
  OBVIOUS
<1>1. Calm /\ Finish("error")
  BY DEF Fail, Calm, Still, cluster, lifecycle
<1>2. QED
  BY <1>1, Finishing

-----------------------------------------------------------------------------
LEMMA RunnerNext == Inv /\ [Next]_vars => Inv'
<1>1. CASE UNCHANGED vars
  BY <1>1 DEF Inv, ClusterInv, RunnerInv, CliType, OwnerNotRefused, TruthfulSuccess, Stored,
              vars, cluster, lifecycle
<1>2. ASSUME Inv, ConsoleMoves \/ StartPod \/ MovePod \/ MoveRoleBinding
      PROVE  Inv'
  BY <1>2, ConsoleForward, PodForward, RoleBindingForward, ForwardKeeps DEF Inv
<1>3. QED
  BY <1>1, <1>2, PreparationSteps, ConsoleWaitStep, RoleBindingWaitStep, PatchStep,
     AttachmentSteps, ConnectSteps, ReportSteps, FailStep DEF Next, Step

LEMMA InvHolds == Spec => []Inv
BY RunnerInit, RunnerNext, PTL DEF Spec

\* The runner never holds a pod to attach to that its console does not name, and never more
\* versions or RoleBindings than there have been.
THEOREM TypeCorrect == Spec => []TypeOK
<1>1. Inv => TypeOK
  <2> SUFFICES ASSUME Inv PROVE TypeOK
    OBVIOUS
  <2>1. cli.at \in 0..Len(log) /\ cli.rbAt \in 0..rb
    BY DEF Inv, ClusterInv, RunnerInv, CliType, RoleBindings
  <2>2. QED
    BY <2>1 DEF Inv, ClusterInv, RunnerInv, CliType, TypeOK, Attaching, Reporting
<1>2. QED
  BY <1>1, InvHolds, PTL

\* However old the versions and RoleBindings were that ended the wait, the user who has
\* waited for a console of theirs to run is not refused while it is there.
THEOREM OwnerIsNotRefused == Spec => []OwnerNotRefused
<1>1. Inv => OwnerNotRefused
  BY DEF Inv, RunnerInv
<1>2. QED
  BY <1>1, InvHolds, PTL

\* Success is reported of no pod that has failed and can still be asked.
THEOREM SuccessIsTruthful == Spec => []TruthfulSuccess
<1>1. Inv => TruthfulSuccess
  BY DEF Inv, RunnerInv
<1>2. QED
  BY <1>1, InvHolds, PTL

\* Nobody has a session that the observer was not asked about.
THEOREM SessionsAreObserved == Spec => []SessionObserved
<1>1. Inv => SessionObserved
  BY DEF Inv, RunnerInv, SessionObserved
<1>2. QED
  BY <1>1, InvHolds, PTL
=============================================================================
