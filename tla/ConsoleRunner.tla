----------------------------- MODULE ConsoleRunner -----------------------------
(***************************************************************************)
(* A user's side of a console: the runner behind theatre-consoles creates, *)
(* authorises or attaches to a console, waits for it over watches that may *)
(* lag and skip versions, and reports what became of its pod.              *)
(*                                                                         *)
(* The console itself moves by ConsoleLifecycle, which the controller      *)
(* implements; here are added the versions of it that a watch delivers,    *)
(* its pod, the RoleBinding that the directory controller makes of the     *)
(* access it grants, and the two webhooks that a user's calls pass: one    *)
(* makes the console theirs, one records their attachments.                *)
(***************************************************************************)
EXTENDS ConsoleLifecycle, Sequences

CONSTANTS
  Options,     \* how the runner is called
  MaxApprovals, MaxVersions  \* bounds on the console's history

ASSUME OptionsAssumption ==
  Options \subseteq [flow : {"create", "authorise", "attach"}, attach : BOOLEAN,
                     noninteractive : BOOLEAN, ruleKnown : BOOLEAN]
ASSUME HistoryAssumption == MaxApprovals \in Nat /\ MaxVersions \in Nat \ {0}

VARIABLES
  log,       \* the versions of the console so far
  podState,  \* its pod
  podEnd,    \* ... and how that ended, if it did
  rb,        \* its RoleBinding, which only moves forward
  user,      \* the user it is of: the runner's caller, or somebody else
  attached,  \* what was recorded of the caller's attachment
  opts,      \* the call
  cli        \* the runner

cluster == <<lifecycle, log, podState, podEnd, rb>>
vars == <<cluster, user, attached, opts, cli>>

Version == [phase : Waiting \cup Launched, podName : BOOLEAN]
Stored == log[Len(log)]

NoRoleBinding == 0
EmptyRoleBinding == 1
NamedRoleBinding == 2
CollectedRoleBinding == 3

-----------------------------------------------------------------------------
(* The cluster *)

\* The status names the pod once a reconciliation has listed it, and a console is only
\* Running with its pod.
Store(newPhase) ==
  \E named \in BOOLEAN :
    /\ Stored.podName => named
    /\ named => podState # "none"
    /\ newPhase = "Running" => named /\ podState # "Pending"
    /\ log' = Append(log, [phase |-> newPhase, podName |-> named])

\* Access is given to a pod that was seen to run.
ConsoleMoves ==
  /\ user # "nobody" /\ LifecycleNext
  /\ approvals' <= MaxApprovals
  /\ IF phase' \in {phase, "Deleted"} THEN UNCHANGED log
     ELSE Len(log) < MaxVersions /\ Store(phase')
  /\ pod' \in {pod, NoPod} \/ podState \notin {"none", "Pending"}
  /\ UNCHANGED <<podState, podEnd, rb, user, attached, opts, cli>>

\* The job is created before the console is stored as launched.
StartPod ==
  /\ podState = "none" /\ phase # "Deleted" /\ Authorised
  /\ podState' = "Pending"
  /\ UNCHANGED <<lifecycle, log, podEnd, rb, user, attached, opts, cli>>

\* A pod that is lost or deleted by force goes without an end.
MovePod ==
  /\ \/ podState = "Pending" /\ podState' = "Running" /\ UNCHANGED podEnd
     \/ /\ podState = "Running" /\ podState' \in {"Succeeded", "Failed"}
        /\ podEnd' = podState'
     \/ /\ podState \in {"Pending", "Running", "Succeeded", "Failed"}
        /\ podState' = "gone" /\ UNCHANGED podEnd
  /\ UNCHANGED <<lifecycle, log, rb, user, attached, opts, cli>>

\* The RoleBinding of the access that is granted: created, filled, and collected.
MoveRoleBinding ==
  /\ \/ rb = NoRoleBinding /\ pod # NoPod /\ rb' = EmptyRoleBinding
     \/ rb = EmptyRoleBinding /\ phase # "Deleted" /\ rb' = NamedRoleBinding
     \/ /\ rb \in {EmptyRoleBinding, NamedRoleBinding} /\ phase = "Deleted"
        /\ rb' = CollectedRoleBinding
  /\ UNCHANGED <<lifecycle, log, podState, podEnd, user, attached, opts, cli>>

-----------------------------------------------------------------------------
(* The runner *)

Finish(result) == cli' = [cli EXCEPT !.pc = "done", !.result = result]

\* Create: a selector that finds no template, or several, is refused.
FindTemplateBySelector ==
  /\ cli.pc = "template"
  /\ \E found \in 0..2 :
       IF found = 1 THEN cli' = [cli EXCEPT !.pc = "create"] ELSE Finish("error")
  /\ UNCHANGED <<cluster, user, attached, opts>>

Wait(strict) == cli' = [cli EXCEPT !.pc = "list", !.strict = strict, !.at = 0, !.rbAt = NoRoleBinding]

\* The authenticator makes a console its requester's, whomever it names.
Authenticate(requester) == user' = requester

CreateResource ==
  /\ cli.pc = "create"
  /\ Authenticate("caller") /\ Wait(FALSE)
  /\ UNCHANGED <<cluster, attached, opts>>

\* WaitUntilReady returns: Create waits a second time, then attaches if it is to.
Ready(seen) ==
  IF opts.flow = "create" /\ ~cli.strict THEN Wait(TRUE)
  ELSE IF opts.attach THEN cli' = [cli EXCEPT !.pc = "find", !.waited = seen, !.at = 0,
                                              !.rbAt = NoRoleBinding]
  ELSE Finish("ok")

\* The hook is told the rule that the template, as first read, has for the command.
RequiresAuthorisation == IF opts.ruleKnown THEN Wait(TRUE) ELSE Finish("error")

AwaitRoleBinding(seen) == cli' = [cli EXCEPT !.pc = "listRB", !.waited = seen, !.at = 0]

waitForRoleBinding_Always(seen) == AwaitRoleBinding(seen)                 \* mutant
waitForRoleBinding(seen) == IF seen = "Stopped" THEN Ready(seen) ELSE AwaitRoleBinding(seen)

checkConsoleState(v, n) ==
  \/ v.phase \in {"Running", "Stopped"} /\ waitForRoleBinding(v.phase)
  \/ v.phase = "PendingAuthorisation" /\ ~cli.strict /\ RequiresAuthorisation
  \/ /\ v.phase \notin {"Running", "Stopped"}
     /\ v.phase = "PendingAuthorisation" => cli.strict
     /\ cli' = [cli EXCEPT !.pc = "watch", !.at = n]

\* waitForConsole: the first list is of any age, and empty if the console is gone.
ListConsole ==
  /\ cli.pc = "list"
  /\ \/ \E n \in 1..Len(log) : checkConsoleState(log[n], n)
     \/ cli' = [cli EXCEPT !.pc = "watch", !.at = 0]
     \/ phase = "Deleted" /\ cli' = [cli EXCEPT !.pc = "watch", !.at = Len(log)]
  /\ UNCHANGED <<cluster, user, attached, opts>>

\* An event of the watch, which may skip versions when it has to list again.  That of
\* the deletion carries the version before it, which has been looked at.
WatchConsole ==
  /\ cli.pc = "watch"
  /\ \/ \E n \in cli.at + 1..Len(log) : checkConsoleState(log[n], n)
     \/ /\ phase = "Deleted" /\ cli.at < Len(log)
        /\ cli' = [cli EXCEPT !.at = Len(log)]
  /\ UNCHANGED <<cluster, user, attached, opts>>

rbHasSubject_Any(n) == n \in {EmptyRoleBinding, NamedRoleBinding}         \* mutant
rbHasSubject(n) == n = NamedRoleBinding

SeesRoleBinding(n) ==
  IF rbHasSubject(n) THEN Ready(cli.waited)
  ELSE cli' = [cli EXCEPT !.pc = "watchRB", !.rbAt = n]

WatchRoleBinding ==
  /\ \/ cli.pc = "listRB" /\ \E n \in 0..rb : SeesRoleBinding(n)
     \/ cli.pc = "watchRB" /\ \E n \in cli.rbAt + 1..rb : SeesRoleBinding(n)
  /\ UNCHANGED <<cluster, user, attached, opts>>

\* Authorise: the patch needs the authorisation object, and the wait starts from a
\* console that is still there.
PatchAuthorisation ==
  /\ cli.pc = "patch"
  /\ \/ approvals = -1 /\ Finish("error") /\ UNCHANGED lifecycle
     \/ /\ approvals # -1 /\ Approve
        /\ IF opts.attach THEN cli' = [cli EXCEPT !.pc = "get"] ELSE Finish("ok")
  /\ UNCHANGED <<log, podState, podEnd, rb, user, attached, opts>>

GetConsole ==
  /\ cli.pc = "get"
  /\ IF phase = "Deleted" THEN Finish("error") ELSE Wait(TRUE)
  /\ UNCHANGED <<cluster, user, attached, opts>>

\* Attach starts from the console as it is stored now.
FindConsoleByName ==
  /\ cli.pc = "find"
  /\ IF phase = "Deleted" THEN Finish("error")
     ELSE cli' = [cli EXCEPT !.pc = "getPod", !.csl = Stored]
  /\ UNCHANGED <<cluster, user, attached, opts>>

Attachable_Unnamed(v) == podState # "gone"                               \* mutant
Attachable(v) == v.podName /\ podState # "gone"

GetAttachablePod ==
  /\ cli.pc = "getPod"
  /\ IF Attachable(cli.csl) THEN cli' = [cli EXCEPT !.pc = "attach"] ELSE Finish("error")
  /\ UNCHANGED <<cluster, user, attached, opts>>

\* waitForSuccess, after which the pod's end or the failure to attach is reported.
AwaitPod(report) == cli' = [cli EXCEPT !.pc = "success", !.report = report]

\* The API refuses whom the RoleBinding does not name, which may be an authoriser who is
\* not on it yet; one who is refused cannot read the logs either.
AttachRefused ==
  /\ cli.pc = "attach"
  /\ rb # NamedRoleBinding \/ user # "caller"
  /\ Finish("refused")
  /\ UNCHANGED <<cluster, user, attached, opts>>

AttachAdmitted ==
  /\ cli.pc = "attach" /\ rb = NamedRoleBinding
  /\ cli' = [cli EXCEPT !.pc = "observe"]
  /\ UNCHANGED <<cluster, user, attached, opts>>

\* A failure to attach is reported, once the logs are read and the pod has ended.
AttachFails == IF podState = "gone" THEN Finish("error") ELSE AwaitPod("failure")

\* The manager's cache may still hold what is gone.
Cached(exists) == {exists, TRUE}

\* An event that cannot be published is only logged.
ConsoleAttach == attached' \in {"recorded", "missed"}

\* The webhook denies an attachment whose pod or console it fails to find.  It lets one to
\* a pod without the label "console-name" pass, but the pod of a console has it from its job;
\* a dry run, of which it only logs, attaches nobody.
Observe_Lenient(podFound, cslFound) ==                                   \* mutant
  IF ~podFound THEN AttachFails /\ UNCHANGED attached
  ELSE /\ IF cslFound THEN ConsoleAttach ELSE UNCHANGED attached
       /\ cli' = [cli EXCEPT !.pc = "connect"]
Observe(podFound, cslFound) ==
  IF podFound /\ cslFound
  THEN /\ ConsoleAttach
       /\ cli' = [cli EXCEPT !.pc = "connect"]
  ELSE AttachFails /\ UNCHANGED attached

\* The API server asks the attach observer, and goes on if that does not answer.
ObserveAttach ==
  /\ cli.pc = "observe"
  /\ \/ \E podFound \in Cached(podState # "gone"), cslFound \in Cached(phase # "Deleted") :
          Observe(podFound, cslFound)
     \/ AttachFails /\ UNCHANGED attached
     \/ attached' = "missed" /\ cli' = [cli EXCEPT !.pc = "connect"]
  /\ UNCHANGED <<cluster, user, opts>>

\* A pod that has ended has no container to attach to: its end is reported instead.
AttachToPod ==
  /\ cli.pc = "connect"
  /\ \/ podState = "Running" /\ cli' = [cli EXCEPT !.pc = "session"]
     \/ podState \in {"Succeeded", "Failed"} /\ AwaitPod("end")
     \/ AttachFails
  /\ UNCHANGED <<cluster, user, attached, opts>>

EndSession ==
  /\ cli.pc = "session"
  /\ \/ IF opts.noninteractive THEN AwaitPod("end") ELSE Finish("ok")
     \/ AwaitPod("failure")
  /\ UNCHANGED <<cluster, user, attached, opts>>

PodReported(result) == Finish(IF cli.report = "failure" THEN "error" ELSE result)

checkPodState_AnyEnd(state) ==                                           \* mutant
  IF state = "Running" THEN cli' = [cli EXCEPT !.pc = "watchPod"] ELSE PodReported("ok")
checkPodState(state) ==
  IF state = "Running" THEN cli' = [cli EXCEPT !.pc = "watchPod"]
  ELSE PodReported(IF state = "Succeeded" THEN "ok" ELSE "error")

\* A pod that is gone is taken for one that has succeeded.
GetPod ==
  /\ cli.pc = "success"
  /\ IF podState = "gone" THEN PodReported("ok") ELSE cli' = [cli EXCEPT !.pc = "listPod"]
  /\ UNCHANGED <<cluster, user, attached, opts>>

\* The first list is from before or after the pod's end.
ListPod ==
  /\ cli.pc = "listPod"
  /\ \/ podState # "Pending" /\ checkPodState("Running")
     \/ podState # "gone" /\ checkPodState(podState)
     \/ podState = "gone" /\ PodReported("ok")
  /\ UNCHANGED <<cluster, user, attached, opts>>

\* The event of the deletion of a running pod does not end the wait, and neither
\* does one that has skipped the pod's end.
WatchPod ==
  /\ cli.pc = "watchPod"
  /\ \/ podEnd # "none" /\ checkPodState(podEnd)
     \/ podState = "gone" /\ cli' = [cli EXCEPT !.pc = "lostPod"]
  /\ UNCHANGED <<cluster, user, attached, opts>>

\* A call fails, a hook returns an error, or the user interrupts the runner.
Fail ==
  /\ cli.pc # "done"
  /\ Finish("error")
  /\ UNCHANGED <<cluster, user, attached, opts>>

Step ==
  \/ FindTemplateBySelector \/ CreateResource
  \/ ListConsole \/ WatchConsole \/ WatchRoleBinding
  \/ PatchAuthorisation \/ GetConsole
  \/ FindConsoleByName \/ GetAttachablePod \/ AttachRefused \/ AttachAdmitted
  \/ ObserveAttach \/ AttachToPod
  \/ GetPod \/ ListPod \/ WatchPod

-----------------------------------------------------------------------------
\* The console is Create's to make; the other calls come at any time of one that is there.
Init ==
  /\ LifecycleInit
  /\ log = <<[phase |-> "Creating", podName |-> FALSE]>>
  /\ podState = "none" /\ podEnd = "none" /\ rb = NoRoleBinding
  /\ opts \in Options /\ attached = "none"
  /\ user \in IF opts.flow = "create" THEN {"nobody"}
              ELSE IF opts.flow = "authorise" THEN {"other"} ELSE {"caller", "other"}
  /\ cli = [pc |-> IF opts.flow = "create" THEN "template"
                   ELSE IF opts.flow = "authorise" THEN "patch" ELSE "find",
            strict |-> FALSE, at |-> 0, rbAt |-> NoRoleBinding,
            csl |-> [phase |-> "Creating", podName |-> FALSE],
            waited |-> "none", report |-> "none", result |-> "none"]

Next ==
  ConsoleMoves \/ StartPod \/ MovePod \/ MoveRoleBinding \/ Step \/ EndSession \/ Fail

Spec == Init /\ [][Next]_vars

\* The runner and its watches go on; neither the cluster nor the user has to.
FairSpec == Spec /\ WF_vars(Step)

-----------------------------------------------------------------------------
(* Properties *)

\* Every variable holds a value of its type, and the runner never holds a pod to attach
\* to that its console does not name.
TypeOK ==
  /\ log \in Seq(Version) /\ Len(log) \in 1..MaxVersions
  /\ phase \in {Stored.phase, "Deleted"}
  /\ podState \in {"none", "Pending", "Running", "Succeeded", "Failed", "gone"}
  /\ podEnd \in {"none", "Succeeded", "Failed"} /\ rb \in 0..3
  /\ user \in {"nobody", "caller", "other"}
  /\ attached \in {"none", "recorded", "missed"}
  /\ opts \in Options
  /\ cli.at \in 0..Len(log) /\ cli.rbAt \in 0..rb
  /\ cli.result \in {"none", "ok", "error", "refused"}
  /\ cli.result = "none" <=> cli.pc # "done"
  /\ cli.pc \in {"attach", "observe", "connect", "session", "success", "listPod", "watchPod", "lostPod"} =>
       cli.csl.podName /\ podState # "none"

\* The user who created a console and has waited for it to run is not refused by the
\* API when attaching, however old the versions and RoleBindings were that ended the
\* wait, unless the console has been deleted since.
OwnerNotRefused ==
  cli.result = "refused" /\ user = "caller" /\ cli.waited = "Running" => phase = "Deleted"

\* Success is reported of no pod that has failed and can still be asked: neither the
\* early end of a pod nor an old list hides the failure of its command.
TruthfulSuccess ==
  cli.result = "ok" /\ cli.report = "end" => podEnd = "Succeeded" \/ podState = "gone"

\* Nobody has a session that the observer was not asked about: not by attaching while the
\* console is deleted under its pod, or through a cache that is behind.  The audit trail
\* shows it, except where the observer did not answer or could not publish its event.
SessionObserved == cli.pc = "session" => attached # "none"

\* What the runner waits for has happened and stays: the console has run or is running,
\* the owner of one that was seen running is on its RoleBinding, and the pod is there.
Settled ==
  /\ phase \in {"Running", "Stopped"} /\ podState # "gone"
  /\ cli.waited = "Running" => rb = NamedRoleBinding

Released == cli.pc \in {"session", "done"} \/ (cli.pc = "watchPod" /\ podState = "Running")

\* No wait outlasts what it waits for: whichever versions the watches have missed, the
\* runner comes to a session with the pod, to a pod that runs on, or to an end.
WaitsEnd == <>[]Settled => <>Released

\* "WaitUntilReady will block until the console reaches a phase that indicates that it's
\* ready to be attached to, or has failed" (runner.go:842).
FailureEndsWait == <>[](phase = "Destroyed") => []<>(cli.pc \notin {"list", "watch"})
=============================================================================
