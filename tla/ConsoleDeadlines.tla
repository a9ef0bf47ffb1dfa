--------------------------- MODULE ConsoleDeadlines ---------------------------
(***************************************************************************)
(* How long a console lives: the time its session is given, the times that *)
(* are recorded for it, and when it is collected, on a clock in seconds.   *)
(*                                                                         *)
(* The console is created at 0.  A reconciliation is one step here, which  *)
(* may be cut short after each of its writes: ConsoleController has what   *)
(* happens between its calls, without durations.  Whoever has something to *)
(* do does it within Lag: the clock waits for nobody longer than that.     *)
(***************************************************************************)
EXTENDS Integers

CONSTANTS
  Templates,         \* what the template may be, and be edited to
  Timeouts,          \* what a user may ask for: 0 is no wish
  TTLs,              \* ... and for each TTL, or Unset
  DefaultTTLBeforeRunning, DefaultTTLAfterFinished,
  RunningPoll,       \* how often a running console is looked at
  Lag,               \* bound on the delay of the queue and of the Job controller
  MaxEdits,          \* bound on the edits of the template
  MaxErrors          \* bound on reconciliations that are cut short

Unset == -1   \* a TTL nobody has set
NoTime == -1  \* a time that is not known yet

Template == [default : Nat, max : Nat, ttlBefore : Nat \cup {Unset}, ttlAfter : Nat \cup {Unset}]

ASSUME TemplatesAssumption == Templates \subseteq Template
ASSUME RequestsAssumption == Timeouts \subseteq Nat /\ TTLs \subseteq Nat \cup {Unset}
ASSUME DelaysAssumption ==
  /\ DefaultTTLBeforeRunning \in Nat /\ DefaultTTLAfterFinished \in Nat
  /\ RunningPoll \in Nat \ {0} /\ Lag \in Nat \ {0}
ASSUME BoundsAssumption == MaxEdits \in Nat /\ MaxErrors \in Nat

VARIABLES
  now,
  tpl, edits,        \* the template, and how often it was edited
  csl,               \* the console as stored: its spec and status
  authorised,        \* whether it has the authorisations it needs
  job,               \* its job; jobBy: when the Job controller is to have acted
  jobBy,
  session,           \* its pod
  queuedAt, timer,   \* the work queue: since when, and the delayed requeue
  errors,
  \* histories: what was asked for, the template it was first reconciled with, when
  \* its session ended, and how much its timeout was cut since its job was made
  request, first, ended, cut

cluster == <<tpl, edits, authorised>>
kubernetes == <<job, jobBy, session, ended>>
queue == <<queuedAt, timer>>
history == <<request, first, cut>>
vars == <<now, cluster, csl, kubernetes, queue, errors, history>>

NoJob == [exists |-> FALSE, created |-> NoTime, deadline |-> 0, started |-> NoTime,
          condition |-> "none", completion |-> NoTime]

-----------------------------------------------------------------------------
(* Phases and times: helpers.go *)

PendingJob(c) == c.phase \in {"Creating", "PendingAuthorisation"}
PreRunning(c) == PendingJob(c) \/ c.phase = "Pending"
PostRunning(c) == c.phase \in {"Stopped", "Destroyed"}

\* Counted from the console's creation, at 0, from its completion, or its expiry.
GetGCTime(c) ==
  IF PreRunning(c) THEN c.ttlBefore
  ELSE IF ~PostRunning(c) THEN NoTime
  ELSE (IF c.completion # NoTime THEN c.completion ELSE c.expiry) + c.ttlAfter

EligibleForGC(c) == GetGCTime(c) # NoTime /\ GetGCTime(c) < now

-----------------------------------------------------------------------------
(* What a reconciliation makes of the console and its job *)

setConsoleOwner(c) == [c EXCEPT !.owned = TRUE]

Default(value, others, otherwise) ==
  IF value # Unset THEN value ELSE IF others # Unset THEN others ELSE otherwise

setConsoleTTLs_Template(c) ==                                          \* mutant
  [c EXCEPT !.ttlBefore = Default(tpl.ttlBefore, @, DefaultTTLBeforeRunning),
            !.ttlAfter = Default(tpl.ttlAfter, @, DefaultTTLAfterFinished)]

setConsoleTTLs_NoDefault(c) ==                                         \* mutant
  [c EXCEPT !.ttlBefore = Default(@, tpl.ttlBefore, DefaultTTLBeforeRunning),
            !.ttlAfter = IF @ = Unset THEN tpl.ttlAfter ELSE @]

setConsoleTTLs(c) ==
  [c EXCEPT !.ttlBefore = Default(@, tpl.ttlBefore, DefaultTTLBeforeRunning),
            !.ttlAfter = Default(@, tpl.ttlAfter, DefaultTTLAfterFinished)]

setConsoleTimeout_Unbounded(c) ==                                      \* mutant
  [c EXCEPT !.timeout = IF @ < 1 THEN tpl.default ELSE @]

setConsoleTimeout(c) ==
  [c EXCEPT !.timeout = IF @ < 1 THEN tpl.default ELSE IF @ > tpl.max THEN tpl.max ELSE @]

NewJob_Default(c) ==                                                   \* mutant
  [NoJob EXCEPT !.exists = TRUE, !.created = now, !.deadline = tpl.default]
NewJob(c) == [NoJob EXCEPT !.exists = TRUE, !.created = now, !.deadline = c.timeout]

\* createOrUpdate of the built job: the deadline of one that exists is updated.
jobDiff(c) == [job EXCEPT !.deadline = c.timeout]

PutJob(c) ==
  IF job.exists THEN jobDiff(c)
  ELSE IF authorised /\ PendingJob(c) THEN NewJob(c)
  ELSE job

calculatePhase(j) ==
  IF ~authorised THEN "PendingAuthorisation"
  ELSE IF ~j.exists THEN "Destroyed"
  ELSE IF j.condition # "none" THEN "Stopped"
  ELSE IF session = "running" THEN "Running"
  ELSE "Pending"

calculateStatus_FromConsole(c, j) ==                                   \* mutant
  [c EXCEPT !.phase = calculatePhase(j),
            !.expiry = IF j.exists THEN c.timeout ELSE @,
            !.completion = IF j.exists THEN j.completion ELSE @]

\* The expiry counts from the job's creation.
calculateStatus(c, j) ==
  [c EXCEPT !.phase = calculatePhase(j),
            !.expiry = IF j.exists THEN j.created + c.timeout ELSE @,
            !.completion = IF j.exists THEN j.completion ELSE @]

-----------------------------------------------------------------------------
(* The work queue *)

\* A watch delivers a change, and the key is queued unless it is already.
Enqueue == queuedAt' = IF queuedAt = NoTime THEN now ELSE queuedAt

\* What is due earlier stays the delayed entry of the key.
Sooner(at) == IF timer # NoTime /\ timer < at THEN timer ELSE at

\* requeueAfterInterval: an interval that is not positive queues the key again.
RequeueAfter(interval, changed) ==
  IF interval > 0
  THEN timer' = Sooner(now + interval) /\ queuedAt' = IF changed THEN now ELSE NoTime
  ELSE queuedAt' = now /\ UNCHANGED timer

RequeueInterval(c) ==
  IF c.phase = "Pending" THEN 1
  ELSE IF c.phase = "Running" THEN RunningPoll
  ELSE GetGCTime(c) - now

-----------------------------------------------------------------------------
(* The reconciliation *)

\* When the Job controller has to have ended a session that starts or is given another
\* deadline.
EndBy(started, deadline) == (IF started + deadline < now THEN now ELSE started + deadline) + Lag

PutsJob(j) ==
  /\ job' = j
  /\ jobBy' = IF ~job.exists /\ j.exists THEN now + Lag
              ELSE IF /\ session \in {"pending", "running"}
                      /\ j.deadline > job.deadline \/ EndBy(j.started, j.deadline) < jobBy
              THEN EndBy(j.started, j.deadline)
              ELSE jobBy
  /\ ended' = IF ~job.exists /\ j.exists THEN NoTime ELSE ended
  /\ UNCHANGED session

\* The template that supplies what was not asked for is the one of the first reconciliation
\* that stores the console.
Histories(c) ==
  /\ first' = IF csl.owned THEN first ELSE tpl
  /\ cut' = IF job.exists THEN cut + (csl.timeout - c.timeout)
            ELSE IF PendingJob(csl) THEN 0 ELSE cut
  /\ UNCHANGED request

\* A call fails after some of the writes: the key is queued again.
CutShort(c, j) ==
  /\ errors < MaxErrors /\ errors' = errors + 1
  /\ csl' = c /\ PutsJob(j)
  /\ queuedAt' = now /\ UNCHANGED timer

Collect(c, j) ==
  /\ EligibleForGC(c)
  /\ csl' = [c EXCEPT !.exists = FALSE]
  /\ PutsJob(j)
  /\ queuedAt' = NoTime /\ timer' = NoTime
  /\ UNCHANGED errors

Keep(c, j) ==
  /\ ~EligibleForGC(c)
  /\ csl' = c
  /\ PutsJob(j)
  /\ RequeueAfter(RequeueInterval(c), c # csl \/ j # job)
  /\ UNCHANGED errors

Reconcile ==
  /\ csl.exists /\ queuedAt # NoTime
  /\ LET spec == setConsoleTimeout(setConsoleTTLs(setConsoleOwner(csl)))
         newJob == PutJob(spec)
         new == calculateStatus(spec, newJob)
     IN  /\ Histories(spec)
         /\ \/ CutShort(spec, job) \/ CutShort(spec, newJob) \/ CutShort(new, newJob)
            \/ Collect(new, newJob)
            \/ Keep(new, newJob)
  /\ UNCHANGED <<now, cluster>>

Requeue ==
  /\ csl.exists /\ timer # NoTime /\ timer <= now
  /\ timer' = NoTime /\ Enqueue
  /\ UNCHANGED <<now, cluster, csl, kubernetes, errors, history>>

-----------------------------------------------------------------------------
(* The rest of the cluster: not under src/, modelled from how it is used *)

Authorise ==
  /\ csl.exists /\ ~authorised
  /\ authorised' = TRUE /\ Enqueue
  /\ UNCHANGED <<now, tpl, edits, csl, kubernetes, timer, errors, history>>

\* Templates are not watched.
EditTemplate ==
  /\ csl.exists /\ edits < MaxEdits
  /\ tpl' \in Templates \ {tpl} /\ edits' = edits + 1
  /\ UNCHANGED <<now, authorised, csl, kubernetes, queue, errors, history>>

\* The Job controller counts the deadline from when it has first seen the job.
StartJob ==
  /\ csl.exists /\ job.exists /\ session = "none"
  /\ job' = [job EXCEPT !.started = now]
  /\ session' = "pending" /\ jobBy' = EndBy(now, job.deadline)
  /\ Enqueue
  /\ UNCHANGED <<now, cluster, csl, ended, timer, errors, history>>

StartPod ==
  /\ csl.exists /\ session = "pending" /\ session' = "running"
  /\ UNCHANGED <<now, cluster, csl, job, jobBy, ended, queue, errors, history>>

\* The command ends; nobody watches its pod but the Job controller.
EndSession ==
  /\ csl.exists /\ session = "running"
  /\ session' = "ended" /\ ended' = now /\ jobBy' = now + Lag
  /\ UNCHANGED <<now, cluster, csl, job, queue, errors, history>>

FinishJob ==
  /\ csl.exists /\ job.exists /\ session = "ended" /\ job.condition = "none"
  /\ \/ job' = [job EXCEPT !.condition = "complete", !.completion = now]
     \/ job' = [job EXCEPT !.condition = "failed"]
  /\ jobBy' = NoTime /\ Enqueue
  /\ UNCHANGED <<now, cluster, csl, session, ended, timer, errors, history>>

JobDeadline ==
  /\ csl.exists /\ job.exists /\ session \in {"pending", "running"}
  /\ now >= job.started + job.deadline
  /\ job' = [job EXCEPT !.condition = "failed"]
  /\ session' = "ended" /\ ended' = now /\ jobBy' = NoTime
  /\ Enqueue
  /\ UNCHANGED <<now, cluster, csl, timer, errors, history>>

\* Somebody deletes the job, and Kubernetes its pod.
DeleteJob ==
  /\ csl.exists /\ job.exists
  /\ job' = NoJob /\ jobBy' = NoTime
  /\ IF session = "none" THEN UNCHANGED <<session, ended>>
     ELSE session' = "none" /\ ended' = IF session = "ended" THEN ended ELSE now
  /\ Enqueue
  /\ UNCHANGED <<now, cluster, csl, timer, errors, history>>

\* The clock waits for whoever has something to do, but not longer than Lag.
Tick ==
  /\ csl.exists
  /\ queuedAt # NoTime => now < queuedAt + Lag
  /\ timer # NoTime => now < timer
  /\ jobBy # NoTime => now < jobBy
  /\ now' = now + 1
  /\ UNCHANGED <<cluster, csl, kubernetes, queue, errors, history>>

Collected == ~csl.exists /\ UNCHANGED vars

-----------------------------------------------------------------------------
Init ==
  /\ now = 0
  /\ tpl \in Templates /\ edits = 0
  /\ request \in [timeout : Timeouts, ttlBefore : TTLs, ttlAfter : TTLs]
  /\ csl = [exists |-> TRUE, owned |-> FALSE, timeout |-> request.timeout, ttlBefore |-> request.ttlBefore,
            ttlAfter |-> request.ttlAfter, phase |-> "Creating",
            expiry |-> NoTime, completion |-> NoTime]
  /\ authorised \in BOOLEAN
  /\ job = NoJob /\ jobBy = NoTime /\ session = "none" /\ ended = NoTime
  /\ queuedAt = 0 /\ timer = NoTime /\ errors = 0
  /\ first = tpl /\ cut = 0

Kubernetes == StartJob \/ StartPod \/ EndSession \/ FinishJob \/ JobDeadline \/ DeleteJob

Next == Reconcile \/ Requeue \/ Authorise \/ EditTemplate \/ Kubernetes \/ Tick \/ Collected

Spec == Init /\ [][Next]_vars

-----------------------------------------------------------------------------
(* Properties *)

Times == Nat \cup {NoTime}

CslType ==
  csl \in [exists : BOOLEAN, owned : BOOLEAN, timeout : Nat, ttlBefore : Nat \cup {Unset},
           ttlAfter : Nat \cup {Unset}, expiry : Times, completion : Times,
           phase : {"Creating", "PendingAuthorisation", "Pending", "Running", "Stopped",
                    "Destroyed"}]

JobType ==
  /\ job \in [exists : BOOLEAN, created : Times, deadline : Nat, started : Times,
              condition : {"none", "complete", "failed"}, completion : Times]
  /\ jobBy \in Times /\ session \in {"none", "pending", "running", "ended"}
  /\ ended \in Times

\* Every variable holds a value of its type: a console that has been reconciled has the
\* TTLs that GetGCTime dereferences, and no time that is recorded is in the future.
TypeOK ==
  /\ now \in Nat /\ tpl \in Templates /\ edits \in 0..MaxEdits /\ authorised \in BOOLEAN
  /\ CslType /\ JobType
  /\ csl.owned => csl.ttlBefore # Unset /\ csl.ttlAfter # Unset
  /\ queuedAt \in Times /\ timer \in Times /\ errors \in 0..MaxErrors
  /\ request \in [timeout : Timeouts, ttlBefore : TTLs, ttlAfter : TTLs]
  /\ first \in Templates /\ cut \in Int
  /\ \A t \in {job.created, job.started, job.completion, ended, queuedAt} : t <= now

\* What the user asked for, or else the template, or else the default.
TTLBefore == Default(request.ttlBefore, first.ttlBefore, DefaultTTLBeforeRunning)
TTLAfter == Default(request.ttlAfter, first.ttlAfter, DefaultTTLAfterFinished)

Missing == IF csl.completion # NoTime THEN 0 ELSE cut + 2 * Lag

\* No console is collected before its time.  While it has not run, that is when its TTL
\* has passed since its creation; after its session, when the other TTL has passed since
\* that ended.  The TTLs are those of its first reconciliation, whatever the template is
\* edited to.  Only a session that failed, or whose job was deleted, may go earlier: it
\* counts from its expiry, before its end by what its timeout was cut under it and by
\* two delays of the Job controller at most.
NotCollectedEarly ==
  [][csl.exists /\ ~csl'.exists =>
       \/ PreRunning(csl') /\ now > TTLBefore'
       \/ PostRunning(csl') /\ now > ended + TTLAfter' - Missing']_vars

\* The deadline does not end a session before the timeout that the console has by then,
\* counted from the job's creation.  (A lower maximum, or a default above the maximum,
\* may have cut the timeout since the job was made.)
SessionGetsItsTime ==
  [][job'.condition = "failed" /\ session \in {"pending", "running"} =>
       now >= job.created + csl.timeout]_vars

\* The expiry that the console shows is not after the deadline of the session that is
\* going on, and before it by one delay of the Job controller at most (which counts the
\* deadline from when it has seen the job), unless a reconciliation is still to come.
ShownExpiry ==
  csl.exists /\ session \in {"pending", "running"} /\ queuedAt = NoTime =>
    \E delay \in 0..Lag : csl.expiry + delay = job.started + job.deadline

Granted == IF request.timeout < 1 THEN first.default
           ELSE IF request.timeout > first.max THEN first.max ELSE request.timeout

Longest == TTLBefore + Granted + TTLAfter + (4 + MaxErrors) * Lag

\* A console is gone after the time for it to run, the time of its session and the time to
\* be kept, and a delay for each of the steps between: whatever is edited, deleted or
\* authorised when.
NeverOverstays == csl.exists => now <= Longest

\* "Ensure the console timeout is between [0, template.MaxTimeoutSeconds]"
\* (console_controller.go:511).
TimeoutWithinMax == csl.owned /\ edits = 0 => csl.timeout <= tpl.max

\* "the Console will be eligible for garbage collection TTLSecondsAfterFinished seconds
\* after it enters the Stopped or Destroyed phase" (console_types.go:35-37).
KeptAfterFinished ==
  [][csl.exists /\ ~csl'.exists /\ PostRunning(csl) => now > ended + TTLAfter]_vars
=============================================================================
