------------------------ MODULE ConsoleDeadlinesProofs ------------------------
(***************************************************************************)
(* Proofs about ConsoleDeadlines: for any templates, requests, delays and  *)
(* number of edits and errors.  Those that depend on how long a session is *)
(* assume that no template's timeouts are 0: with a maximum of 0, every    *)
(* other reconciliation takes the default again.                           *)
(***************************************************************************)
EXTENDS ConsoleDeadlines, TLAPS

PositiveTimeouts == \A t \in Templates : t.default > 0 /\ t.max > 0

-----------------------------------------------------------------------------
(* Types *)

Csl == [exists : BOOLEAN, owned : BOOLEAN, timeout : Nat, ttlBefore : Nat \cup {Unset},
        ttlAfter : Nat \cup {Unset}, expiry : Times, completion : Times,
        phase : {"Creating", "PendingAuthorisation", "Pending", "Running", "Stopped",
                 "Destroyed"}]

Job == [exists : BOOLEAN, created : Times, deadline : Nat, started : Times,
        condition : {"none", "complete", "failed"}, completion : Times]

\* The console's spec as a reconciliation makes it.
Resolved == setConsoleTimeout(setConsoleTTLs(setConsoleOwner(csl)))

LEMMA ResolvedType ==
  ASSUME TypeOK
  PROVE  /\ Resolved \in Csl
         /\ Resolved.owned /\ Resolved.exists = csl.exists /\ Resolved.phase = csl.phase
         /\ Resolved.expiry = csl.expiry /\ Resolved.completion = csl.completion
         /\ Resolved.ttlBefore = Default(csl.ttlBefore, tpl.ttlBefore, DefaultTTLBeforeRunning)
         /\ Resolved.ttlAfter = Default(csl.ttlAfter, tpl.ttlAfter, DefaultTTLAfterFinished)
         /\ Resolved.ttlBefore \in Nat /\ Resolved.ttlAfter \in Nat
         /\ Resolved.timeout = IF csl.timeout < 1 THEN tpl.default
                               ELSE IF csl.timeout > tpl.max THEN tpl.max ELSE csl.timeout
<1>1. csl \in Csl /\ tpl \in Template
  BY TemplatesAssumption DEF TypeOK, CslType, Csl
<1>2. /\ Default(csl.ttlBefore, tpl.ttlBefore, DefaultTTLBeforeRunning) \in Nat
      /\ Default(csl.ttlAfter, tpl.ttlAfter, DefaultTTLAfterFinished) \in Nat
  BY <1>1, DelaysAssumption DEF Default, Csl, Template, Unset
<1>3. QED
  BY <1>1, <1>2 DEF Resolved, setConsoleTimeout, setConsoleTTLs, setConsoleOwner, Csl, Template

\* Its job, and its status, as the reconciliation would have them stored.
Built == PutJob(Resolved)
Reported == calculateStatus(Resolved, Built)

LEMMA BuiltType ==
  ASSUME TypeOK
  PROVE  /\ Built \in Job
         /\ Built.created <= now /\ Built.started <= now /\ Built.completion <= now
         /\ \/ job.exists /\ Built = [job EXCEPT !.deadline = Resolved.timeout]
            \/ /\ ~job.exists /\ authorised /\ PendingJob(csl)
               /\ Built = [NoJob EXCEPT !.exists = TRUE, !.created = now,
                                        !.deadline = Resolved.timeout]
            \/ ~job.exists /\ Built = job
<1>1. job \in Job /\ now \in Nat /\ Resolved.timeout \in Nat /\ Resolved.phase = csl.phase
  BY ResolvedType DEF TypeOK, JobType, Job, Csl
<1>2. job.created <= now /\ job.started <= now /\ job.completion <= now
  BY DEF TypeOK
<1>3. NoJob \in Job /\ NoJob.started <= now /\ NoJob.completion <= now
  BY <1>1 DEF NoJob, Job, Times, NoTime
<1>4. CASE job.exists
  <2>1. Built = [job EXCEPT !.deadline = Resolved.timeout]
    BY <1>4 DEF Built, PutJob, jobDiff
  <2>2. QED
    BY <1>1, <1>2, <1>4, <2>1 DEF Job
<1>5. CASE ~job.exists /\ authorised /\ PendingJob(csl)
  <2>1. Built = [NoJob EXCEPT !.exists = TRUE, !.created = now, !.deadline = Resolved.timeout]
    BY <1>1, <1>5 DEF Built, PutJob, NewJob, PendingJob
  <2>2. Built = [exists |-> TRUE, created |-> now, deadline |-> Resolved.timeout,
                 started |-> NoTime, condition |-> "none", completion |-> NoTime]
    BY <2>1 DEF NoJob
  <2>3. Built \in Job /\ Built.created <= now /\ Built.started <= now /\ Built.completion <= now
    BY <1>1, <2>2 DEF Job, Times, NoTime
  <2>4. QED
    BY <1>5, <2>1, <2>3
<1>6. CASE ~job.exists /\ ~(authorised /\ PendingJob(csl))
  <2>1. Built = job
    BY <1>1, <1>6 DEF Built, PutJob, PendingJob
  <2>2. QED
    BY <1>1, <1>2, <1>6, <2>1
<1>7. QED
  BY <1>4, <1>5, <1>6

LEMMA ReportedType ==
  ASSUME TypeOK
  PROVE  /\ Reported \in Csl
         /\ Reported.owned /\ Reported.exists = csl.exists
         /\ Reported.timeout = Resolved.timeout
         /\ Reported.ttlBefore = Resolved.ttlBefore /\ Reported.ttlAfter = Resolved.ttlAfter
         /\ Reported.phase = calculatePhase(Built)
         /\ Reported.expiry = IF Built.exists THEN Built.created + Resolved.timeout ELSE csl.expiry
         /\ Reported.completion = IF Built.exists THEN Built.completion ELSE csl.completion
<1>1. /\ Resolved \in Csl /\ Resolved.owned /\ Resolved.exists = csl.exists
      /\ Resolved.expiry = csl.expiry /\ Resolved.completion = csl.completion
  BY ResolvedType
<1>2. Built \in Job
  BY BuiltType
<1>3. Built.created + Resolved.timeout \in Times
  BY <1>1, <1>2 DEF Job, Csl, Times, NoTime
<1>4. calculatePhase(Built) \in {"PendingAuthorisation", "Destroyed", "Stopped", "Running",
                                 "Pending"}
  BY DEF calculatePhase
<1>5. QED
  BY <1>1, <1>2, <1>3, <1>4 DEF Reported, calculateStatus, Csl, Job, Times

LEMMA TypeInit == Init => TypeOK
<1> SUFFICES ASSUME Init PROVE TypeOK
  OBVIOUS
<1>1. request.timeout \in Nat /\ request.ttlBefore \in Nat \cup {Unset}
      /\ request.ttlAfter \in Nat \cup {Unset}
  BY RequestsAssumption DEF Init
<1>2. CslType /\ ~csl.owned
  BY <1>1 DEF Init, CslType, Times
<1>3. JobType
  BY DEF Init, JobType, NoJob, Times
<1>4. \A t \in {job.created, job.started, job.completion, ended, queuedAt} : t <= now
  BY DEF Init, NoJob, NoTime
<1>5. now \in Nat /\ edits \in 0..MaxEdits /\ errors \in 0..MaxErrors
      /\ queuedAt \in Times /\ timer \in Times
  BY BoundsAssumption DEF Init, Times
<1>6. /\ tpl \in Templates /\ first \in Templates
      /\ authorised \in BOOLEAN /\ cut \in Int
      /\ request \in [timeout : Timeouts, ttlBefore : TTLs, ttlAfter : TTLs]
  BY DEF Init
<1>7. QED
  BY <1>2, <1>3, <1>4, <1>5, <1>6 DEF TypeOK

LEMMA TypeReconcile == TypeOK /\ Reconcile => TypeOK'
<1> SUFFICES ASSUME TypeOK, Reconcile PROVE TypeOK'
  OBVIOUS
<1> DEFINE Writes == {<<Resolved, job>>, <<Resolved, Built>>, <<Reported, Built>>}
<1>1. \/ \E w \in Writes : CutShort(w[1], w[2])
      \/ Collect(Reported, Built) \/ Keep(Reported, Built)
  BY DEF Reconcile, Resolved, Built, Reported
<1>2. UNCHANGED <<now, cluster, request, session>> /\ Histories(Resolved)
  BY <1>1 DEF Reconcile, Histories, Collect, Keep, CutShort, PutsJob, Resolved
<1>3. /\ csl' \in Csl /\ csl'.owned /\ csl'.ttlBefore # Unset /\ csl'.ttlAfter # Unset
  <2>1. ASSUME NEW c \in {Resolved, Reported}, csl' \in {c, [c EXCEPT !.exists = FALSE]}
        PROVE  csl' \in Csl /\ csl'.owned /\ csl'.ttlBefore # Unset /\ csl'.ttlAfter # Unset
    <3>1. c \in Csl /\ c.owned /\ c.ttlBefore \in Nat /\ c.ttlAfter \in Nat
      BY ResolvedType, ReportedType
    <3>2. CASE csl' = c
      BY <3>1, <3>2 DEF Unset
    <3>3. CASE csl' = [c EXCEPT !.exists = FALSE]
      <4>1. csl' \in Csl
        BY <3>1, <3>3 DEF Csl
      <4>2. csl'.owned = c.owned /\ csl'.ttlBefore = c.ttlBefore /\ csl'.ttlAfter = c.ttlAfter
        BY <3>1, <3>3 DEF Csl
      <4>3. QED
        BY <3>1, <4>1, <4>2 DEF Unset
    <3>4. QED
      BY <2>1, <3>2, <3>3
  <2>2. QED
    BY <1>1, <2>1 DEF CutShort, Collect, Keep
<1>4. /\ job' \in Job /\ ended' \in {ended, NoTime} /\ jobBy' \in Times
      /\ job'.created <= now /\ job'.started <= now /\ job'.completion <= now
  <2>1. job' \in {job, Built} /\ PutsJob(job')
    BY <1>1 DEF CutShort, Collect, Keep, PutsJob
  <2>2. job \in Job /\ job.created <= now /\ job.started <= now /\ job.completion <= now
    BY DEF TypeOK, JobType, Job
  <2>3. /\ job' \in Job
        /\ job'.created <= now /\ job'.started <= now /\ job'.completion <= now
    BY <2>1, <2>2, BuiltType
  <2>4. now + Lag \in Times /\ EndBy(job'.started, job'.deadline) \in Times
    BY <2>3, DelaysAssumption DEF EndBy, Job, Times, NoTime, TypeOK
  <2>5. QED
    BY <2>1, <2>3, <2>4 DEF PutsJob, TypeOK, JobType
<1>5. /\ queuedAt' \in Times /\ queuedAt' <= now /\ timer' \in Times /\ errors' \in 0..MaxErrors
  <2>1. CASE \E w \in Writes : CutShort(w[1], w[2])
    BY <2>1, BoundsAssumption DEF CutShort, TypeOK, Times
  <2>2. CASE Collect(Reported, Built)
    BY <2>2 DEF Collect, TypeOK, Times, NoTime
  <2>3. CASE Keep(Reported, Built)
    <3>1. RequeueInterval(Reported) \in Int
      <4>1. GetGCTime(Reported) \in Int
        BY ReportedType, ResolvedType DEF GetGCTime, Csl, Times, NoTime
      <4>2. QED
        BY <4>1, DelaysAssumption DEF RequeueInterval, TypeOK
    <3>2. QED
      BY <2>3, <3>1 DEF Keep, RequeueAfter, Sooner, TypeOK, Times, NoTime
  <2>4. QED
    BY <1>1, <2>1, <2>2, <2>3
<1>6. first' \in Templates /\ cut' \in Int
  <2>1. csl.timeout \in Int /\ Resolved.timeout \in Int
    BY ResolvedType DEF TypeOK, CslType, Csl
  <2>2. QED
    BY <1>2, <2>1 DEF Histories, TypeOK
<1>7. CslType' /\ JobType'
  BY <1>2, <1>3, <1>4 DEF CslType, JobType, Csl, Job, TypeOK, Times
<1>8. \A t \in {job'.created, job'.started, job'.completion, ended', queuedAt'} : t <= now'
  BY <1>2, <1>4, <1>5 DEF TypeOK, NoTime
<1>9. QED
  BY <1>2, <1>3, <1>5, <1>6, <1>7, <1>8 DEF TypeOK, cluster

\* Each step but a reconciliation, with what it leaves alone.
Others == Requeue \/ Authorise \/ EditTemplate \/ Kubernetes \/ Tick \/ Collected

LEMMA TypeOthers == TypeOK /\ Others => TypeOK'
<1> SUFFICES ASSUME TypeOK, Others PROVE TypeOK'
  OBVIOUS
<1> USE DEF cluster, kubernetes, queue, history
<1>1. /\ job \in Job /\ now \in Nat /\ ended \in Times /\ jobBy \in Times
      /\ queuedAt \in Times /\ queuedAt <= now
      /\ job.created <= now /\ job.started <= now /\ job.completion <= now /\ ended <= now
  BY DEF TypeOK, JobType, Job
<1>2. now \in Times /\ (Enqueue => queuedAt' \in Times /\ queuedAt' <= now)
  BY <1>1 DEF Enqueue, Times
<1>3. UNCHANGED <<csl, errors, request, first, cut>>
  BY DEF Others, Requeue, Authorise, EditTemplate, Kubernetes, StartJob, StartPod, EndSession,
         FinishJob, JobDeadline, DeleteJob, Tick, Collected, vars
<1>4. ASSUME NEW j \in Job, NEW e \in Times, NEW b \in Times,
             job' = j, ended' = e, jobBy' = b, now' = now, UNCHANGED <<tpl, edits, authorised, timer>>,
             session' \in {"none", "pending", "running", "ended"},
             j.created <= now, j.started <= now, j.completion <= now, e <= now,
             queuedAt' \in Times, queuedAt' <= now
      PROVE  TypeOK'
  <2>1. CslType' /\ JobType'
    BY <1>3, <1>4 DEF TypeOK, CslType, JobType, Job, Times
  <2>2. QED
    BY <1>3, <1>4, <2>1 DEF TypeOK
<1>5. CASE Requeue
  BY <1>1, <1>2, <1>3, <1>5 DEF Requeue, TypeOK, CslType, JobType, Times
<1>6. CASE Authorise
  BY <1>1, <1>2, <1>3, <1>6 DEF Authorise, TypeOK, CslType, JobType, Times
<1>7. CASE EditTemplate
  <2>1. edits' \in 0..MaxEdits /\ tpl' \in Templates
    BY <1>7, BoundsAssumption DEF EditTemplate, TypeOK
  <2>2. QED
    BY <1>1, <1>3, <1>7, <2>1 DEF EditTemplate, TypeOK, CslType, JobType, Times
<1>8. CASE StartJob
  <2>1. job' \in Job /\ job'.created <= now /\ job'.started <= now /\ job'.completion <= now
    BY <1>1, <1>2, <1>8 DEF StartJob, Job
  <2>2. EndBy(now, job.deadline) \in Times
    BY <1>1, DelaysAssumption DEF EndBy, Job, Times
  <2>3. QED
    BY <1>1, <1>2, <1>4, <1>8, <2>1, <2>2 DEF StartJob
<1>9. CASE StartPod
  BY <1>1, <1>4, <1>9 DEF StartPod
<1>10. CASE EndSession
  <2>1. now + Lag \in Times
    BY <1>1, DelaysAssumption DEF Times
  <2>2. QED
    BY <1>1, <1>2, <1>4, <1>10, <2>1 DEF EndSession
<1>11. CASE FinishJob
  <2>1. job' \in Job /\ job'.created <= now /\ job'.started <= now /\ job'.completion <= now
    <3>1. CASE job' = [job EXCEPT !.condition = "complete", !.completion = now]
      <4>1. job' \in Job
        BY <1>1, <1>2, <3>1 DEF Job
      <4>2. job'.created = job.created /\ job'.started = job.started /\ job'.completion = now
        BY <1>1, <3>1 DEF Job
      <4>3. QED
        BY <1>1, <4>1, <4>2
    <3>2. CASE job' = [job EXCEPT !.condition = "failed"]
      BY <1>1, <3>2 DEF Job
    <3>3. QED
      BY <1>11, <3>1, <3>2 DEF FinishJob
  <2>2. QED
    BY <1>1, <1>2, <1>4, <1>11, <2>1 DEF FinishJob, TypeOK, JobType, Times
<1>12. CASE JobDeadline
  <2>1. job' \in Job /\ job'.created <= now /\ job'.started <= now /\ job'.completion <= now
    BY <1>1, <1>12 DEF JobDeadline, Job
  <2>2. /\ ended' = now /\ jobBy' = NoTime /\ session' = "ended" /\ NoTime \in Times
        /\ UNCHANGED <<now, tpl, edits, authorised, timer>>
        /\ queuedAt' \in Times /\ queuedAt' <= now
    BY <1>2, <1>12 DEF JobDeadline, Times
  <2>3. QED
    BY <1>1, <1>2, <1>4, <2>1, <2>2
<1>13. CASE DeleteJob
  <2>1. NoJob \in Job /\ NoJob.created <= now /\ NoJob.started <= now /\ NoJob.completion <= now
    BY <1>1 DEF NoJob, Job, Times, NoTime
  <2>2. session' \in {"none", "pending", "running", "ended"} /\ ended' \in {now, ended}
    BY <1>13 DEF DeleteJob, TypeOK, JobType
  <2>3. /\ job' = NoJob /\ jobBy' = NoTime /\ NoTime \in Times
        /\ UNCHANGED <<now, tpl, edits, authorised, timer>>
        /\ queuedAt' \in Times /\ queuedAt' <= now
    BY <1>2, <1>13 DEF DeleteJob, Times
  <2>4. QED
    BY <1>1, <1>2, <1>4, <2>1, <2>2, <2>3
<1>14. CASE Tick
  <2>1. now' \in Nat /\ now <= now'
    BY <1>1, <1>14 DEF Tick
  <2>2. CslType' /\ JobType'
    BY <1>3, <1>14 DEF Tick, TypeOK, CslType, JobType, Times
  <2>3. \A t \in {job', ended', queuedAt'} : t \in {job, ended, queuedAt}
    BY <1>14 DEF Tick
  <2>4. /\ job'.created <= now' /\ job'.started <= now' /\ job'.completion <= now'
        /\ ended' <= now' /\ queuedAt' <= now'
    BY <1>1, <1>14, <2>1 DEF Tick, Job, Times, NoTime
  <2>5. QED
    BY <1>3, <1>14, <2>1, <2>2, <2>4 DEF Tick, TypeOK
<1>15. CASE Collected
  BY <1>3, <1>15 DEF Collected, vars, TypeOK, CslType, JobType, Times
<1>16. QED
  BY <1>5, <1>6, <1>7, <1>8, <1>9, <1>10, <1>11, <1>12, <1>13, <1>14, <1>15
     DEF Others, Kubernetes

\* Every variable keeps its type, the TTLs that are dereferenced are set, and no time is
\* recorded that is still to come, for whatever templates and requests.
THEOREM TypeCorrect == Spec => []TypeOK
<1>1. TypeOK /\ UNCHANGED vars => TypeOK'
  BY DEF TypeOK, CslType, JobType, Times, vars, cluster, kubernetes, queue, history
<1>2. TypeOK /\ [Next]_vars => TypeOK'
  BY <1>1, TypeReconcile, TypeOthers DEF Next, Others
<1>3. QED
  BY TypeInit, <1>2, PTL DEF Spec
-----------------------------------------------------------------------------
(* What a reconciliation writes *)

LEMMA Writes ==
  ASSUME TypeOK, Reconcile
  PROVE  /\ csl.exists /\ UNCHANGED <<now, tpl, edits, authorised, request, session>>
         /\ Histories(Resolved) /\ PutsJob(job')
         /\ \/ csl' = Resolved /\ job' \in {job, Built} /\ CutShort(csl', job')
            \/ csl' = Reported /\ job' = Built /\ CutShort(csl', job')
            \/ csl' = Reported /\ job' = Built /\ Keep(Reported, Built)
            \/ ~csl'.exists /\ job' = Built /\ Collect(Reported, Built)
<1>1. /\ csl.exists /\ UNCHANGED <<now, cluster>> /\ Histories(Resolved)
      /\ \/ CutShort(Resolved, job) \/ CutShort(Resolved, Built) \/ CutShort(Reported, Built)
         \/ Collect(Reported, Built) \/ Keep(Reported, Built)
  BY DEF Reconcile, Resolved, Built, Reported
<1>2. UNCHANGED <<request, session>> /\ PutsJob(job')
  BY <1>1 DEF Histories, CutShort, Collect, Keep, PutsJob
<1>3. Collect(Reported, Built) => ~csl'.exists /\ job' = Built
  BY ReportedType DEF Collect, PutsJob, Csl
<1>4. /\ Keep(Reported, Built) => csl' = Reported /\ job' = Built
      /\ CutShort(Resolved, job) => csl' = Resolved /\ job' = job
      /\ CutShort(Resolved, Built) => csl' = Resolved /\ job' = Built
      /\ CutShort(Reported, Built) => csl' = Reported /\ job' = Built
  BY DEF Keep, CutShort, PutsJob
<1>5. QED
  BY <1>1, <1>2, <1>3, <1>4 DEF cluster

-----------------------------------------------------------------------------
(* The console's spec, and how its session goes *)

\* What was not asked for is filled in once, and stays.
Specified ==
  IF csl.owned
  THEN csl.ttlBefore = TTLBefore /\ csl.ttlAfter = TTLAfter
  ELSE /\ csl.timeout = request.timeout
       /\ csl.ttlBefore = request.ttlBefore /\ csl.ttlAfter = request.ttlAfter

\* A job is made of an owned, authorised console and has one condition at its end.
Sessions ==
  /\ job.exists => csl.owned /\ authorised /\ job.created # NoTime
  /\ ~job.exists => job = NoJob /\ jobBy = NoTime /\ session = "none"
  /\ session # "ended" => job.condition = "none"
  /\ job.completion # NoTime => job.condition = "complete" /\ ended <= job.completion
  /\ ~PendingJob(csl) => authorised /\ csl.owned

\* The Job controller has seen a job, and ended its session, when it should have.
Prompt ==
  /\ jobBy # NoTime => now <= jobBy
  /\ job.exists /\ session = "none" => jobBy = job.created + Lag /\ ended = NoTime
  /\ session \in {"pending", "running"} =>
       /\ job.created <= job.started /\ job.started <= job.created + Lag
       /\ jobBy # NoTime /\ ended = NoTime

SessionsInv == csl.exists => Specified /\ Sessions /\ Prompt

LEMMA SpecifiedReconcile ==
  ASSUME TypeOK, Specified, Reconcile
  PROVE  /\ Resolved.ttlBefore = TTLBefore' /\ Resolved.ttlAfter = TTLAfter'
         /\ csl'.exists => Specified'
<1>1. /\ request' = request /\ first' = IF csl.owned THEN first ELSE tpl
  BY Writes DEF Histories
<1>2. /\ Resolved.ttlBefore = Default(csl.ttlBefore, tpl.ttlBefore, DefaultTTLBeforeRunning)
      /\ Resolved.ttlAfter = Default(csl.ttlAfter, tpl.ttlAfter, DefaultTTLAfterFinished)
  BY ResolvedType
<1>3. csl.owned => csl.ttlBefore # Unset /\ csl.ttlAfter # Unset
  BY DEF TypeOK
<1>4. Resolved.ttlBefore = TTLBefore' /\ Resolved.ttlAfter = TTLAfter'
  BY <1>1, <1>2, <1>3 DEF Specified, TTLBefore, TTLAfter, Default
<1>5. csl'.exists => csl' \in {Resolved, Reported}
  BY Writes
<1>6. ASSUME csl'.exists
      PROVE  csl'.owned /\ csl'.ttlBefore = Resolved.ttlBefore /\ csl'.ttlAfter = Resolved.ttlAfter
  <2>1. CASE csl' = Resolved
    BY <2>1, ResolvedType
  <2>2. CASE csl' = Reported
    BY <2>2, ReportedType
  <2>3. QED
    BY <1>5, <1>6, <2>1, <2>2
<1>7. csl'.exists => Specified'
  BY <1>4, <1>6 DEF Specified
<1>8. QED
  BY <1>4, <1>7

\* The job after a reconciliation: the one before, with a deadline, or a new one.
LEMMA JobAfter ==
  ASSUME TypeOK, Reconcile
  PROVE  /\ job' \in Job /\ job'.deadline \in {job.deadline, Resolved.timeout}
         /\ \/ /\ job.exists /\ job'.exists /\ job'.created = job.created
               /\ job'.started = job.started /\ job'.condition = job.condition
               /\ job'.completion = job.completion
               /\ ended' = ended
            \/ /\ ~job.exists /\ authorised /\ PendingJob(csl)
               /\ job'.exists /\ job'.created = now /\ job'.started = NoTime
               /\ job'.condition = "none" /\ job'.completion = NoTime
               /\ job'.deadline = Resolved.timeout
               /\ jobBy' = now + Lag /\ ended' = NoTime
            \/ ~job.exists /\ job' = job /\ ended' = ended
<1>1. job \in Job
  BY DEF TypeOK, JobType, Job
<1>2. job' \in {job, Built} /\ PutsJob(job')
  BY Writes
<1>3. CASE job.exists
  <2>1. job' \in {job, [job EXCEPT !.deadline = Resolved.timeout]}
    BY <1>2, <1>3, BuiltType
  <2>2. ended' = ended
    BY <1>2, <1>3 DEF PutsJob
  <2>3. QED
    BY <1>1, <1>2, <1>3, <2>1, <2>2, BuiltType DEF Job
<1>4. CASE ~job.exists
  <2>1. CASE job' = job
    BY <1>1, <1>2, <1>4, <2>1 DEF PutsJob
  <2>2. CASE job' # job
    <3>1. /\ job' = Built /\ authorised /\ PendingJob(csl)
          /\ job' = [NoJob EXCEPT !.exists = TRUE, !.created = now, !.deadline = Resolved.timeout]
      BY <1>2, <1>4, <2>2, BuiltType
    <3>2. job' = [exists |-> TRUE, created |-> now, deadline |-> Resolved.timeout,
                  started |-> NoTime, condition |-> "none", completion |-> NoTime]
      BY <3>1 DEF NoJob
    <3>3. jobBy' = now + Lag /\ ended' = NoTime
      BY <1>2, <1>4, <3>2 DEF PutsJob
    <3>4. /\ job'.exists /\ job'.created = now /\ job'.started = NoTime
          /\ job'.condition = "none" /\ job'.completion = NoTime
          /\ job'.deadline = Resolved.timeout
      BY <3>2
    <3>5. job' \in Job
      BY <3>1, BuiltType
    <3>6. QED
      BY <1>4, <3>1, <3>3, <3>4, <3>5
  <2>3. QED
    BY <2>1, <2>2
<1>5. QED
  BY <1>3, <1>4

LEMMA SessionsReconcile ==
  ASSUME TypeOK, SessionsInv, Reconcile, csl'.exists
  PROVE  Sessions' /\ Prompt'
<1>1. Sessions /\ Prompt /\ csl.exists
  BY Writes DEF SessionsInv
<1>2. /\ now \in Nat /\ now' = now /\ session' = session /\ authorised' = authorised
      /\ job \in Job /\ job' \in Job /\ Lag \in Nat
      /\ jobBy \in Times /\ ended \in Times
  BY Writes, JobAfter, DelaysAssumption DEF TypeOK, JobType, Job
<1>3. csl'.owned /\ (PendingJob(csl') => PendingJob(csl) \/ ~authorised)
      /\ (~PendingJob(csl') => authorised)
  <2>1. CASE csl' = Resolved
    BY <1>1, <2>1, ResolvedType DEF PendingJob, Sessions
  <2>2. CASE csl' = Reported
    BY <2>2, ReportedType DEF PendingJob, calculatePhase
  <2>3. QED
    BY <2>1, <2>2, Writes
<1>4. Sessions'
  <2>1. ~job'.exists => job' = NoJob /\ jobBy' = NoTime /\ session' = "none"
    <3> SUFFICES ASSUME ~job'.exists PROVE job' = NoJob /\ jobBy' = NoTime /\ session' = "none"
      OBVIOUS
    <3>1. ~job.exists /\ job' = job /\ session = "none" /\ jobBy = NoTime
      BY <1>1, JobAfter DEF Sessions
    <3>2. QED
      BY <1>1, <1>2, <3>1, Writes DEF PutsJob, Sessions
  <2>2. QED
    BY <1>1, <1>2, <1>3, <2>1, JobAfter DEF Sessions, NoTime
<1>5. Prompt'
  <2>1. CASE ~job.exists /\ job'.exists
    <3>1. jobBy' = now + Lag /\ ended' = NoTime /\ job'.created = now /\ session = "none"
      BY <1>1, <2>1, JobAfter DEF Sessions
    <3>2. QED
      BY <1>2, <3>1 DEF Prompt
  <2>2. CASE ~job.exists /\ ~job'.exists
    <3>1. job' = job /\ session = "none" /\ jobBy' = NoTime
      BY <1>1, <1>4, <2>2 DEF Sessions
    <3>2. QED
      BY <1>2, <2>2, <3>1 DEF Prompt
  <2>3. CASE job.exists /\ session \in {"pending", "running"}
    <3>1. jobBy' \in {jobBy, EndBy(job'.started, job'.deadline)} /\ ended' = ended
      BY <2>3, Writes, JobAfter DEF PutsJob
    <3>2. EndBy(job'.started, job'.deadline) \in Nat /\ now <= EndBy(job'.started, job'.deadline)
      BY <1>1, <1>2, <2>3, JobAfter DEF EndBy, Job, Prompt, Sessions, Times, NoTime
    <3>3. QED
      BY <1>1, <1>2, <2>3, <3>1, <3>2, JobAfter DEF Prompt, NoTime
  <2>4. CASE job.exists /\ session \notin {"pending", "running"}
    <3>1. jobBy' = jobBy /\ ended' = ended
      BY <2>4, Writes, JobAfter DEF PutsJob
    <3>2. QED
      BY <1>1, <1>2, <2>4, <3>1, JobAfter DEF Prompt
  <2>5. QED
    BY <2>1, <2>2, <2>3, <2>4, JobAfter
<1>6. QED
  BY <1>4, <1>5

LEMMA SessionsInit == Init => SessionsInv
<1> SUFFICES ASSUME Init PROVE Specified /\ Sessions /\ Prompt
  BY DEF SessionsInv
<1>1. Specified
  BY DEF Init, Specified
<1>2. Sessions /\ Prompt
  BY DEF Init, Sessions, Prompt, NoJob, NoTime, PendingJob
<1>3. QED
  BY <1>1, <1>2

\* What a step other than a reconciliation may do to a job that is there.
LEMMA JobSteps ==
  ASSUME TypeOK
  PROVE  /\ StartJob =>
              /\ job.exists /\ session = "none" /\ session' = "pending"
              /\ job' \in Job /\ job'.exists /\ job'.created = job.created
              /\ job'.started = now /\ job'.condition = job.condition
              /\ job'.completion = job.completion /\ job'.deadline = job.deadline
              /\ jobBy' = EndBy(now, job.deadline) /\ EndBy(now, job.deadline) = now + job.deadline + Lag
         /\ FinishJob =>
              /\ job.exists /\ session = "ended" /\ session' = "ended" /\ jobBy' = NoTime
              /\ job' \in Job /\ job'.exists /\ job'.created = job.created
              /\ job'.started = job.started /\ job'.deadline = job.deadline
              /\ job.condition = "none"
              /\ \/ job'.condition = "complete" /\ job'.completion = now
                 \/ job'.condition = "failed" /\ job'.completion = job.completion
         /\ JobDeadline =>
              /\ job.exists /\ session \in {"pending", "running"} /\ session' = "ended"
              /\ job' \in Job /\ job'.exists /\ job'.created = job.created
              /\ job'.started = job.started /\ job'.deadline = job.deadline
              /\ job'.condition = "failed" /\ job'.completion = job.completion
              /\ now >= job.started + job.deadline /\ ended' = now /\ jobBy' = NoTime
         /\ DeleteJob =>
              /\ job.exists /\ job' = NoJob /\ ~job'.exists /\ job'.condition = "none"
              /\ job'.completion = NoTime /\ jobBy' = NoTime /\ session' = "none"
              /\ ended' = IF session \in {"none", "ended"} THEN ended ELSE now
<1>1. job \in Job /\ now \in Nat /\ Lag \in Nat /\ now \in Times
      /\ session \in {"none", "pending", "running", "ended"}
  BY DelaysAssumption DEF TypeOK, JobType, Job, Times
<1>2. EndBy(now, job.deadline) = now + job.deadline + Lag
  BY <1>1 DEF EndBy, Job
<1>3. ASSUME StartJob
      PROVE  /\ job' \in Job /\ job'.exists /\ job'.created = job.created
             /\ job'.started = now /\ job'.condition = job.condition
             /\ job'.completion = job.completion /\ job'.deadline = job.deadline
  BY <1>1, <1>3 DEF StartJob, Job
<1>4. ASSUME FinishJob
      PROVE  /\ job' \in Job /\ job'.exists /\ job'.created = job.created
             /\ job'.started = job.started /\ job'.deadline = job.deadline
             /\ \/ job'.condition = "complete" /\ job'.completion = now
                \/ job'.condition = "failed" /\ job'.completion = job.completion
  BY <1>1, <1>4 DEF FinishJob, Job
<1>5. ASSUME JobDeadline
      PROVE  /\ job' \in Job /\ job'.exists /\ job'.created = job.created
             /\ job'.started = job.started /\ job'.deadline = job.deadline
             /\ job'.condition = "failed" /\ job'.completion = job.completion
  BY <1>1, <1>5 DEF JobDeadline, Job
<1>6. /\ StartJob => /\ job.exists /\ session = "none" /\ session' = "pending"
                     /\ jobBy' = EndBy(now, job.deadline)
      /\ FinishJob => /\ job.exists /\ session = "ended" /\ session' = session
                      /\ jobBy' = NoTime /\ job.condition = "none"
      /\ JobDeadline => /\ job.exists /\ session \in {"pending", "running"} /\ session' = "ended"
                        /\ now >= job.started + job.deadline /\ ended' = now /\ jobBy' = NoTime
  BY DEF StartJob, FinishJob, JobDeadline
<1>7. ASSUME DeleteJob
      PROVE  /\ job.exists /\ job' = NoJob /\ ~job'.exists /\ job'.condition = "none"
             /\ job'.completion = NoTime /\ jobBy' = NoTime /\ session' = "none"
             /\ ended' = IF session \in {"none", "ended"} THEN ended ELSE now
  BY <1>1, <1>7 DEF DeleteJob, NoJob
<1>8. QED
  BY <1>2, <1>3, <1>4, <1>5, <1>6, <1>7

\* No step but a reconciliation writes the console, or takes an authorisation back.
LEMMA OthersLeave ==
  ASSUME Others
  PROVE  /\ csl' = csl /\ request' = request /\ first' = first /\ cut' = cut
         /\ errors' = errors /\ (authorised => authorised')
         /\ \/ StartJob \/ StartPod \/ EndSession \/ FinishJob \/ JobDeadline \/ DeleteJob
            \/ UNCHANGED <<job, jobBy, session, ended>>
         /\ ~Tick => now' = now
BY DEF Others, Requeue, Authorise, EditTemplate, Kubernetes, StartJob, StartPod, EndSession,
       FinishJob, JobDeadline, DeleteJob, Tick, Collected, vars, cluster, kubernetes, queue, history

LEMMA SessionsOthers == TypeOK /\ SessionsInv /\ Others => SessionsInv'
<1> SUFFICES ASSUME TypeOK, SessionsInv, Others, csl.exists
             PROVE  Specified' /\ Sessions' /\ Prompt'
  BY OthersLeave DEF SessionsInv
<1>1. Specified /\ Sessions /\ Prompt
  BY DEF SessionsInv
<1>2. /\ job \in Job /\ now \in Nat /\ Lag \in Nat /\ jobBy \in Times /\ ended \in Times
      /\ session \in {"none", "pending", "running", "ended"} /\ ended <= now
  BY DelaysAssumption DEF TypeOK, JobType, Job
<1>3. Specified'
  BY <1>1, OthersLeave DEF Specified, TTLBefore, TTLAfter
<1>4. UNCHANGED csl /\ (authorised => authorised')
  BY OthersLeave
<1>5. CASE StartJob
  <2>1. now' = now /\ ended' = ended
    BY <1>5 DEF StartJob
  <2>2. QED
    <3>1. jobBy' \in Nat /\ now <= jobBy' /\ now \in Nat /\ job.deadline \in Nat
      BY <1>2, <1>5, JobSteps DEF Job
    <3>2. jobBy = job.created + Lag /\ now <= jobBy /\ ended = NoTime
      BY <1>1, <1>2, <1>5, JobSteps DEF Prompt, Sessions, Job, Times, NoTime
    <3>3. Prompt'
      BY <1>2, <1>5, <2>1, <3>1, <3>2, JobSteps DEF Prompt, Job, Times, NoTime, TypeOK
    <3>4. Sessions'
      BY <1>1, <1>4, <1>5, <2>1, <3>2, JobSteps DEF Sessions, PendingJob
    <3>5. QED
      BY <1>3, <3>3, <3>4
<1>6. CASE StartPod
  BY <1>1, <1>2, <1>3, <1>4, <1>6 DEF StartPod, Sessions, Prompt, PendingJob
<1>7. CASE EndSession
  BY <1>1, <1>2, <1>3, <1>4, <1>7 DEF EndSession, Sessions, Prompt, PendingJob, NoTime
<1>8. CASE FinishJob
  <2>1. now' = now /\ ended' = ended
    BY <1>8 DEF FinishJob
  <2>2. QED
    BY <1>1, <1>2, <1>3, <1>4, <1>8, <2>1, JobSteps DEF Sessions, Prompt, PendingJob, NoTime
<1>9. CASE JobDeadline
  <2>1. now' = now
    BY <1>9 DEF JobDeadline
  <2>2. QED
    BY <1>1, <1>2, <1>3, <1>4, <1>9, <2>1, JobSteps DEF Sessions, Prompt, PendingJob, NoTime
<1>10. CASE DeleteJob
  <2>1. now' = now
    BY <1>10 DEF DeleteJob
  <2>2. QED
    BY <1>1, <1>2, <1>3, <1>4, <1>10, <2>1, JobSteps DEF Sessions, Prompt, PendingJob, NoTime
<1>11. CASE UNCHANGED <<job, jobBy, session, ended>>
  <2>1. now' = now \/ (now' = now + 1 /\ (jobBy # NoTime => now < jobBy))
    BY OthersLeave DEF Tick
  <2>2. QED
    BY <1>1, <1>2, <1>3, <1>4, <1>11, <2>1 DEF Sessions, Prompt, PendingJob, Times, NoTime
<1>12. QED
  BY <1>5, <1>6, <1>7, <1>8, <1>9, <1>10, <1>11, OthersLeave

LEMMA SessionsNext == TypeOK /\ SessionsInv /\ [Next]_vars => SessionsInv'
<1>1. SessionsInv /\ UNCHANGED vars => SessionsInv'
  BY DEF SessionsInv, Specified, Sessions, Prompt, PendingJob, TTLBefore, TTLAfter,
         vars, cluster, kubernetes, queue, history
<1>2. TypeOK /\ SessionsInv /\ Reconcile => SessionsInv'
  <2> SUFFICES ASSUME TypeOK, SessionsInv, Reconcile, csl'.exists
               PROVE  Specified' /\ Sessions' /\ Prompt'
    BY DEF SessionsInv
  <2>1. Specified
    BY Writes DEF SessionsInv
  <2>2. QED
    BY <2>1, SpecifiedReconcile, SessionsReconcile
<1>3. QED
  BY <1>1, <1>2, SessionsOthers DEF Next, Others
-----------------------------------------------------------------------------
(* The expiry that is shown *)

\* While nothing is left to be reconciled, the deadline is the expiry, counted from the
\* job's creation.
Shown ==
  csl.exists /\ job.exists /\ queuedAt = NoTime =>
    csl.expiry = job.created + job.deadline /\ job.deadline = csl.timeout

LEMMA ShownReconcile == TypeOK /\ Reconcile => Shown'
<1> SUFFICES ASSUME TypeOK, Reconcile, csl'.exists, job'.exists, queuedAt' = NoTime
             PROVE  csl'.expiry = job'.created + job'.deadline /\ job'.deadline = csl'.timeout
  BY DEF Shown
<1>1. now \in Nat /\ now # NoTime
  BY DEF TypeOK, NoTime
<1>2. csl' = Reported /\ job' = Built /\ Keep(Reported, Built)
  BY <1>1, Writes DEF CutShort
<1>3. ~(Reported # csl \/ Built # job)
  BY <1>1, <1>2 DEF Keep, RequeueAfter
<1>4. job.exists /\ Built.deadline = Resolved.timeout /\ Built = job
  BY <1>2, <1>3, BuiltType DEF Job
<1>5. QED
  BY <1>2, <1>4, ReportedType, BuiltType

LEMMA ShownOthers == TypeOK /\ Shown /\ Others => Shown'
<1> SUFFICES ASSUME TypeOK, Shown, Others PROVE Shown'
  OBVIOUS
<1> USE DEF cluster, kubernetes, queue, history
<1>1. now \in Nat /\ now # NoTime /\ job \in Job
  BY DEF TypeOK, JobType, Job, NoTime
<1>2. Enqueue => queuedAt' # NoTime
  BY <1>1 DEF Enqueue
<1>3. CASE Enqueue
  BY <1>2, <1>3 DEF Shown
<1>4. CASE UNCHANGED <<csl, job, queuedAt>>
  BY <1>4 DEF Shown
<1>5. QED
  BY <1>3, <1>4 DEF Others, Requeue, Authorise, EditTemplate, Kubernetes, StartJob, StartPod,
     EndSession, FinishJob, JobDeadline, DeleteJob, Tick, Collected, vars

\* The expiry that the console shows is up to one delay of the Job controller before the
\* deadline of its session, for any templates, delays and failures.
THEOREM ExpiryIsShown == Spec => []ShownExpiry
<1>1. Init => Shown
  BY DEF Init, Shown, NoJob
<1>2. Shown /\ UNCHANGED vars => Shown'
  BY DEF Shown, vars, kubernetes, queue
<1>3. TypeOK /\ Shown /\ [Next]_vars => Shown'
  BY <1>2, ShownReconcile, ShownOthers DEF Next, Others
<1>4. TypeOK /\ SessionsInv /\ Shown => ShownExpiry
  <2> SUFFICES ASSUME TypeOK, SessionsInv, Shown, csl.exists, session \in {"pending", "running"},
                      queuedAt = NoTime
               PROVE  \E delay \in 0..Lag : csl.expiry + delay = job.started + job.deadline
    BY DEF ShownExpiry
  <2>1. /\ job.exists /\ csl.expiry = job.created + job.deadline
        /\ job.created <= job.started /\ job.started <= job.created + Lag
    BY DEF SessionsInv, Sessions, Prompt, Shown
  <2>2. /\ job.created \in Int /\ job.started \in Int /\ job.deadline \in Int /\ Lag \in Nat
    BY DelaysAssumption DEF TypeOK, JobType, Times, NoTime
  <2>3. job.started - job.created \in 0..Lag
    BY <2>1, <2>2
  <2>4. csl.expiry + (job.started - job.created) = job.started + job.deadline
    BY <2>1, <2>2
  <2>5. QED
    BY <2>3, <2>4
<1>5. QED
  BY <1>1, <1>3, <1>4, TypeInit, SessionsInit, TypeCorrect, SessionsNext, PTL DEF Spec
-----------------------------------------------------------------------------
(* The session gets its time *)

\* An owned console's timeout only ever falls, and its job's deadline follows it.
Granting ==
  /\ csl.owned => csl.timeout > 0
  /\ job.exists => csl.timeout <= job.deadline

GrantInv == csl.exists => Granting

LEMMA GrantInit == Init => GrantInv
BY DEF Init, GrantInv, Granting, NoJob

LEMMA GrantReconcile ==
  ASSUME PositiveTimeouts, TypeOK, SessionsInv, GrantInv, Reconcile, csl'.exists
  PROVE  Granting'
<1>1. csl.exists /\ Granting /\ Sessions
  BY Writes DEF GrantInv, SessionsInv
<1>2. csl \in Csl /\ job \in Job /\ tpl.default \in Nat /\ tpl.max \in Nat
      /\ tpl.default > 0 /\ tpl.max > 0
  BY TemplatesAssumption DEF TypeOK, CslType, Csl, JobType, Job, Template, PositiveTimeouts
<1>3. /\ Resolved.timeout \in Nat /\ Resolved.timeout > 0
      /\ csl.owned => Resolved.timeout <= csl.timeout
  BY <1>1, <1>2, ResolvedType DEF Granting, Csl
<1>4. csl'.timeout = Resolved.timeout
  BY Writes, ReportedType, ResolvedType
<1>5. job'.exists => Resolved.timeout <= job'.deadline
  <2>1. CASE job.exists
    BY <1>1, <1>2, <1>3, <2>1, JobAfter DEF Granting, Sessions, Job, Csl
  <2>2. CASE ~job.exists
    BY <1>3, <2>2, JobAfter
  <2>3. QED
    BY <2>1, <2>2
<1>6. QED
  BY <1>3, <1>4, <1>5 DEF Granting

LEMMA GrantNext ==
  PositiveTimeouts => (TypeOK /\ SessionsInv /\ GrantInv /\ [Next]_vars => GrantInv')
<1>1. ASSUME GrantInv, UNCHANGED <<csl, job>>
      PROVE  GrantInv'
  BY <1>1 DEF GrantInv, Granting
<1>2. ASSUME TypeOK, GrantInv, Others
      PROVE  GrantInv'
  <2>1. UNCHANGED csl
    BY <1>2, OthersLeave
  <2>2. CASE StartJob \/ FinishJob \/ JobDeadline \/ DeleteJob
    BY <1>2, <2>1, <2>2, JobSteps DEF GrantInv, Granting
  <2>3. CASE StartPod \/ EndSession \/ UNCHANGED job
    BY <1>1, <1>2, <2>1, <2>3 DEF StartPod, EndSession
  <2>4. QED
    BY <1>2, <2>2, <2>3, OthersLeave
<1>3. ASSUME PositiveTimeouts, TypeOK, SessionsInv, GrantInv, Reconcile
      PROVE  GrantInv'
  BY <1>3, GrantReconcile DEF GrantInv
<1>4. QED
  BY <1>1, <1>2, <1>3 DEF Next, Others, vars, kubernetes

\* A session is not ended by its deadline before it has had the timeout that its console has
\* by then, whatever that was cut to under it and wherever reconciliations fail.
THEOREM TimeIsGiven ==
  ASSUME PositiveTimeouts
  PROVE  Spec => SessionGetsItsTime
<1>1. ASSUME TypeOK, SessionsInv, GrantInv, [Next]_vars,
             job'.condition = "failed", session \in {"pending", "running"}, ~UNCHANGED vars
      PROVE  now >= job.created + csl.timeout
  <2>1. csl.exists
    BY <1>1 DEF Next, Kubernetes, Reconcile, Requeue, Authorise, EditTemplate, StartJob, StartPod,
                EndSession, FinishJob, JobDeadline, DeleteJob, Tick, Collected
  <2>2. Sessions /\ Prompt /\ Granting
    BY <1>1, <2>1 DEF SessionsInv, GrantInv
  <2>3. job.exists /\ job.condition = "none"
    BY <1>1, <2>2 DEF Sessions
  <2>4. ~Reconcile
    BY <1>1, <2>3, JobAfter
  <2>5. JobDeadline
    <3>1. Others
      BY <1>1, <2>4 DEF Next, Others
    <3>2. ~FinishJob /\ ~StartJob /\ ~DeleteJob
      BY <1>1, JobSteps
    <3>3. StartPod \/ EndSession => job' = job
      BY DEF StartPod, EndSession
    <3>4. QED
      BY <1>1, <2>3, <3>1, <3>2, <3>3, OthersLeave
  <2>6. now >= job.started + job.deadline
    BY <1>1, <2>5, JobSteps
  <2>7. job.created <= job.started /\ csl.timeout <= job.deadline
    BY <1>1, <2>2, <2>3 DEF Prompt, Granting
  <2>8. /\ now \in Int /\ job.started \in Int /\ job.created \in Int
        /\ job.deadline \in Int /\ csl.timeout \in Int
    BY <1>1 DEF TypeOK, JobType, CslType, Times, NoTime
  <2>9. QED
    BY <2>6, <2>7, <2>8
<1>2. TypeOK /\ SessionsInv /\ GrantInv /\ [Next]_vars =>
        [job'.condition = "failed" /\ session \in {"pending", "running"} =>
           now >= job.created + csl.timeout]_vars
  BY <1>1
<1>3. TypeOK /\ SessionsInv /\ GrantInv /\ [Next]_vars => GrantInv'
  BY GrantNext
<1>4. QED
  BY <1>2, <1>3, TypeInit, SessionsInit, GrantInit, TypeCorrect, SessionsNext, PTL
     DEF Spec, SessionGetsItsTime
-----------------------------------------------------------------------------
(* Never collected early *)

\* The session does not outlast the expiry by more than the timeout was cut under it and
\* two delays.
WithinExpiry ==
  /\ cut \in Nat
  /\ job.exists => job.deadline <= csl.timeout + cut
  /\ session \in {"pending", "running"} => jobBy <= job.created + csl.timeout + cut + 2 * Lag
  /\ session = "ended" => ended <= job.created + csl.timeout + cut + 2 * Lag
  /\ ~PendingJob(csl) => /\ ended <= csl.expiry + cut + 2 * Lag
                         /\ job.exists => job.created + csl.timeout <= csl.expiry

\* A completion that is recorded is of the session that has ended last.
Completed ==
  /\ csl.completion # NoTime => ~PendingJob(csl) /\ ended <= csl.completion
  /\ csl.completion # NoTime /\ job.exists => job.condition = "complete"

ExpiryInv == csl.exists => WithinExpiry /\ Completed

LEMMA ExpiryInit == Init => ExpiryInv
BY DEF Init, ExpiryInv, WithinExpiry, Completed, NoJob, NoTime, PendingJob

LEMMA ExpiryReconcile ==
  ASSUME PositiveTimeouts, TypeOK, SessionsInv, GrantInv, ExpiryInv, Reconcile, csl'.exists
  PROVE  WithinExpiry' /\ Completed'
<1>1. Sessions /\ Prompt /\ Granting /\ WithinExpiry /\ Completed /\ csl.exists
  BY Writes DEF SessionsInv, GrantInv, ExpiryInv
<1>2. /\ now \in Nat /\ session' = session /\ job \in Job /\ job' \in Job /\ Lag \in Nat
      /\ jobBy \in Times /\ ended \in Times /\ csl \in Csl /\ Resolved.timeout \in Nat
      /\ job.completion # NoTime => ended <= job.completion /\ job.condition = "complete"
  BY <1>1, Writes, JobAfter, ResolvedType, DelaysAssumption
     DEF TypeOK, JobType, Job, CslType, Csl, Sessions
<1>3. /\ csl'.timeout = Resolved.timeout
      /\ \/ csl' = Resolved /\ csl'.expiry = csl.expiry /\ csl'.completion = csl.completion
            /\ (PendingJob(csl') <=> PendingJob(csl))
         \/ /\ csl' = Reported /\ job' = Built
            /\ csl'.expiry = IF job'.exists THEN job'.created + csl'.timeout ELSE csl.expiry
            /\ csl'.completion = IF job'.exists THEN job'.completion ELSE csl.completion
            /\ (PendingJob(csl') <=> ~authorised)
  <2>1. csl' = Resolved => /\ csl'.expiry = csl.expiry /\ csl'.completion = csl.completion
                          /\ csl'.timeout = Resolved.timeout
                          /\ (PendingJob(csl') <=> PendingJob(csl))
    BY ResolvedType DEF PendingJob
  <2>2. csl' = Reported /\ job' = Built =>
          /\ csl'.timeout = Resolved.timeout
          /\ csl'.expiry = IF job'.exists THEN job'.created + csl'.timeout ELSE csl.expiry
          /\ csl'.completion = IF job'.exists THEN job'.completion ELSE csl.completion
          /\ (PendingJob(csl') <=> ~authorised)
    BY ReportedType DEF PendingJob, calculatePhase
  <2>3. QED
    BY <2>1, <2>2, Writes
<1>4. cut' = IF job.exists THEN cut + (csl.timeout - Resolved.timeout)
             ELSE IF PendingJob(csl) THEN 0 ELSE cut
  BY Writes DEF Histories
<1>5. CASE job.exists
  <2>1. /\ job'.exists /\ job'.created = job.created /\ job'.condition = job.condition
        /\ job'.completion = job.completion /\ ended' = ended /\ authorised
        /\ job.created \in Nat
    BY <1>1, <1>2, <1>5, JobAfter DEF Sessions, Job, Times
  <2>2. Completed'
    <3>1. CASE csl' = Resolved
      BY <1>1, <1>5, <2>1, <3>1, ResolvedType DEF Completed, PendingJob
    <3>2. CASE csl' = Reported /\ job' = Built
      <4>1. csl'.completion = job.completion /\ ~PendingJob(csl')
        BY <2>1, <3>2, ReportedType DEF PendingJob, calculatePhase
      <4>2. QED
        BY <1>2, <2>1, <4>1 DEF Completed, PendingJob
    <3>3. QED
      BY <3>1, <3>2, Writes
  <2>3. /\ csl.timeout \in Nat /\ csl'.timeout \in Nat /\ cut \in Nat
        /\ csl'.timeout <= csl.timeout /\ csl.timeout <= job.deadline
        /\ job.deadline \in Nat /\ job'.deadline \in Nat
    <3>1. csl.owned /\ csl.timeout > 0 /\ csl.timeout <= job.deadline
      BY <1>1, <1>5 DEF Sessions, Granting
    <3>2. tpl.max \in Nat
      BY TemplatesAssumption DEF TypeOK, Template
    <3>3. csl.timeout \in Nat /\ job.deadline \in Nat /\ job'.deadline \in Nat /\ cut \in Nat
      BY <1>1, <1>2 DEF Csl, Job, WithinExpiry
    <3>4. Resolved.timeout <= csl.timeout
      BY <3>1, <3>2, <3>3, ResolvedType
    <3>5. QED
      BY <1>2, <1>3, <3>1, <3>3, <3>4
  \* What it was made with stays the sum of what it is and what it was cut by.
  <2>4. PICK made \in Nat : made = csl.timeout + cut
    BY <2>3
  <2>5. cut' \in Nat /\ csl'.timeout + cut' = made /\ cut <= cut'
    BY <1>3, <1>4, <1>5, <2>3, <2>4
  <2>6. job'.deadline <= job.deadline
    BY <1>3, <2>3, JobAfter
  <2>7. job.deadline <= made
    BY <1>1, <1>5, <2>4 DEF WithinExpiry
  <2>8. PICK c \in Nat : c = job.created
    BY <2>1
  <2>9. session \in {"pending", "running"} => jobBy' <= c + made + 2 * Lag
    <3> SUFFICES ASSUME session \in {"pending", "running"} PROVE jobBy' <= c + made + 2 * Lag
      OBVIOUS
    <3>1. /\ jobBy' \in {jobBy, EndBy(job'.started, job'.deadline)}
          /\ jobBy' = jobBy \/ EndBy(job'.started, job'.deadline) < jobBy
      BY <1>5, <2>3, <2>6, Writes DEF PutsJob
    <3>2. jobBy' \in Int
      BY TypeReconcile DEF TypeOK, JobType, Times, NoTime
    <3>3. jobBy' <= jobBy /\ jobBy \in Int
      BY <1>2, <3>1, <3>2 DEF Times, NoTime
    <3>4. jobBy <= job.created + (csl.timeout + cut) + 2 * Lag
      BY <1>1, <1>2, <2>1, <2>3 DEF WithinExpiry
    <3>5. QED
      BY <1>2, <2>4, <2>8, <3>2, <3>3, <3>4
  <2>10. session = "ended" => ended <= c + made + 2 * Lag
    <3>1. session = "ended" => ended <= job.created + (csl.timeout + cut) + 2 * Lag
      BY <1>1, <1>2, <2>1, <2>3 DEF WithinExpiry
    <3>2. QED
      BY <2>4, <2>8, <3>1
  <2>11. ended <= c + made + 2 * Lag
    <3>1. session \in {"none", "pending", "running"} => ended = NoTime
      BY <1>1, <1>5 DEF Prompt
    <3>2. session \in {"none", "pending", "running", "ended"}
      BY DEF TypeOK, JobType
    <3>3. QED
      BY <1>2, <2>10, <3>1, <3>2 DEF NoTime
  <2>12. ~PendingJob(csl') => csl'.expiry \in Int /\ c + csl'.timeout <= csl'.expiry
    <3> SUFFICES ASSUME ~PendingJob(csl')
                 PROVE  csl'.expiry \in Int /\ c + csl'.timeout <= csl'.expiry
      OBVIOUS
    <3>1. CASE csl'.expiry = csl.expiry /\ (PendingJob(csl') <=> PendingJob(csl))
      <4>1. job.created + csl.timeout <= csl.expiry /\ csl.expiry \in Int
        BY <1>1, <1>2, <1>5, <3>1 DEF WithinExpiry, Csl, Times, NoTime
      <4>2. QED
        BY <2>3, <2>8, <3>1, <4>1
    <3>2. CASE csl'.expiry = job'.created + csl'.timeout
      BY <2>1, <2>3, <2>8, <3>2
    <3>3. QED
      BY <1>3, <2>1, <3>1, <3>2
  <2>13. ~PendingJob(csl') => ended <= csl'.expiry + cut' + 2 * Lag
    <3>1. ended <= c + (csl'.timeout + cut') + 2 * Lag
      BY <2>5, <2>11
    <3>2. QED
      BY <1>2, <2>3, <2>5, <2>12, <3>1 DEF Times, NoTime
  <2>14. WithinExpiry'
    <3>1. job'.deadline <= csl'.timeout + cut'
      BY <2>3, <2>4, <2>5, <2>6, <2>7
    <3>2. /\ session \in {"pending", "running"} =>
               jobBy' <= job'.created + csl'.timeout + cut' + 2 * Lag
          /\ session = "ended" => ended' <= job'.created + csl'.timeout + cut' + 2 * Lag
      <4>1. c + made + 2 * Lag = job'.created + csl'.timeout + cut' + 2 * Lag
        BY <1>2, <2>1, <2>3, <2>5, <2>8
      <4>2. QED
        BY <2>1, <2>9, <2>10, <4>1
    <3>3. QED
      BY <1>2, <2>1, <2>5, <2>8, <2>12, <2>13, <3>1, <3>2 DEF WithinExpiry
  <2>15. QED
    BY <2>2, <2>14
<1>6. CASE ~job.exists /\ job'.exists
  <2>1. /\ authorised /\ PendingJob(csl) /\ job'.created = now /\ job'.completion = NoTime
        /\ job'.deadline = csl'.timeout /\ ended' = NoTime /\ session' = "none" /\ cut' = 0
    BY <1>1, <1>2, <1>3, <1>4, <1>6, JobAfter DEF Sessions
  <2>2. csl'.completion = NoTime
    BY <1>1, <1>3, <1>6, <2>1 DEF Completed
  <2>3. ~PendingJob(csl') => csl'.expiry = now + csl'.timeout
    BY <1>3, <1>6, <2>1
  <2>4. QED
    BY <1>2, <1>3, <2>1, <2>2, <2>3 DEF WithinExpiry, Completed, NoTime
<1>7. CASE ~job'.exists
  <2>1. ~job.exists /\ ended' = ended /\ session' = "none"
    BY <1>1, <1>2, <1>7, JobAfter DEF Sessions
  <2>2. csl'.expiry = csl.expiry /\ csl'.completion = csl.completion
        /\ (PendingJob(csl') => PendingJob(csl)) /\ (~PendingJob(csl) <=> ~PendingJob(csl'))
    <3>1. csl' = Reported /\ authorised => ~PendingJob(csl)
      <4>1. ASSUME csl' = Reported, authorised, PendingJob(csl)
            PROVE  Built.exists
        <5>1. Resolved.phase = csl.phase
          BY ResolvedType
        <5>2. QED
          BY <2>1, <4>1, <5>1 DEF Built, PutJob, NewJob, PendingJob, NoJob
      <4>2. csl' = Reported => job' = Built \/ csl' = Resolved
        BY <1>3
      <4>3. CASE csl' = Reported /\ job' = Built
        BY <1>7, <4>1, <4>3
      <4>4. CASE csl' = Resolved /\ csl' = Reported
        <5>1. Resolved.phase = calculatePhase(Built) /\ csl.phase = Resolved.phase
          BY <4>4, ReportedType, ResolvedType
        <5>2. QED
          BY <5>1 DEF calculatePhase, PendingJob
      <4>5. QED
        BY <4>2, <4>3, <4>4
    <3>2. ~authorised => PendingJob(csl)
      BY <1>1 DEF Sessions
    <3>3. QED
      BY <1>3, <1>7, <3>1, <3>2
  <2>3. QED
    BY <1>1, <1>2, <1>4, <1>7, <2>1, <2>2 DEF WithinExpiry, Completed
<1>8. QED
  BY <1>5, <1>6, <1>7

LEMMA ExpiryOthers == TypeOK /\ SessionsInv /\ ExpiryInv /\ Others => ExpiryInv'
<1> SUFFICES ASSUME TypeOK, SessionsInv, ExpiryInv, Others, csl.exists
             PROVE  WithinExpiry' /\ Completed'
  BY OthersLeave DEF ExpiryInv
<1>1. Sessions /\ Prompt /\ WithinExpiry /\ Completed
  BY DEF SessionsInv, ExpiryInv
<1>2. /\ job \in Job /\ now \in Nat /\ Lag \in Nat /\ jobBy \in Times /\ ended \in Times
      /\ csl \in Csl /\ session \in {"none", "pending", "running", "ended"}
  BY DelaysAssumption DEF TypeOK, JobType, Job, CslType, Csl
<1>3. csl' = csl /\ cut' = cut /\ cut \in Nat
  BY <1>1, OthersLeave DEF WithinExpiry
<1>4. CASE StartJob
  <2>1. /\ jobBy' = now + job.deadline + Lag /\ jobBy = job.created + Lag /\ now <= jobBy
        /\ jobBy # NoTime /\ ended' = ended /\ job.created \in Nat
    BY <1>1, <1>2, <1>4, JobSteps DEF StartJob, Prompt, Sessions, Job, Times, NoTime
  <2>2. job.deadline \in Nat /\ job'.deadline = job.deadline
    BY <1>2, <1>4, JobSteps DEF Job
  <2>3. WithinExpiry'
    <3>1. jobBy' <= job'.created + csl'.timeout + cut' + 2 * Lag
      <4>1. job.deadline <= csl.timeout + cut /\ csl.timeout \in Nat
        BY <1>1, <1>2, <1>4, JobSteps DEF WithinExpiry, Csl
      <4>2. jobBy' <= job.created + csl.timeout + cut + 2 * Lag
        BY <1>2, <1>3, <2>1, <2>2, <4>1
      <4>3. QED
        BY <1>3, <1>4, <4>2, JobSteps
    <3>2. job'.exists /\ job'.created = job.created /\ session' = "pending" /\ job.exists
      BY <1>4, JobSteps
    <3>3. QED
      BY <1>1, <1>3, <2>1, <2>2, <3>1, <3>2 DEF WithinExpiry, PendingJob
  <2>4. Completed'
    BY <1>1, <1>3, <1>4, <2>1, JobSteps DEF Completed, PendingJob
  <2>5. QED
    BY <2>3, <2>4
<1>5. CASE StartPod
  BY <1>1, <1>2, <1>3, <1>5 DEF StartPod, WithinExpiry, Completed, PendingJob
<1>6. ASSUME session \in {"pending", "running"}
      PROVE  /\ job.exists /\ job.condition = "none" /\ csl.completion = NoTime
             /\ job.created \in Nat /\ csl.timeout \in Nat /\ csl.expiry \in Int
             /\ now <= job.created + csl.timeout + cut + 2 * Lag
  <2>1. job.exists /\ job.condition = "none" /\ jobBy # NoTime /\ now <= jobBy
    BY <1>1, <1>6 DEF Sessions, Prompt
  <2>2. job.created \in Nat /\ csl.timeout \in Nat /\ csl.expiry \in Int /\ jobBy \in Nat
    BY <1>1, <1>2, <2>1 DEF Sessions, Job, Csl, Times, NoTime
  <2>3. QED
    BY <1>1, <1>2, <1>6, <2>1, <2>2 DEF WithinExpiry, Completed
<1>7. CASE EndSession
  <2>1. /\ session = "running" /\ session' = "ended" /\ ended' = now /\ job' = job
        /\ jobBy' = now + Lag
    BY <1>7 DEF EndSession
  <2>2. WithinExpiry'
    BY <1>1, <1>2, <1>3, <1>6, <2>1 DEF WithinExpiry, PendingJob
  <2>3. QED
    BY <1>3, <1>6, <2>1, <2>2 DEF Completed
<1>8. CASE FinishJob
  <2>1. ended' = ended
    BY <1>8 DEF FinishJob
  <2>2. WithinExpiry'
    BY <1>1, <1>2, <1>3, <1>8, <2>1, JobSteps DEF WithinExpiry, PendingJob
  <2>3. Completed'
    BY <1>1, <1>3, <1>8, <2>1, JobSteps DEF Completed, PendingJob
  <2>4. QED
    BY <2>2, <2>3
<1>9. CASE JobDeadline
  <2>1. session \in {"pending", "running"} /\ session' = "ended" /\ ended' = now
        /\ job'.exists /\ job'.created = job.created /\ job'.deadline = job.deadline
    BY <1>9, JobSteps
  <2>2. WithinExpiry'
    BY <1>1, <1>2, <1>3, <1>6, <2>1 DEF WithinExpiry, PendingJob
  <2>3. QED
    BY <1>3, <1>6, <2>1, <2>2 DEF Completed
<1>10. CASE DeleteJob
  <2>1. /\ job.exists /\ ~job'.exists /\ session' = "none"
        /\ ended' = IF session \in {"none", "ended"} THEN ended ELSE now
    BY <1>10, JobSteps
  <2>2. WithinExpiry'
    <3>1. CASE session \in {"none", "ended"}
      BY <1>1, <1>2, <1>3, <2>1, <3>1 DEF WithinExpiry, PendingJob
    <3>2. CASE session \in {"pending", "running"}
      BY <1>1, <1>2, <1>3, <1>6, <2>1, <3>2 DEF WithinExpiry, PendingJob
    <3>3. QED
      BY <1>2, <3>1, <3>2
  <2>3. Completed'
    BY <1>1, <1>2, <1>3, <1>6, <2>1 DEF Completed, PendingJob
  <2>4. QED
    BY <2>2, <2>3
<1>11. CASE UNCHANGED <<job, jobBy, session, ended>>
  BY <1>1, <1>3, <1>11 DEF WithinExpiry, Completed, PendingJob
<1>12. QED
  BY <1>4, <1>5, <1>7, <1>8, <1>9, <1>10, <1>11, OthersLeave

LEMMA ExpiryNext ==
  PositiveTimeouts =>
    (TypeOK /\ SessionsInv /\ GrantInv /\ ExpiryInv /\ [Next]_vars => ExpiryInv')
<1>1. ExpiryInv /\ UNCHANGED vars => ExpiryInv'
  BY DEF ExpiryInv, WithinExpiry, Completed, PendingJob, vars, cluster, kubernetes, queue, history
<1>2. ASSUME PositiveTimeouts, TypeOK, SessionsInv, GrantInv, ExpiryInv, Reconcile
      PROVE  ExpiryInv'
  BY <1>2, ExpiryReconcile DEF ExpiryInv
<1>3. QED
  BY <1>1, <1>2, ExpiryOthers DEF Next, Others

LEMMA LateEnough ==
  ASSUME PositiveTimeouts, TypeOK, SessionsInv, GrantInv, ExpiryInv, Reconcile, ~csl'.exists
  PROVE  \/ PreRunning(csl') /\ now > TTLBefore'
         \/ PostRunning(csl') /\ now > ended + TTLAfter' - Missing'
<1>1. /\ Collect(Reported, Built) /\ csl.exists /\ Specified /\ Sessions /\ Prompt
      /\ Granting /\ WithinExpiry /\ Completed /\ job' = Built
  <2>1. csl.exists /\ Reported.exists /\ Resolved.exists
    BY Writes, ResolvedType, ReportedType
  <2>2. QED
    BY <2>1, Writes DEF SessionsInv, GrantInv, ExpiryInv
<1>2. /\ EligibleForGC(Reported) /\ csl' = [Reported EXCEPT !.exists = FALSE]
      /\ csl'.phase = Reported.phase /\ csl'.completion = Reported.completion
  BY <1>1, ReportedType DEF Collect, Csl
<1>3. /\ Reported.ttlBefore = TTLBefore' /\ Reported.ttlAfter = TTLAfter'
      /\ Reported.ttlAfter \in Nat
  BY <1>1, SpecifiedReconcile, ReportedType, ResolvedType
<1>4. CASE PreRunning(Reported)
  BY <1>2, <1>3, <1>4 DEF EligibleForGC, GetGCTime, PreRunning, PendingJob
<1>5. CASE ~PreRunning(Reported)
  <2>1. PostRunning(Reported) /\ PostRunning(csl')
    BY <1>2, <1>5 DEF EligibleForGC, GetGCTime, PostRunning
  <2>2. \/ Reported.completion # NoTime /\ now > Reported.completion + TTLAfter'
        \/ Reported.completion = NoTime /\ now > Reported.expiry + TTLAfter'
    <3>1. Reported.completion \in Int /\ Reported.expiry \in Int /\ now \in Nat
      BY ReportedType DEF Csl, Times, NoTime, TypeOK
    <3>2. QED
      BY <1>2, <1>3, <1>5, <2>1, <3>1 DEF EligibleForGC, GetGCTime
  <2>3. authorised /\ (job.exists \/ ~PendingJob(csl)) /\ (Built.exists <=> job.exists)
    <3>1. authorised /\ (~Built.exists \/ Built.condition # "none")
      BY <2>1, ReportedType DEF PostRunning, calculatePhase
    <3>2. job.exists <=> Built.exists
      BY <1>1, <3>1, JobAfter
    <3>3. ~job.exists => ~PendingJob(csl)
      <4>1. ~job.exists /\ PendingJob(csl) => Built.exists
        <5>1. Resolved.phase = csl.phase
          BY ResolvedType
        <5>2. QED
          BY <3>1, <5>1 DEF Built, PutJob, NewJob, PendingJob, NoJob
      <4>2. QED
        BY <3>2, <4>1
    <3>4. QED
      BY <3>1, <3>2, <3>3
  <2>4. /\ ended \in Int /\ Lag \in Nat /\ csl.expiry \in Int /\ csl.completion \in Int
        /\ job.created \in Int /\ job.completion \in Int
        /\ Resolved.timeout \in Nat /\ TTLAfter' \in Nat /\ now \in Nat
        /\ csl.timeout \in Nat /\ cut \in Nat
    <3>1. cut \in Nat
      BY <1>1 DEF WithinExpiry
    <3>2. Resolved.timeout \in Nat /\ TTLAfter' \in Nat
      BY <1>3, ResolvedType DEF Csl
    <3>3. QED
      BY <3>1, <3>2, DelaysAssumption DEF TypeOK, JobType, CslType, Times, NoTime
  <2>5. PICK t \in Nat : t = TTLAfter'
    BY <2>4
  <2>6. /\ cut' = IF job.exists THEN cut + (csl.timeout - Resolved.timeout)
                  ELSE IF PendingJob(csl) THEN 0 ELSE cut
        /\ cut' \in Int
    <3>1. cut' = IF job.exists THEN cut + (csl.timeout - Resolved.timeout)
                 ELSE IF PendingJob(csl) THEN 0 ELSE cut
      BY Writes DEF Histories
    <3>2. QED
      BY <2>4, <3>1
  <2>7. /\ Reported.completion # NoTime => ended <= Reported.completion
        /\ Reported.completion = NoTime => ended <= Reported.expiry + cut' + 2 * Lag
    <3>1. CASE job.exists
      <4>1. /\ Reported.completion = job.completion
            /\ Reported.expiry = job.created + Resolved.timeout
        BY <1>1, <3>1, ReportedType, JobAfter
      <4>2. session = "ended"
        <5>1. Built.condition # "none"
          BY <1>1, <2>1, <2>3, <3>1, ReportedType DEF PostRunning, calculatePhase
        <5>2. QED
          BY <1>1, <3>1, <5>1, JobAfter DEF Sessions
      <4>3. ended <= job.created + csl.timeout + cut + 2 * Lag
        BY <1>1, <4>2 DEF WithinExpiry
      <4>4. Reported.expiry + cut' = job.created + csl.timeout + cut
        BY <2>4, <2>6, <3>1, <4>1
      <4>5. job.completion # NoTime => ended <= job.completion
        BY <1>1 DEF Sessions
      <4>6. QED
        BY <4>1, <4>3, <4>4, <4>5
    <3>2. CASE ~job.exists
      <4>1. Reported.completion = csl.completion /\ Reported.expiry = csl.expiry
        BY <2>3, <3>2, ReportedType
      <4>2. ~PendingJob(csl) /\ cut' = cut
        BY <2>3, <2>6, <3>2
      <4>3. QED
        BY <1>1, <4>1, <4>2 DEF WithinExpiry, Completed
    <3>3. QED
      BY <3>1, <3>2
  <2>8. now > ended + t - Missing'
    <3>1. Reported.completion \in Int /\ Reported.expiry \in Int
      BY ReportedType DEF Csl, Times, NoTime
    <3>2. CASE Reported.completion # NoTime
      <4>1. Missing' = 0
        BY <1>2, <3>2 DEF Missing
      <4>2. now > Reported.completion + t /\ ended <= Reported.completion
        BY <2>2, <2>5, <2>7, <3>2
      <4>3. QED
        BY <2>4, <3>1, <4>1, <4>2
    <3>3. CASE Reported.completion = NoTime
      <4>1. Missing' = cut' + 2 * Lag
        BY <1>2, <3>3 DEF Missing
      <4>2. now > Reported.expiry + t /\ ended <= Reported.expiry + cut' + 2 * Lag
        BY <2>2, <2>5, <2>7, <3>3
      <4>3. QED
        BY <2>4, <2>6, <3>1, <4>1, <4>2
    <3>4. QED
      BY <3>2, <3>3
  <2>9. QED
    BY <2>1, <2>5, <2>8
<1>6. QED
  BY <1>4, <1>5

\* No console is collected before the TTL it was given has passed, whatever its template is
\* edited to and wherever reconciliations fail: but for what its timeout was cut under a
\* session that failed, and two delays of the Job controller.
THEOREM CollectedInTime ==
  ASSUME PositiveTimeouts
  PROVE  Spec => NotCollectedEarly
<1>1. ASSUME TypeOK, SessionsInv, GrantInv, ExpiryInv, [Next]_vars, csl.exists, ~csl'.exists
      PROVE  \/ PreRunning(csl') /\ now > TTLBefore'
             \/ PostRunning(csl') /\ now > ended + TTLAfter' - Missing'
  <2>1. Reconcile
    BY <1>1, OthersLeave DEF Next, Others, vars
  <2>2. QED
    BY <1>1, <2>1, LateEnough
<1>2. TypeOK /\ SessionsInv /\ GrantInv /\ ExpiryInv /\ [Next]_vars =>
        [csl.exists /\ ~csl'.exists =>
           \/ PreRunning(csl') /\ now > TTLBefore'
           \/ PostRunning(csl') /\ now > ended + TTLAfter' - Missing']_vars
  BY <1>1
<1>3. TypeOK /\ SessionsInv /\ GrantInv /\ [Next]_vars => GrantInv'
  BY GrantNext
<1>4. TypeOK /\ SessionsInv /\ GrantInv /\ ExpiryInv /\ [Next]_vars => ExpiryInv'
  BY ExpiryNext
<1>5. QED
  BY <1>2, <1>3, <1>4, TypeInit, SessionsInit, GrantInit, ExpiryInit, TypeCorrect,
     SessionsNext, PTL DEF Spec, NotCollectedEarly
-----------------------------------------------------------------------------
(* Gone in time *)

\* What the reconciliations that failed have cost, and when a session has ended at the
\* latest: each step before it takes a delay of its own.
Late == errors * Lag
LastEnd == TTLBefore + Late + Granted + 3 * Lag

\* The key is queued, or its delayed entry is due, in time for what is to be done next.
Waiting ==
  /\ queuedAt # NoTime =>
       /\ now <= queuedAt + Lag
       /\ queuedAt <= LastEnd + TTLAfter
       /\ PendingJob(csl) => queuedAt <= TTLBefore + Late
  /\ timer # NoTime => now <= timer
  /\ queuedAt = NoTime =>
       /\ PreRunning(csl) => timer # NoTime /\ timer <= TTLBefore + 1
       /\ PendingJob(csl) => timer <= TTLBefore
       /\ csl.phase = "Running" => session \in {"running", "ended"} /\ job.condition = "none"
       /\ PostRunning(csl) => timer # NoTime /\ timer <= GetGCTime(csl)
  /\ ~csl.owned => queuedAt = 0 /\ csl.expiry = NoTime /\ csl.completion = NoTime

\* How far the session and what is recorded of it reach.
Lasting ==
  /\ csl.owned => csl.timeout <= Granted
  /\ job.exists => job.created <= TTLBefore + Late /\ job.deadline <= Granted
  /\ session \in {"pending", "running"} => jobBy <= job.created + Granted + 2 * Lag
  /\ session = "ended" /\ job.condition = "none" =>
       jobBy # NoTime /\ jobBy <= job.created + Granted + 3 * Lag
  /\ job.completion <= LastEnd /\ csl.completion <= LastEnd
  /\ csl.expiry <= TTLBefore + Late + Granted
  /\ ~PendingJob(csl) => csl.expiry # NoTime

OverstayInv == csl.exists => Waiting /\ Lasting

LEMMA LimitsType ==
  ASSUME TypeOK
  PROVE  /\ TTLBefore \in Nat /\ TTLAfter \in Nat /\ Granted \in Nat
         /\ Late \in Nat /\ Late <= MaxErrors * Lag
<1>1. first \in Template /\ request.timeout \in Nat
      /\ request.ttlBefore \in Nat \cup {Unset} /\ request.ttlAfter \in Nat \cup {Unset}
  BY TemplatesAssumption, RequestsAssumption DEF TypeOK
<1>2. TTLBefore \in Nat /\ TTLAfter \in Nat /\ Granted \in Nat
  BY <1>1, DelaysAssumption DEF TTLBefore, TTLAfter, Granted, Default, Template, Unset
<1>3. errors \in Nat /\ Lag \in Nat /\ MaxErrors \in Nat /\ errors <= MaxErrors
  BY DelaysAssumption, BoundsAssumption DEF TypeOK
<1>4. Late \in Nat /\ Late <= MaxErrors * Lag
  BY <1>3 DEF Late
<1>5. QED
  BY <1>2, <1>4

LEMMA LateNext ==
  ASSUME TypeOK
  PROVE  /\ errors' = errors + 1 => Late' = Late + Lag
         /\ errors' = errors => Late' = Late
<1>1. errors \in Int /\ Lag \in Int
  BY DelaysAssumption DEF TypeOK
<1>2. QED
  BY <1>1 DEF Late

\* When a console whose session is over is collected.
LEMMA CollectedBy ==
  ASSUME TypeOK, Specified, Sessions, Lasting, PostRunning(csl)
  PROVE  GetGCTime(csl) \in Nat /\ GetGCTime(csl) <= LastEnd + TTLAfter
<1>1. ~PendingJob(csl) /\ ~PreRunning(csl)
  BY DEF PostRunning, PreRunning, PendingJob
<1>2. csl.ttlAfter = TTLAfter /\ csl.expiry # NoTime
  BY <1>1 DEF Specified, Sessions, Lasting
<1>3. csl.completion \in Times /\ csl.expiry \in Nat /\ Lag \in Nat
  BY <1>2, DelaysAssumption DEF TypeOK, CslType, Times
<1>4. csl.completion <= LastEnd /\ csl.expiry <= LastEnd
  BY <1>3, LimitsType DEF Lasting, LastEnd
<1>5. GetGCTime(csl) = (IF csl.completion # NoTime THEN csl.completion ELSE csl.expiry) + TTLAfter
  BY <1>1, <1>2 DEF GetGCTime
<1>6. QED
  BY <1>3, <1>4, <1>5, LimitsType DEF Times, LastEnd

\* As long as the key is not queued, it is not too late to queue it.
LEMMA EarlyEnough ==
  ASSUME TypeOK, Specified, Sessions, Prompt, Waiting, Lasting, queuedAt = NoTime
  PROVE  now <= LastEnd + TTLAfter /\ (PendingJob(csl) => now <= TTLBefore + Late)
<1>1. /\ now \in Nat /\ timer \in Times /\ Lag \in Nat /\ Lag >= 1 /\ jobBy \in Times
      /\ LastEnd \in Nat
  BY LimitsType, DelaysAssumption DEF TypeOK, JobType, LastEnd
<1>2. CASE PreRunning(csl)
  BY <1>1, <1>2, LimitsType DEF Waiting, LastEnd, PreRunning, Times, NoTime
<1>3. CASE csl.phase = "Running"
  <2>1. session \in {"running", "ended"} /\ job.condition = "none" /\ job.exists
    BY <1>3 DEF Waiting, Sessions
  <2>2. now <= jobBy /\ jobBy <= job.created + Granted + 3 * Lag
    BY <1>1, <2>1, LimitsType DEF Prompt, Lasting, TypeOK, JobType, Times, NoTime
  <2>3. job.created <= TTLBefore + Late /\ job.created \in Int
    BY <2>1 DEF Lasting, TypeOK, JobType, Times, NoTime
  <2>4. now <= LastEnd
    BY <1>1, <2>2, <2>3, LimitsType DEF LastEnd, Times, NoTime
  <2>5. QED
    BY <1>1, <1>3, <2>4, LimitsType DEF PendingJob
<1>4. CASE PostRunning(csl)
  BY <1>1, <1>4, CollectedBy, LimitsType DEF Waiting, PostRunning, PendingJob, Times, NoTime
<1>5. QED
  BY <1>2, <1>3, <1>4 DEF TypeOK, CslType, PreRunning, PendingJob, PostRunning

LEMMA OverstayInit == Init => OverstayInv
<1> SUFFICES ASSUME Init PROVE Waiting /\ Lasting
  BY DEF OverstayInv
<1>1. TTLBefore \in Nat /\ TTLAfter \in Nat /\ Granted \in Nat /\ Late \in Nat /\ Lag \in Nat
  BY TypeInit, LimitsType, DelaysAssumption
<1>2. Waiting
  BY <1>1 DEF Init, Waiting, LastEnd, NoTime, PendingJob
<1>3. Lasting
  BY <1>1 DEF Init, Lasting, LastEnd, NoTime, NoJob, PendingJob
<1>4. QED
  BY <1>2, <1>3

LEMMA LastingOthers ==
  ASSUME TypeOK, SessionsInv, OverstayInv, Others, csl.exists
  PROVE  Lasting'
<1>1. Sessions /\ Prompt /\ Lasting
  BY DEF SessionsInv, OverstayInv
<1>2. /\ job \in Job /\ now \in Nat /\ Lag \in Nat /\ jobBy \in Times /\ csl' = csl
      /\ session \in {"none", "pending", "running", "ended"}
  BY DelaysAssumption, OthersLeave DEF TypeOK, JobType, Job
<1>3. /\ TTLBefore' = TTLBefore /\ TTLAfter' = TTLAfter /\ Granted' = Granted /\ Late' = Late
      /\ LastEnd' = LastEnd
      /\ TTLBefore \in Nat /\ TTLAfter \in Nat /\ Granted \in Nat /\ Late \in Nat
  BY OthersLeave, LimitsType DEF TTLBefore, TTLAfter, Granted, Late, LastEnd
<1>4. ASSUME job'.exists => job'.created = job.created /\ job'.deadline = job.deadline /\ job.exists,
             job'.completion <= LastEnd,
             session' \in {"pending", "running"} => jobBy' <= job'.created + Granted + 2 * Lag,
             session' = "ended" /\ job'.condition = "none" =>
               jobBy' # NoTime /\ jobBy' <= job'.created + Granted + 3 * Lag
      PROVE  Lasting'
  BY <1>1, <1>2, <1>3, <1>4 DEF Lasting, PendingJob
<1>5. job.exists => job.created \in Nat /\ job.deadline <= Granted /\ job.created <= TTLBefore + Late
  BY <1>1, <1>2 DEF Sessions, Lasting, Job, Times, NoTime
<1>6. CASE StartJob
  <2>1. /\ jobBy' = now + job.deadline + Lag /\ jobBy = job.created + Lag /\ now <= jobBy
        /\ job.exists /\ job.deadline \in Nat
    BY <1>1, <1>2, <1>6, JobSteps DEF Prompt, Sessions, Job, Times, NoTime
  <2>2. jobBy' <= job.created + Granted + 2 * Lag
    BY <1>2, <1>3, <1>5, <2>1
  <2>3. QED
    BY <1>1, <1>4, <1>6, <2>1, <2>2, JobSteps DEF Lasting
<1>7. CASE StartPod
  BY <1>1, <1>4, <1>7 DEF StartPod, Lasting
<1>8. CASE EndSession
  <2>1. /\ session = "running" /\ session' = "ended" /\ job' = job /\ jobBy' = now + Lag
        /\ job.exists
    BY <1>1, <1>8 DEF EndSession, Sessions
  <2>2. now <= jobBy /\ jobBy <= job.created + Granted + 2 * Lag
    BY <1>1, <2>1 DEF Prompt, Lasting
  <2>3. jobBy' # NoTime /\ jobBy' <= job.created + Granted + 3 * Lag
    BY <1>2, <1>3, <1>5, <2>1, <2>2 DEF Times, NoTime
  <2>4. QED
    BY <1>1, <1>4, <2>1, <2>3 DEF Lasting
<1>9. CASE FinishJob
  <2>1. now <= jobBy /\ jobBy <= job.created + Granted + 3 * Lag /\ job.exists
    BY <1>1, <1>9, JobSteps DEF Prompt, Lasting
  <2>2. now <= LastEnd
    BY <1>2, <1>3, <1>5, <2>1 DEF LastEnd, Times, NoTime
  <2>3. job'.completion <= LastEnd /\ job'.condition # "none"
    BY <1>1, <1>9, <2>2, JobSteps DEF Lasting
  <2>4. QED
    BY <1>4, <1>9, <2>3, JobSteps
<1>10. CASE JobDeadline
  BY <1>1, <1>4, <1>10, JobSteps DEF Lasting
<1>11. CASE DeleteJob
  BY <1>2, <1>3, <1>4, <1>11, JobSteps DEF LastEnd, NoTime
<1>12. CASE UNCHANGED <<job, jobBy, session, ended>>
  BY <1>1, <1>4, <1>12 DEF Lasting
<1>13. QED
  BY <1>6, <1>7, <1>8, <1>9, <1>10, <1>11, <1>12, OthersLeave

LEMMA WaitingOthers ==
  ASSUME TypeOK, SessionsInv, OverstayInv, Others, csl.exists
  PROVE  Waiting'
<1>1. Specified /\ Sessions /\ Prompt /\ Waiting /\ Lasting
  BY DEF SessionsInv, OverstayInv
<1>2. /\ now \in Nat /\ Lag \in Nat /\ queuedAt \in Times /\ timer \in Times /\ csl' = csl
      /\ session \in {"none", "pending", "running", "ended"}
  BY DelaysAssumption, OthersLeave DEF TypeOK, JobType
<1>3. /\ TTLBefore' = TTLBefore /\ TTLAfter' = TTLAfter /\ Granted' = Granted /\ Late' = Late
      /\ LastEnd' = LastEnd
  BY OthersLeave DEF TTLBefore, TTLAfter, Granted, Late, LastEnd
<1>4. /\ PendingJob(csl)' = PendingJob(csl) /\ PreRunning(csl)' = PreRunning(csl)
      /\ PostRunning(csl)' = PostRunning(csl) /\ GetGCTime(csl)' = GetGCTime(csl)
  BY <1>2 DEF PendingJob, PreRunning, PostRunning, GetGCTime
<1>5. CASE Enqueue /\ timer' \in {timer, NoTime} /\ now' = now
  <2>1. queuedAt' # NoTime /\ now <= queuedAt' + Lag
    BY <1>1, <1>2, <1>5 DEF Enqueue, Waiting, Times, NoTime
  <2>2. queuedAt' <= LastEnd + TTLAfter /\ (PendingJob(csl) => queuedAt' <= TTLBefore + Late)
    BY <1>1, <1>5, EarlyEnough DEF Enqueue, Waiting
  <2>3. ~csl.owned => queuedAt' = 0
    BY <1>1, <1>5 DEF Enqueue, Waiting, NoTime
  <2>4. QED
    BY <1>1, <1>2, <1>3, <1>4, <1>5, <2>1, <2>2, <2>3 DEF Waiting
<1>6. CASE /\ UNCHANGED <<queuedAt, timer, job>>
           /\ session' = session \/ (session = "pending" /\ session' = "running")
              \/ (session = "running" /\ session' = "ended")
           /\ \/ now' = now
              \/ /\ now' = now + 1
                 /\ queuedAt # NoTime => now < queuedAt + Lag
                 /\ timer # NoTime => now < timer
  <2>1. /\ queuedAt # NoTime => now' <= queuedAt + Lag
        /\ timer # NoTime => now' <= timer
    BY <1>1, <1>2, <1>6 DEF Waiting, Times, NoTime
  <2>2. queuedAt = NoTime /\ csl.phase = "Running" =>
          session' \in {"running", "ended"} /\ job'.condition = "none"
    BY <1>1, <1>6 DEF Waiting
  <2>3. QED
    BY <1>1, <1>2, <1>3, <1>4, <1>6, <2>1, <2>2 DEF Waiting
<1>7. Requeue \/ Authorise \/ StartJob \/ FinishJob \/ JobDeadline \/ DeleteJob =>
        Enqueue /\ timer' \in {timer, NoTime} /\ now' = now
  BY DEF Requeue, Authorise, StartJob, FinishJob, JobDeadline, DeleteJob
<1>8. QED
  BY <1>5, <1>6, <1>7 DEF Others, Kubernetes, EditTemplate, StartPod, EndSession, Tick, Collected,
     vars, cluster, kubernetes, queue

\* A reconciliation takes place within a delay of when its key was due.
LEMMA ReconciledInTime ==
  ASSUME TypeOK, SessionsInv, OverstayInv, Reconcile
  PROVE  /\ TTLBefore' \in Nat /\ Granted' \in Nat /\ TTLAfter' \in Nat
         /\ Late \in Nat /\ Late' \in Nat /\ Late <= Late'
         /\ csl.owned => TTLBefore' = TTLBefore /\ Granted' = Granted /\ TTLAfter' = TTLAfter
         /\ now <= TTLBefore' + Late + Granted' + 4 * Lag + TTLAfter'
         /\ PendingJob(csl) => now <= TTLBefore' + Late + Lag
<1>1. Waiting /\ queuedAt # NoTime
  BY Writes DEF OverstayInv, Reconcile
<1>2. first' \in Templates /\ request' = request /\ first' = IF csl.owned THEN first ELSE tpl
  BY Writes DEF Histories, TypeOK
<1>3. first' \in Template /\ request.timeout \in Nat
      /\ request.ttlBefore \in Nat \cup {Unset} /\ request.ttlAfter \in Nat \cup {Unset}
  BY <1>2, TemplatesAssumption, RequestsAssumption DEF TypeOK
<1>4. TTLBefore' \in Nat /\ TTLAfter' \in Nat /\ Granted' \in Nat
  BY <1>2, <1>3, DelaysAssumption DEF TTLBefore, TTLAfter, Granted, Default, Template, Unset
<1>5. csl.owned => TTLBefore' = TTLBefore /\ Granted' = Granted /\ TTLAfter' = TTLAfter
  BY <1>2 DEF TTLBefore, TTLAfter, Granted
<1>6. Late \in Nat /\ Late' \in Nat /\ Late <= Late' /\ Lag \in Nat /\ now \in Nat
  <2>1. errors' = errors \/ errors' = errors + 1
    BY Writes DEF CutShort, Keep, Collect
  <2>2. QED
    BY <2>1, LateNext, LimitsType, DelaysAssumption DEF TypeOK
<1>7. CASE csl.owned
  <2>1. now <= queuedAt + Lag /\ queuedAt \in Int
    BY <1>1 DEF Waiting, TypeOK, Times, NoTime
  <2>2. queuedAt <= LastEnd + TTLAfter /\ (PendingJob(csl) => queuedAt <= TTLBefore + Late)
    BY <1>1 DEF Waiting
  <2>3. QED
    BY <1>4, <1>5, <1>6, <1>7, <2>1, <2>2 DEF LastEnd
<1>8. CASE ~csl.owned
  <2>1. now <= Lag
    BY <1>1, <1>6, <1>8 DEF Waiting
  <2>2. QED
    BY <1>4, <1>5, <1>6, <1>8, <2>1 DEF TTLBefore, TTLAfter, Granted, Late, LastEnd
<1>9. QED
  BY <1>4, <1>5, <1>6, <1>7, <1>8

LEMMA LastingReconcile ==
  ASSUME PositiveTimeouts, TypeOK, SessionsInv, GrantInv, OverstayInv, Reconcile, csl'.exists
  PROVE  Lasting'
<1>1. csl.exists /\ Specified /\ Sessions /\ Prompt /\ Granting /\ Waiting /\ Lasting
  BY Writes DEF SessionsInv, GrantInv, OverstayInv
<1>2. /\ job \in Job /\ job' \in Job /\ csl \in Csl /\ now \in Nat /\ Lag \in Nat
      /\ jobBy \in Times /\ session' = session /\ Resolved.timeout \in Nat
  BY Writes, JobAfter, ResolvedType, DelaysAssumption
     DEF TypeOK, JobType, CslType, Job, Csl
<1>3. /\ TTLBefore' \in Nat /\ Granted' \in Nat /\ TTLAfter' \in Nat
      /\ Late \in Nat /\ Late' \in Nat /\ Late <= Late'
      /\ LastEnd' = TTLBefore' + Late' + Granted' + 3 * Lag
  BY ReconciledInTime DEF LastEnd
<1>4. csl.owned => /\ TTLBefore' = TTLBefore /\ Granted' = Granted
                   /\ LastEnd \in Int /\ LastEnd <= LastEnd'
  BY <1>2, <1>3, ReconciledInTime DEF LastEnd
<1>5. job.exists => csl.owned /\ job.created \in Nat
  BY <1>1, <1>2 DEF Sessions, Job, Times, NoTime
<1>6. Resolved.timeout <= Granted' /\ (csl.owned => Resolved.timeout <= csl.timeout)
  <2>1. CASE csl.owned
    <3>1. Resolved.timeout <= csl.timeout
      BY <1>1, <1>2, <2>1, ResolvedType DEF Granting, Csl
    <3>2. csl.timeout <= Granted /\ csl.timeout \in Nat
      BY <1>1, <1>2, <2>1 DEF Lasting, Csl
    <3>3. QED
      BY <1>2, <1>3, <1>4, <2>1, <3>1, <3>2
  <2>2. CASE ~csl.owned
    <3>1. Resolved.timeout = Granted'
      BY <1>1, <2>2, Writes, ResolvedType DEF Histories, Specified, Granted
    <3>2. QED
      BY <1>3, <2>2, <3>1
  <2>3. QED
    BY <2>1, <2>2
<1>7. csl'.timeout <= Granted'
  BY <1>6, Writes, ReportedType, ResolvedType
<1>8. job'.exists => /\ job'.created \in Nat /\ job'.created <= TTLBefore' + Late'
                     /\ job'.deadline <= Granted'
  <2>1. CASE job.exists
    <3>1. job.created <= TTLBefore + Late /\ job.deadline <= Granted
      BY <1>1, <2>1 DEF Lasting
    <3>2. job'.created = job.created /\ job'.deadline \in {job.deadline, Resolved.timeout}
      BY <2>1, JobAfter
    <3>3. QED
      BY <1>3, <1>4, <1>5, <1>6, <2>1, <3>1, <3>2
  <2>2. CASE ~job.exists /\ job'.exists
    <3>1. /\ authorised /\ PendingJob(csl) /\ job'.created = now
          /\ job'.deadline = Resolved.timeout /\ job'.condition = "none"
      BY <2>2, JobAfter
    <3>2. CASE CutShort(csl', job')
      <4>1. Late' = Late + Lag
        BY <3>2, LateNext DEF CutShort
      <4>2. QED
        <5>1. now <= TTLBefore' + Late'
          <6>1. now <= TTLBefore' + Late + Lag /\ TTLBefore' \in Nat /\ Late \in Nat
            BY <3>1, ReconciledInTime
          <6>2. now <= TTLBefore' + (Late + Lag)
            BY <1>2, <6>1 DEF TTLBefore
          <6>3. QED
            BY <4>1, <6>2
        <5>2. QED
          BY <1>2, <1>6, <3>1, <5>1
    <3>3. CASE csl' = Reported /\ job' = Built /\ Keep(Reported, Built)
      <4>1. session = "none"
        BY <1>1, <2>2 DEF Sessions
      <4>2. Reported.phase = "Pending"
        BY <2>2, <3>1, <3>3, <4>1, ReportedType DEF calculatePhase
      <4>3. Reported.ttlBefore = TTLBefore'
        BY <1>1, SpecifiedReconcile, ReportedType
      <4>4. GetGCTime(Reported) = TTLBefore'
        BY <4>2, <4>3 DEF GetGCTime, PreRunning
      <4>5. now <= TTLBefore'
        BY <1>2, <1>3, <3>3, <4>4 DEF Keep, EligibleForGC, NoTime
      <4>6. QED
        <5>1. now <= TTLBefore' + Late'
          BY <1>2, <1>3, <4>5 DEF TTLBefore, TTLAfter, Granted, Late, LastEnd
        <5>2. QED
          BY <1>2, <1>6, <3>1, <5>1
    <3>4. QED
      BY <3>2, <3>3, Writes
  <2>3. QED
    BY <2>1, <2>2
<1>9. /\ session' \in {"pending", "running"} => jobBy' <= job'.created + Granted' + 2 * Lag
      /\ session' = "ended" /\ job'.condition = "none" =>
           jobBy' # NoTime /\ jobBy' <= job'.created + Granted' + 3 * Lag
  <2>1. CASE session = "none"
    BY <1>2, <2>1
  <2>2. CASE session # "none"
    <3>1. job.exists /\ csl.owned
      BY <1>1, <1>5, <2>2 DEF Sessions
    <3>2. /\ job'.created = job.created /\ job'.condition = job.condition
          /\ job'.exists /\ job'.deadline \in {job.deadline, Resolved.timeout}
      BY <3>1, JobAfter
    <3>3. job'.deadline <= job.deadline
      BY <1>1, <1>2, <1>6, <3>1, <3>2 DEF Granting, Job, Csl
    <3>4. jobBy' = jobBy \/ (session \in {"pending", "running"} /\ jobBy' <= jobBy)
      <4>1. PutsJob(job')
        BY Writes
      <4>2. job'.started \in Int /\ job'.deadline \in Int /\ job.deadline \in Int
        BY <1>2 DEF Job, Times, NoTime
      <4>3. EndBy(job'.started, job'.deadline) \in Int
        BY <1>2, <4>2 DEF EndBy
      <4>4. QED
        BY <1>2, <3>1, <3>3, <4>1, <4>2, <4>3 DEF PutsJob, Times, NoTime
    <3>5. QED
      <4>1. jobBy \in Int /\ job.created \in Int /\ jobBy' \in Int
        BY <1>2, <1>5, <3>1, JobAfter, Writes, TypeReconcile DEF Times, NoTime, TypeOK, JobType
      <4>2. QED
        BY <1>1, <1>2, <1>3, <1>4, <3>1, <3>2, <3>4, <4>1 DEF Lasting
  <2>3. QED
    BY <2>1, <2>2
<1>10. job'.completion <= LastEnd'
  <2>1. CASE job.exists
    <3>1. job'.completion = job.completion /\ job.completion \in Int /\ job.completion <= LastEnd
      BY <1>1, <1>2, <2>1, JobAfter DEF Lasting, Job, Times, NoTime
    <3>2. QED
      BY <1>3, <1>2, <1>4, <1>5, <2>1, <3>1
  <2>2. CASE ~job.exists
    <3>1. job'.completion = NoTime
      BY <1>1, <2>2, JobAfter DEF Sessions, NoJob
    <3>2. QED
      <4>1. LastEnd' \in Nat
        BY <1>2, <1>3 DEF TTLBefore, TTLAfter, Granted, Late, LastEnd
      <4>2. QED
        BY <3>1, <4>1 DEF NoTime
  <2>3. QED
    BY <2>1, <2>2
<1>11. csl.completion <= LastEnd' /\ csl.expiry <= TTLBefore' + Late' + Granted'
  <2>1. csl.completion \in Int /\ csl.expiry \in Int
    BY <1>2 DEF Csl, Times, NoTime
  <2>2. CASE csl.owned
    BY <1>1, <1>2, <1>3, <1>4, <2>1, <2>2 DEF Lasting
  <2>3. CASE ~csl.owned
    BY <1>1, <1>2, <1>3, <2>3 DEF Waiting, NoTime
  <2>4. QED
    BY <2>2, <2>3
<1>12. CASE csl' = Resolved
  <2>1. csl'.completion = csl.completion /\ csl'.expiry = csl.expiry
        /\ (PendingJob(csl)' <=> PendingJob(csl))
    BY <1>12, ResolvedType DEF PendingJob
  <2>2. ~PendingJob(csl)' => csl'.expiry # NoTime
    BY <1>1, <2>1 DEF Lasting
  <2>3. QED
    BY <1>7, <1>8, <1>9, <1>10, <1>11, <2>1, <2>2 DEF Lasting
<1>13. CASE csl' = Reported /\ job' = Built
  <2>1. /\ csl'.completion \in {csl.completion, job'.completion}
        /\ csl'.expiry = IF job'.exists THEN job'.created + Resolved.timeout ELSE csl.expiry
    BY <1>13, ReportedType
  <2>2. csl'.completion <= LastEnd'
    BY <1>10, <1>11, <2>1
  <2>3. csl'.expiry <= TTLBefore' + Late' + Granted'
    BY <1>2, <1>3, <1>6, <1>8, <1>11, <2>1
  <2>4. ~PendingJob(csl)' => csl'.expiry # NoTime
    <3> SUFFICES ASSUME ~PendingJob(csl)' PROVE csl'.expiry # NoTime
      OBVIOUS
    <3>1. CASE job'.exists
      BY <1>2, <1>8, <2>1, <3>1 DEF NoTime
    <3>2. CASE ~job'.exists
      <4>1. authorised
        BY <1>13, ReportedType DEF PendingJob, calculatePhase
      <4>2. ~job.exists /\ Resolved.phase = csl.phase
        BY <3>2, JobAfter, ResolvedType
      <4>3. ~PendingJob(csl)
        BY <1>13, <3>2, <4>1, <4>2 DEF Built, PutJob, NewJob, NoJob, PendingJob
      <4>4. QED
        BY <1>1, <2>1, <3>2, <4>3 DEF Lasting
    <3>3. QED
      BY <3>1, <3>2
  <2>5. QED
    BY <1>7, <1>8, <1>9, <1>10, <2>2, <2>3, <2>4 DEF Lasting
<1>14. QED
  BY <1>12, <1>13, Writes

\* A console that is kept is queued again, or comes up again when it may be collected.
LEMMA WaitingKept ==
  ASSUME TypeOK, SessionsInv, OverstayInv, Lasting', Reconcile, Keep(Reported, Built),
         csl' = Reported, job' = Built
  PROVE  Waiting'
<1>1. csl.exists /\ Specified /\ Sessions /\ Prompt /\ Waiting /\ Lasting
  BY Writes DEF SessionsInv, OverstayInv
<1>2. /\ now \in Nat /\ now' = now /\ Lag \in Nat /\ Lag >= 1 /\ timer \in Times
      /\ session' = session /\ RunningPoll \in Nat /\ RunningPoll > 0
      /\ job \in Job /\ jobBy \in Times
  BY Writes, DelaysAssumption DEF TypeOK, JobType, Job
<1>3. Reported \in Csl /\ csl'.owned /\ Reported.ttlBefore = TTLBefore' /\ Reported.ttlAfter = TTLAfter'
      /\ Reported.ttlBefore \in Nat /\ Reported.ttlAfter \in Nat
  BY <1>1, ReportedType, ResolvedType, SpecifiedReconcile
<1>4. /\ TTLBefore' \in Nat /\ Granted' \in Nat /\ TTLAfter' \in Nat /\ Late' \in Nat
      /\ LastEnd' = TTLBefore' + Late' + Granted' + 3 * Lag
  BY ReconciledInTime DEF LastEnd
<1>5. PICK t1 \in Nat, g \in Nat, t2 \in Nat, l \in Nat :
        t1 = TTLBefore' /\ g = Granted' /\ t2 = TTLAfter' /\ l = Late'
  BY <1>4
<1> DEFINE end == t1 + l + g + 3 * Lag
           rep == Reported
           interval == RequeueInterval(rep)
<1>6. LastEnd' = end
  BY <1>4, <1>5
<1>7. /\ t1 \in Nat /\ g \in Nat /\ t2 \in Nat /\ l \in Nat
      /\ rep.ttlBefore = t1 /\ rep.ttlAfter = t2
  BY <1>3, <1>5
<1>8. /\ ~PendingJob(rep) => rep.expiry # NoTime
      /\ rep.completion <= end /\ rep.expiry <= t1 + l + g
  BY <1>5, <1>6 DEF Lasting, PendingJob
<1>9. ~EligibleForGC(rep) /\ RequeueAfter(interval, rep # csl \/ Built # job)
  BY DEF Keep
<1>10. \/ PendingJob(rep) /\ interval = t1 - now /\ now <= t1
       \/ rep.phase = "Pending" /\ interval = 1 /\ now <= t1
       \/ /\ rep.phase = "Running" /\ interval > 0 /\ interval \in Int /\ now <= end
          /\ session = "running" /\ Built.condition = "none"
       \/ /\ PostRunning(rep) /\ interval = GetGCTime(rep) - now
          /\ GetGCTime(rep) \in Nat /\ now <= GetGCTime(rep) /\ GetGCTime(rep) <= end + t2
  <2>1. CASE PreRunning(rep)
    <3>1. GetGCTime(rep) = t1 /\ now <= t1
      BY <1>2, <1>7, <1>9, <2>1 DEF GetGCTime, EligibleForGC, NoTime
    <3>2. QED
      BY <2>1, <3>1 DEF RequeueInterval, PreRunning, PendingJob
  <2>2. CASE rep.phase = "Running"
    <3>1. session = "running" /\ Built.condition = "none"
      BY <2>2, ReportedType DEF calculatePhase
    <3>2. job.exists /\ jobBy # NoTime /\ now <= jobBy /\ csl.owned
      BY <1>1, <3>1 DEF Sessions, Prompt
    <3>3. job.created <= TTLBefore + Late /\ jobBy <= job.created + Granted + 2 * Lag
      BY <1>1, <3>1, <3>2 DEF Lasting
    <3>4. /\ TTLBefore = t1 /\ Granted = g /\ Late <= Late' /\ Late \in Nat
      BY <1>5, <3>2, ReconciledInTime
    <3>5. Late <= l /\ Late \in Nat
      BY <1>5, <3>4
    <3>6. job.created \in Int /\ jobBy \in Int
      BY <1>2 DEF Job, Times, NoTime
    <3>7. TTLBefore = t1 /\ Granted = g
      BY <3>4
    <3>8. now <= end
      BY <1>2, <1>7, <3>2, <3>3, <3>5, <3>6, <3>7
    <3>9. interval = RunningPoll
      BY <2>2 DEF RequeueInterval
    <3>10. QED
      BY <1>2, <2>2, <3>1, <3>8, <3>9
  <2>3. CASE PostRunning(rep)
    <3>1. /\ ~PreRunning(rep) /\ ~PendingJob(rep) /\ rep.phase \notin {"Pending", "Running"}
      BY <2>3 DEF PostRunning, PreRunning, PendingJob
    <3>2. rep.completion \in Times /\ rep.expiry \in Nat /\ rep.expiry <= end
      BY <1>2, <1>3, <1>7, <1>8, <3>1 DEF Csl, Times
    <3>3. GetGCTime(rep) = (IF rep.completion # NoTime THEN rep.completion ELSE rep.expiry) + t2
      BY <1>7, <2>3, <3>1 DEF GetGCTime
    <3>4. GetGCTime(rep) \in Nat /\ GetGCTime(rep) <= end + t2
      BY <1>2, <1>7, <1>8, <3>2, <3>3 DEF Times
    <3>5. now <= GetGCTime(rep)
      BY <1>2, <1>9, <3>4 DEF EligibleForGC, NoTime
    <3>6. interval = GetGCTime(rep) - now
      BY <3>1 DEF RequeueInterval
    <3>7. QED
      BY <2>3, <3>4, <3>5, <3>6
  <2>4. QED
    BY <1>3, <2>1, <2>2, <2>3 DEF Csl, PreRunning, PendingJob, PostRunning
<1>11. end \in Nat /\ t1 <= end
  BY <1>2, <1>7
<1>12. /\ queuedAt' \in {now, NoTime}
       /\ now <= end + t2 /\ (PendingJob(rep) => now <= t1)
  <2>1. queuedAt' \in {now, NoTime}
    BY <1>9 DEF RequeueAfter
  <2>2. PendingJob(rep) => ~PostRunning(rep) /\ rep.phase \notin {"Pending", "Running"}
    BY DEF PendingJob, PostRunning
  <2>3. QED
    BY <1>2, <1>7, <1>10, <1>11, <2>1, <2>2
<1>13. interval > 0 => timer' # NoTime /\ now <= timer' /\ timer' <= now + interval
  <2>1. interval \in Int
    BY <1>2, <1>7, <1>10
  <2>2. timer # NoTime => now <= timer /\ timer \in Int
    BY <1>1, <1>2 DEF Waiting, Times, NoTime
  <2>3. QED
    BY <1>2, <1>9, <2>1, <2>2 DEF RequeueAfter, Sooner, NoTime
<1>14. interval <= 0 => queuedAt' = now /\ timer' = timer
  <2>1. interval \in Int
    BY <1>2, <1>7, <1>10
  <2>2. QED
    BY <1>9, <2>1 DEF RequeueAfter
<1>15. timer' # NoTime => now <= timer'
  <2>1. interval \in Int
    BY <1>2, <1>7, <1>10
  <2>2. QED
    BY <1>1, <2>1, <1>13, <1>14 DEF Waiting
<1>16. queuedAt' = NoTime =>
         /\ timer' # NoTime
         /\ PreRunning(rep) => timer' <= t1 + 1
         /\ PendingJob(rep) => timer' <= t1
         /\ rep.phase = "Running" => session = "running" /\ Built.condition = "none"
         /\ PostRunning(rep) => timer' <= GetGCTime(rep)
  <2> SUFFICES ASSUME queuedAt' = NoTime
               PROVE  /\ timer' # NoTime
                      /\ PreRunning(rep) => timer' <= t1 + 1
                      /\ PendingJob(rep) => timer' <= t1
                      /\ rep.phase = "Running" => session = "running" /\ Built.condition = "none"
                      /\ PostRunning(rep) => timer' <= GetGCTime(rep)
    OBVIOUS
  <2>1. interval \in Int
    BY <1>2, <1>7, <1>10
  <2>2. interval > 0
    BY <1>2, <1>14, <2>1 DEF NoTime
  <2>3. timer' # NoTime /\ timer' <= now + interval /\ timer' \in Int
    <3>1. timer' \in Int
      BY <1>2, <1>9, <2>1 DEF RequeueAfter, Sooner, Times, NoTime
    <3>2. QED
      BY <1>13, <2>2, <3>1
  <2>4. CASE PendingJob(rep) /\ interval = t1 - now /\ now <= t1
    BY <1>2, <1>7, <2>3, <2>4 DEF PendingJob, PostRunning
  <2>5. CASE rep.phase = "Pending" /\ interval = 1 /\ now <= t1
    BY <1>2, <1>7, <2>3, <2>5 DEF PendingJob, PostRunning
  <2>6. CASE rep.phase = "Running" /\ session = "running" /\ Built.condition = "none"
    BY <2>3, <2>6 DEF PreRunning, PendingJob, PostRunning
  <2>7. CASE PostRunning(rep) /\ interval = GetGCTime(rep) - now /\ GetGCTime(rep) \in Nat
    BY <1>2, <2>3, <2>7 DEF PreRunning, PendingJob, PostRunning
  <2>8. QED
    BY <1>10, <2>4, <2>5, <2>6, <2>7
<1>17. /\ queuedAt' # NoTime =>
            /\ now <= queuedAt' + Lag
            /\ queuedAt' <= end + t2
            /\ PendingJob(rep) => queuedAt' <= t1 + l
       /\ timer' # NoTime => now <= timer'
  <2>1. now <= now + Lag /\ (PendingJob(rep) => now <= t1 + l)
    BY <1>2, <1>7, <1>12
  <2>2. QED
    BY <1>12, <1>15, <2>1
<1>18. /\ PendingJob(csl)' = PendingJob(rep) /\ PreRunning(csl)' = PreRunning(rep)
       /\ PostRunning(csl)' = PostRunning(rep) /\ GetGCTime(csl)' = GetGCTime(rep)
       /\ csl'.phase = rep.phase
  BY DEF PendingJob, PreRunning, PostRunning, GetGCTime
<1> HIDE DEF end, rep, interval
<1>19. QED
  BY <1>2, <1>3, <1>5, <1>6, <1>16, <1>17, <1>18 DEF Waiting

LEMMA WaitingReconcile ==
  ASSUME TypeOK, SessionsInv, OverstayInv, Lasting', Reconcile, csl'.exists
  PROVE  Waiting'
<1>1. CASE csl' = Reported /\ job' = Built /\ Keep(Reported, Built)
  BY <1>1, WaitingKept
<1>2. CASE CutShort(csl', job') /\ csl' \in {Resolved, Reported}
  <2>1. Waiting /\ Sessions /\ csl.exists
    BY Writes DEF OverstayInv, SessionsInv
  <2>2. /\ csl'.owned /\ now' = now /\ now \in Nat /\ Lag \in Nat
        /\ queuedAt' = now /\ timer' = timer
    BY <1>2, Writes, ResolvedType, ReportedType, DelaysAssumption DEF TypeOK, CutShort
  <2>3. Late' = Late + Lag
    BY <1>2, LateNext DEF CutShort
  <2>4. PendingJob(csl)' => PendingJob(csl)
    <3>1. CASE csl' = Resolved
      BY <3>1, ResolvedType DEF PendingJob
    <3>2. CASE csl' = Reported
      BY <2>1, <3>2, ReportedType DEF PendingJob, calculatePhase, Sessions
    <3>3. QED
      BY <1>2, <3>1, <3>2
  <2>5. PICK t1 \in Nat, g \in Nat, t2 \in Nat :
          t1 = TTLBefore' /\ g = Granted' /\ t2 = TTLAfter'
    BY ReconciledInTime
  <2>6. /\ t1 \in Nat /\ g \in Nat /\ t2 \in Nat /\ Late \in Nat
        /\ now <= t1 + Late + g + 4 * Lag + t2
        /\ PendingJob(csl) => now <= t1 + Late + Lag
    BY <2>5, ReconciledInTime
  <2>7. now <= t1 + (Late + Lag) + g + 3 * Lag + t2 /\ now <= now + Lag
    BY <2>2, <2>6
  <2>8. PendingJob(csl) => now <= t1 + (Late + Lag)
    BY <2>2, <2>6
  <2>9. now # NoTime
    BY <2>2 DEF NoTime
  <2>10. timer # NoTime => now <= timer
    BY <2>1 DEF Waiting
  <2>11. QED
    BY <2>2, <2>3, <2>4, <2>5, <2>7, <2>8, <2>9, <2>10 DEF Waiting, LastEnd
<1>3. QED
  BY <1>1, <1>2, Writes

LEMMA OverstayNext ==
  PositiveTimeouts =>
    (TypeOK /\ SessionsInv /\ GrantInv /\ OverstayInv /\ [Next]_vars => OverstayInv')
<1>1. ASSUME OverstayInv, UNCHANGED vars
      PROVE  OverstayInv'
  BY <1>1 DEF OverstayInv, Waiting, Lasting, LastEnd, Late, TTLBefore, TTLAfter, Granted,
              PendingJob, PreRunning, PostRunning, GetGCTime,
              vars, cluster, kubernetes, queue, history
<1>2. ASSUME TypeOK, SessionsInv, OverstayInv, Others
      PROVE  OverstayInv'
  <2>1. csl' = csl
    BY <1>2, OthersLeave
  <2>2. QED
    BY <1>2, <2>1, LastingOthers, WaitingOthers DEF OverstayInv
<1>3. ASSUME PositiveTimeouts, TypeOK, SessionsInv, GrantInv, OverstayInv, Reconcile
      PROVE  OverstayInv'
  BY <1>3, LastingReconcile, WaitingReconcile DEF OverstayInv
<1>4. QED
  BY <1>1, <1>2, <1>3 DEF Next, Others

LEMMA WithinLongest ==
  ASSUME TypeOK, SessionsInv, OverstayInv
  PROVE  NeverOverstays
<1> SUFFICES ASSUME csl.exists PROVE now <= Longest
  BY DEF NeverOverstays
<1>1. Specified /\ Sessions /\ Prompt /\ Waiting /\ Lasting
  BY DEF SessionsInv, OverstayInv
<1>2. now \in Nat /\ Lag \in Nat /\ queuedAt \in Times /\ MaxErrors \in Nat
  BY DelaysAssumption, BoundsAssumption DEF TypeOK
<1>3. now <= LastEnd + TTLAfter + Lag
  <2>1. CASE queuedAt = NoTime
    BY <1>1, <1>2, <2>1, EarlyEnough, LimitsType DEF LastEnd
  <2>2. CASE queuedAt # NoTime
    BY <1>1, <1>2, <2>2, LimitsType DEF Waiting, LastEnd, Times, NoTime
  <2>3. QED
    BY <2>1, <2>2
<1>4. Longest = TTLBefore + Granted + TTLAfter + 4 * Lag + MaxErrors * Lag
  BY <1>2, LimitsType DEF Longest
<1>5. QED
  BY <1>2, <1>3, <1>4, LimitsType DEF LastEnd

\* No console is there for longer than the time for it to run, the time granted to its
\* session, the time for which it is kept, and a delay for each step between them and for
\* each reconciliation that fails: whatever its template is edited to, its job does, or
\* somebody deletes or authorises, for any delays and any number of edits and errors.
THEOREM GoneInTime ==
  ASSUME PositiveTimeouts
  PROVE  Spec => []NeverOverstays
<1>1. TypeOK /\ SessionsInv /\ GrantInv /\ OverstayInv => NeverOverstays
  BY WithinLongest
<1>2. TypeOK /\ SessionsInv /\ GrantInv /\ [Next]_vars => GrantInv'
  BY GrantNext
<1>3. TypeOK /\ SessionsInv /\ GrantInv /\ OverstayInv /\ [Next]_vars => OverstayInv'
  BY OverstayNext
<1>4. QED
  BY <1>1, <1>2, <1>3, TypeInit, SessionsInit, GrantInit, OverstayInit, TypeCorrect,
     SessionsNext, PTL DEF Spec
=============================================================================
