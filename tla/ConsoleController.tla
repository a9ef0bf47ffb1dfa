-------------------------- MODULE ConsoleController --------------------------
(***************************************************************************)
(* The reconcile loop of one Console, the objects it manages in the        *)
(* Kubernetes API, and the informer caches it reads them through.          *)
(*                                                                         *)
(* Every Get and List of the controller is served by a cache that lags the *)
(* API by any amount; every Create, Update and Delete goes to the API.  A  *)
(* reconciliation is a sequence of steps, so that other actors (the Job    *)
(* controller, authorisers, administrators, the garbage collector, the     *)
(* caches) act between two calls.  A reconciliation of one console never   *)
(* overlaps another: the work queue hands a key to one worker at a time.   *)
(*                                                                         *)
(* Data is kept to what the properties tell apart: a list of               *)
(* authorisations is its length (the list is append-only), a time is       *)
(* whether it is set, and the two time-to-live periods are two flags that  *)
(* turn true once the period has elapsed.                                  *)
(***************************************************************************)
EXTENDS Integers, FiniteSets

CONSTANTS
  Pods,              \* names the Job controller may give to pods
  NoPod,             \* the empty Status.PodName, or a role not yet written
  Rules,             \* rules the template may hold: NoRule, or authorisations required
  Disturbances,      \* what the environment may do beyond a normal session
  Resync,            \* TRUE: a reconciliation may start at any time
  MaxAuthorisations, \* bound on the length of the authorisation list
  Observed,          \* the kinds of lifecycle event that are counted
  MaxErrors          \* bound on failed API calls and crashes of the manager

NoRule == -1           \* the template has no authorisation rules
NoAuthorisation == -1  \* no ConsoleAuthorisation object
NoBinding == -1        \* no DirectoryRoleBinding for the console's user

ASSUME PodsAssumption == NoPod \notin Pods
ASSUME RulesAssumption == Rules \subseteq Nat \cup {NoRule} /\ Rules # {}
ASSUME ModeAssumption == Resync \in BOOLEAN
ASSUME BoundsAssumption == MaxAuthorisations \in Nat /\ MaxErrors \in Nat

Phase == {"Creating", "PendingAuthorisation", "Pending", "Running", "Stopped",
          "Destroyed"}

\* A console as stored: owner reference, deletion timestamp, and its status.
Console == [exists : BOOLEAN, deleting : BOOLEAN, owned : BOOLEAN,
            phase : Phase, podName : Pods \cup {NoPod},
            expiry : BOOLEAN, completion : BOOLEAN]

NewConsole == [exists |-> TRUE, deleting |-> FALSE, owned |-> FALSE,
               phase |-> "Creating", podName |-> NoPod,
               expiry |-> FALSE, completion |-> FALSE]

NoConsole == [NewConsole EXCEPT !.exists = FALSE]

JobState == {"none", "active", "complete", "failed"}
\* A terminating pod is still listed, and still reports the Running phase.
PodState == {"unused", "pending", "running", "finished", "terminating", "gone"}
Listed == {"pending", "running", "finished", "terminating"}
NoPods == [p \in Pods |-> "unused"]

VARIABLES
  \* the API server
  apiCsl, apiAuth, apiJob, apiPods, authoriserAccess, role, binding, tpl,
  \* the informer caches; cacheFresh: cacheCsl holds the latest resourceVersion,
  \* jobFresh: every change of the job has been delivered
  cacheCsl, cacheFresh, cacheAuth, cacheJob, jobFresh, cachePods,
  \* the reconciliation in progress, named as in the source
  pc, csl, isNewConsole, authRule, authorisation, job, podList,
  \* the work queue, the delayed requeues, the elapsed TTLs, failures so far
  queued, timer, beforeTTL, afterTTL, errors,
  \* lifecycle events handed to the publisher: 0, 1 or many of each
  events

access == <<authoriserAccess, role, binding>>
cslCache == <<cacheCsl, cacheFresh>>
jobCache == <<cacheJob, jobFresh>>
api == <<apiCsl, apiAuth, apiJob, apiPods, access, tpl>>
caches == <<cslCache, cacheAuth, jobCache, cachePods>>
context == <<isNewConsole, authRule, authorisation, job, podList>>
clocks == <<beforeTTL, afterTTL>>
env == <<clocks, errors>>
vars == <<api, caches, pc, csl, context, queued, timer, env, events>>

PC == {"idle", "setOwner", "createAuthorisation", "createAuthoriserAccess",
       "getAuthorisation", "getJob", "createJob", "listPods", "deleteJob",
       "deletePods", "abortStatus", "status", "updateStatus", "userRole",
       "userBinding", "collect"}

Timer == {"poll", "beforeTTL", "afterTTL"}

-----------------------------------------------------------------------------
(* The console's phases: api/workloads/v1alpha1/helpers.go *)

PendingJob_AwaitsNoApproval(c) == c.phase = "Creating"                 \* mutant
PendingJob(c) == c.phase \in {"Creating", "PendingAuthorisation"}
PreRunning(c) == c.phase \in {"Creating", "PendingAuthorisation", "Pending"}
PostRunning(c) == c.phase \in {"Stopped", "Destroyed"}

\* GetGCTime has a time to return: it dereferences ExpiryTime when a finished
\* console has no CompletionTime.
HasGCTime(c) == PostRunning(c) => c.completion \/ c.expiry

EligibleForGC(c) == \/ PreRunning(c) /\ beforeTTL
                    \/ PostRunning(c) /\ afterTTL

isConsoleAuthorised_OneShort(rule, auth) ==                            \* mutant
  rule # NoRule => auth # NoAuthorisation /\ auth + 1 >= rule

isConsoleAuthorised(rule, auth) ==
  rule # NoRule => /\ auth # NoAuthorisation
                   /\ auth >= rule

ListedPods(list) == {p \in Pods : list[p] \in Listed}

JobPhase_Failed(isAuthorised, theJob, list) ==                         \* mutant
  IF ~isAuthorised THEN "PendingAuthorisation"
  ELSE IF theJob = "failed" THEN "Failed" ELSE "Pending"

JobPhase_JobFirst(isAuthorised, theJob, list) ==                       \* mutant
  IF theJob = "none" THEN "Destroyed"
  ELSE IF isAuthorised THEN "Pending" ELSE "PendingAuthorisation"

JobPhase_Active(isAuthorised, theJob, list) ==                         \* mutant
  IF ~isAuthorised THEN "PendingAuthorisation"
  ELSE IF theJob = "none" THEN "Destroyed"
  ELSE IF theJob = "active" THEN "Running" ELSE "Stopped"

calculatePhase(isAuthorised, theJob, list) ==
  IF ~isAuthorised THEN "PendingAuthorisation"
  ELSE IF theJob = "none" THEN "Destroyed"
  ELSE IF theJob \in {"complete", "failed"} THEN "Stopped"
  ELSE IF \E p \in ListedPods(list) : list[p] \in {"running", "terminating"}
       THEN "Running"
  ELSE "Pending"

\* The status is only ever computed with at most one listed pod.
calculateStatus(c, isAuthorised, theJob, list) ==
  [c EXCEPT !.phase = calculatePhase(isAuthorised, theJob, list),
            !.expiry = @ \/ theJob # "none",
            !.completion = IF theJob = "none" THEN @ ELSE theJob = "complete",
            !.podName = IF \E p \in Pods : p \in ListedPods(list)
                        THEN CHOOSE p \in Pods : p \in ListedPods(list)
                        ELSE @]

-----------------------------------------------------------------------------
Init ==
  /\ apiCsl = NewConsole /\ apiAuth = NoAuthorisation
  /\ apiJob = "none" /\ apiPods = NoPods
  /\ authoriserAccess = FALSE /\ role = NoPod /\ binding = NoBinding
  /\ tpl \in Rules
  /\ cacheCsl = NoConsole /\ cacheFresh = FALSE
  /\ cacheAuth = NoAuthorisation /\ cacheJob = "none"
  /\ jobFresh = TRUE /\ cachePods = NoPods
  /\ pc = "idle" /\ csl = NoConsole /\ isNewConsole = FALSE /\ authRule = NoRule
  /\ authorisation = NoAuthorisation /\ job = "none" /\ podList = NoPods
  /\ queued = Resync /\ timer = "none"
  /\ beforeTTL = FALSE /\ afterTTL = FALSE /\ errors = 0
  /\ events = [request |-> 0, start |-> 0, terminate |-> 0]

\* How a reconciliation ends: its local values are dropped.
Return ==
  /\ pc' = "idle" /\ csl' = NoConsole /\ isNewConsole' = FALSE
  /\ authRule' = NoRule /\ authorisation' = NoAuthorisation
  /\ job' = "none" /\ podList' = NoPods

\* An error makes the work queue retry the key (after a back-off).
ReturnError == Return /\ queued' = TRUE /\ UNCHANGED timer

ReturnDone == Return /\ UNCHANGED <<queued, timer>>

\* The queue keeps one delayed entry per key, the earlier of the two.
ReturnAfter(t) ==
  /\ Return /\ UNCHANGED queued
  /\ timer' \in IF Resync THEN {timer} ELSE {t, timer} \ {"none"}

GoTo(label) == pc' = label /\ UNCHANGED <<queued, timer>>

\* Lifecycle events are handed to the publisher; its failure is only logged.
Record(kind, times) ==
  events' = IF kind \in Observed
            THEN [events EXCEPT ![kind] = IF @ + times < 2 THEN @ + times ELSE 2]
            ELSE events

Once(happens) == IF happens THEN 1 ELSE 0

\* A write to the API that the informer has yet to deliver.
PutCsl(c) == apiCsl' = c /\ cacheFresh' = FALSE
PutJob(j) == apiJob' = j /\ jobFresh' = FALSE

\* A deleted pod that has not finished is listed until it has terminated.
Removed(state) ==
  IF state \in {"pending", "running"} THEN "terminating"
  ELSE IF state = "finished" THEN "gone" ELSE state

RemovePods(pods) ==
  apiPods' = [p \in Pods |-> IF p \in pods THEN Removed(apiPods[p]) ELSE apiPods[p]]

\* CreateOrUpdate of the console: it is fetched again from the cache, and what
\* is submitted is that object with the caller's owner and status on it, under
\* the fetched object's resourceVersion.
consoleDiff(expected, existing) ==
  [expected EXCEPT !.exists = existing.exists, !.deleting = existing.deleting]

Submitted(expected) == consoleDiff(expected, cacheCsl)

PutConsole(expected) ==
  /\ cacheCsl.exists
  /\ \/ Submitted(expected) = cacheCsl /\ UNCHANGED <<apiCsl, cacheFresh>>
     \/ /\ Submitted(expected) # cacheCsl /\ cacheFresh
        /\ PutCsl(Submitted(expected))

\* The cached console is gone (a Create with a resourceVersion is refused), or
\* the update conflicts because the cache is behind.
PutConsoleFails(expected) ==
  /\ ~cacheCsl.exists \/ (Submitted(expected) # cacheCsl /\ ~cacheFresh)
  /\ UNCHANGED <<apiCsl, cacheFresh>>

-----------------------------------------------------------------------------
(* The reconciliation *)

\* ResolveAndReconcile leaves a console that is gone or being deleted alone.
Reconcilable_Deleting(c) == c.exists                                   \* mutant
Reconcilable(c) == c.exists /\ ~c.deleting

\* A console without an owner reference has not been reconciled before.
IsNew(c) == ~c.owned

\* ResolveAndReconcile, then Reconcile up to its first API call.
Start ==
  /\ pc = "idle" /\ queued
  /\ queued' = Resync
  /\ IF Reconcilable(cacheCsl)
     THEN /\ pc' = "setOwner"
          /\ isNewConsole' = IsNew(cacheCsl)
          /\ authRule' = tpl
          /\ csl' = [cacheCsl EXCEPT !.owned = TRUE]
     ELSE UNCHANGED <<pc, isNewConsole, authRule, csl>>
  /\ UNCHANGED <<api, caches, authorisation, job, podList, timer, env, events>>

\* The first createOrUpdate of the console: owner reference and spec defaults.
SetConsoleOwner ==
  /\ pc = "setOwner"
  /\ \/ /\ PutConsole(csl) /\ csl' = Submitted(csl)
        /\ GoTo(IF authRule = NoRule THEN "getJob" ELSE "createAuthorisation")
        /\ UNCHANGED context
     \/ PutConsoleFails(csl) /\ ReturnError
  /\ UNCHANGED <<apiAuth, apiJob, apiPods, access, tpl,
                 cacheCsl, cacheAuth, jobCache, cachePods, env, events>>

\* The list of an existing authorisation is left to the authorisers.
authorisationDiff(existing) == existing

\* createAuthorisationObjects: an empty authorisation unless the cache has one.
CreateAuthorisation ==
  /\ pc = "createAuthorisation"
  /\ \/ /\ cacheAuth = NoAuthorisation /\ apiAuth = NoAuthorisation
        /\ apiAuth' = 0
        /\ GoTo("createAuthoriserAccess")
        /\ UNCHANGED <<csl, context>>
     \/ /\ cacheAuth # NoAuthorisation
        /\ apiAuth' = authorisationDiff(apiAuth)
        /\ GoTo("createAuthoriserAccess")
        /\ UNCHANGED <<csl, context>>
     \/ /\ cacheAuth = NoAuthorisation /\ apiAuth # NoAuthorisation
        /\ ReturnError                                     \* AlreadyExists
        /\ UNCHANGED apiAuth
  /\ UNCHANGED <<apiCsl, apiJob, apiPods, access, tpl, caches, env, events>>

\* The role, then the binding, that let the rule's subjects update the authorisation: both
\* have to be there.  That one of the two calls conflicts is a Fail, as of UserRole below.
CreateAuthoriserAccess ==
  /\ pc = "createAuthoriserAccess"
  /\ authoriserAccess' = TRUE
  /\ GoTo("getAuthorisation")
  /\ UNCHANGED <<apiCsl, apiAuth, apiJob, apiPods, role, binding, tpl, caches,
                 csl, context, env, events>>

\* getConsoleAuthorisation reads the cache: not found while the cache lags.
GetConsoleAuthorisation ==
  /\ pc = "getAuthorisation"
  /\ \/ /\ cacheAuth # NoAuthorisation
        /\ authorisation' = cacheAuth
        /\ GoTo("getJob")
        /\ UNCHANGED <<csl, isNewConsole, authRule, job, podList>>
     \/ cacheAuth = NoAuthorisation /\ ReturnError
  /\ UNCHANGED <<api, caches, env, events>>

\* The request event of a new console, then getJob, whose only error from the
\* cache is NotFound.
GetJob ==
  /\ pc = "getJob"
  /\ Record("request", Once(isNewConsole))
  /\ job' = cacheJob
  /\ GoTo(IF \/ isConsoleAuthorised(authRule, authorisation) /\ PendingJob(csl)
             \/ cacheJob # "none"
          THEN "createJob" ELSE "status")
  /\ UNCHANGED <<api, caches, csl, isNewConsole, authRule, authorisation, podList,
                 env>>

\* createOrUpdate of the job reads the cache a second time; jobDiff leaves the
\* modelled part of an existing job alone.
CreateJob ==
  /\ pc = "createJob"
  /\ \/ /\ cacheJob # "none"
        /\ job' = cacheJob
        /\ GoTo("listPods")
        /\ UNCHANGED <<apiJob, jobFresh, csl, isNewConsole, authRule, authorisation,
                       podList>>
     \/ /\ cacheJob = "none" /\ apiJob = "none"
        /\ job' = "active" /\ PutJob("active")
        /\ GoTo("listPods")
        /\ UNCHANGED <<csl, isNewConsole, authRule, authorisation, podList>>
     \/ /\ cacheJob = "none" /\ apiJob # "none"            \* AlreadyExists
        /\ ReturnError
        /\ UNCHANGED <<apiJob, jobFresh>>
  /\ UNCHANGED <<apiCsl, apiAuth, apiPods, access, tpl, cslCache, cacheAuth,
                 cacheJob, cachePods, env, events>>

SubsequentPod_Unlisted(list) ==                                        \* mutant
  csl.podName # NoPod /\ ListedPods(list) # {csl.podName}

SubsequentPod(list) ==
  \/ Cardinality(ListedPods(list)) > 1
  \/ csl.podName # NoPod /\ ListedPods(list) \notin {{}, {csl.podName}}

\* The start event of a console that was waiting for its job, then the pods.
ListPods ==
  /\ pc = "listPods"
  /\ Record("start", Once(PendingJob(csl)))
  /\ podList' = cachePods
  /\ GoTo(IF SubsequentPod(cachePods) THEN "deleteJob" ELSE "status")
  /\ UNCHANGED <<api, caches, csl, isNewConsole, authRule, authorisation, job, env>>

\* abort: the job, then every listed pod, then the console, then the event.
AbortDeleteJob ==
  /\ pc = "deleteJob"
  /\ \/ /\ apiJob # "none" /\ PutJob("none")
        /\ GoTo("deletePods")
        /\ UNCHANGED <<csl, context>>
     \/ /\ apiJob = "none" /\ ReturnError                     \* NotFound
        /\ UNCHANGED <<apiJob, jobFresh>>
  /\ UNCHANGED <<apiCsl, apiAuth, apiPods, access, tpl, cslCache, cacheAuth,
                 cacheJob, cachePods, env, events>>

AbortDeletePods ==
  /\ pc = "deletePods"
  /\ RemovePods(ListedPods(podList))
  /\ IF \A p \in ListedPods(podList) : apiPods[p] \in Listed
     THEN GoTo("abortStatus") /\ UNCHANGED <<csl, context>>
     ELSE ReturnError
  /\ UNCHANGED <<apiCsl, apiAuth, apiJob, access, tpl, caches, env, events>>

\* The Stopped status is put on updatedCsl, but csl is what is written.
AbortUpdateConsole ==
  /\ pc = "abortStatus"
  /\ \/ PutConsole(csl) /\ Record("terminate", 1) /\ ReturnDone
     \/ PutConsoleFails(csl) /\ ReturnError /\ UNCHANGED events
  /\ UNCHANGED <<apiAuth, apiJob, apiPods, access, tpl,
                 cacheCsl, cacheAuth, jobCache, cachePods, env>>

Ended_FromRunning(old, new) ==                                         \* mutant
  old.phase = "Running" /\ new.phase = "Stopped"

Ended(old, new) == old.phase # "Stopped" /\ new.phase = "Stopped"

\* generateStatusAndAuditEvents.  A console that waits for authorisation past its
\* time is reported terminated, and so is one whose phase turns Stopped.
UpdateStatus ==
  /\ pc = "status"
  /\ LET authorised == isConsoleAuthorised(authRule, authorisation)
         new == calculateStatus(csl, authorised, job, podList)
     IN  /\ csl' = new
         /\ Record("terminate",
                   Once(Ended(csl, new))
                   + Once(csl.phase = "PendingAuthorisation" /\ EligibleForGC(csl)))
  /\ GoTo("updateStatus")
  /\ UNCHANGED <<api, caches, context, env>>

\* The second createOrUpdate of the console.
PutStatus ==
  /\ pc = "updateStatus"
  /\ \/ /\ PutConsole(csl) /\ csl' = Submitted(csl)
        /\ GoTo(IF csl.phase = "Running" THEN "userRole" ELSE "collect")
        /\ UNCHANGED context
     \/ PutConsoleFails(csl) /\ ReturnError
  /\ UNCHANGED <<apiAuth, apiJob, apiPods, access, tpl,
                 cacheCsl, cacheAuth, jobCache, cachePods, env, events>>

\* createOrUpdateUserRbac: the role names the pod, then the binding names the
\* console's user and every authoriser read at the start.
UserRole ==
  /\ pc = "userRole"
  /\ role' = csl.podName
  /\ GoTo("userBinding")
  /\ UNCHANGED <<apiCsl, apiAuth, apiJob, apiPods, authoriserAccess, binding, tpl,
                 caches, csl, context, env, events>>

UserBinding_Required ==                                                \* mutant
  /\ pc = "userBinding"
  /\ binding' = IF authorisation > authRule THEN authRule ELSE authorisation
  /\ ReturnAfter("poll")
  /\ UNCHANGED <<apiCsl, apiAuth, apiJob, apiPods, authoriserAccess, role, tpl,
                 caches, env, events>>

UserBinding ==
  /\ pc = "userBinding"
  /\ binding' = IF authorisation = NoAuthorisation THEN 0 ELSE authorisation
  /\ ReturnAfter("poll")
  /\ UNCHANGED <<apiCsl, apiAuth, apiJob, apiPods, authoriserAccess, role, tpl,
                 caches, env, events>>

RequeueTimer(c) ==
  IF c.phase = "Pending" THEN "poll"
  ELSE IF PostRunning(c) THEN "afterTTL" ELSE "beforeTTL"

\* Delete the console once its time has come, or come back when it has.
Collect ==
  /\ pc = "collect"
  /\ \/ /\ EligibleForGC(csl) /\ apiCsl.exists
        /\ PutCsl(NoConsole)
        /\ ReturnDone
     \/ /\ EligibleForGC(csl) /\ ~apiCsl.exists              \* NotFound
        /\ ReturnError
        /\ UNCHANGED <<apiCsl, cacheFresh>>
     \/ /\ ~EligibleForGC(csl)
        /\ ReturnAfter(RequeueTimer(csl))
        /\ UNCHANGED <<apiCsl, cacheFresh>>
  /\ UNCHANGED <<apiAuth, apiJob, apiPods, access, tpl,
                 cacheCsl, cacheAuth, jobCache, cachePods, env, events>>

\* An API call is refused, or the manager restarts and lists every console anew.
Fail ==
  /\ pc # "idle" /\ errors < MaxErrors
  /\ errors' = errors + 1
  /\ ReturnError
  /\ UNCHANGED <<api, caches, clocks, events>>

Continue ==
  \/ SetConsoleOwner \/ CreateAuthorisation \/ CreateAuthoriserAccess
  \/ GetConsoleAuthorisation \/ GetJob \/ CreateJob \/ ListPods
  \/ AbortDeleteJob \/ AbortDeletePods \/ AbortUpdateConsole
  \/ UpdateStatus \/ PutStatus \/ UserRole \/ UserBinding \/ Collect

Reconcile == Start \/ Continue

-----------------------------------------------------------------------------
(* The informers and the work queue *)

reconciler == <<pc, csl, context>>

SyncConsole ==
  /\ ~cacheFresh
  /\ cacheCsl' = apiCsl /\ cacheFresh' = TRUE /\ queued' = TRUE
  /\ UNCHANGED <<api, cacheAuth, jobCache, cachePods, reconciler, timer, env,
                 events>>

SyncAuthorisation_Creations ==                                         \* mutant
  /\ cacheAuth # apiAuth
  /\ cacheAuth' = apiAuth
  /\ queued' = (queued \/ cacheAuth = NoAuthorisation)
  /\ UNCHANGED <<api, cslCache, jobCache, cachePods, reconciler,
                 timer, env, events>>

\* The creation of the authorisation does not trigger a reconciliation.
SyncAuthorisation ==
  /\ cacheAuth # apiAuth
  /\ cacheAuth' = apiAuth
  /\ queued' = (queued \/ cacheAuth # NoAuthorisation)
  /\ UNCHANGED <<api, cslCache, jobCache, cachePods, reconciler,
                 timer, env, events>>

SyncJob ==
  /\ ~jobFresh
  /\ cacheJob' = apiJob /\ jobFresh' = TRUE /\ queued' = TRUE
  /\ UNCHANGED <<api, cslCache, cacheAuth, cachePods, reconciler, timer, env, events>>

\* Pods are not watched.
SyncPods ==
  /\ cachePods # apiPods
  /\ cachePods' = apiPods
  /\ UNCHANGED <<api, cslCache, cacheAuth, jobCache, reconciler,
                 queued, timer, env, events>>

Due(t) == \/ t = "poll"
          \/ t = "beforeTTL" /\ beforeTTL
          \/ t = "afterTTL" /\ afterTTL

Requeue ==
  /\ Due(timer)
  /\ timer' = "none" /\ queued' = TRUE
  /\ UNCHANGED <<api, caches, reconciler, env, events>>

BeforeTTLElapses ==
  /\ apiCsl.exists /\ ~beforeTTL
  /\ beforeTTL' = TRUE
  /\ UNCHANGED <<api, caches, reconciler, queued, timer, afterTTL, errors, events>>

\* Counted from the expiry or completion the controller has recorded.
AfterTTLElapses ==
  /\ apiCsl.expiry /\ ~afterTTL
  /\ afterTTL' = TRUE
  /\ UNCHANGED <<api, caches, reconciler, queued, timer, beforeTTL, errors, events>>

-----------------------------------------------------------------------------
(* The rest of the cluster: not under src/, modelled from how it is used *)

controller == <<cslCache, cacheAuth, cacheJob, cachePods, reconciler, queued, timer,
                env, events>>
cluster == <<controller, jobFresh>>

\* An authoriser appends to the list: see ConsoleAuthorisation.
Authorise ==
  /\ authoriserAccess /\ cacheCsl.exists
  /\ apiAuth # NoAuthorisation /\ apiAuth < MaxAuthorisations
  /\ apiAuth' = apiAuth + 1
  /\ UNCHANGED <<apiCsl, apiJob, apiPods, access, tpl, cluster>>

\* The Job controller runs one pod, and another when that one is lost; names are
\* arbitrary, so the next unused one will do.
CreatePod(p) ==
  /\ apiJob = "active" /\ apiPods[p] = "unused"
  /\ p = CHOOSE q \in Pods : apiPods[q] = "unused"
  /\ \A q \in Pods : apiPods[q] \notin {"pending", "running", "finished"}
  /\ apiPods' = [apiPods EXCEPT ![p] = "pending"]
  /\ UNCHANGED <<apiCsl, apiAuth, apiJob, access, tpl, cluster>>

MovePod(p, from, to) ==
  /\ apiPods[p] \in from
  /\ apiPods' = [apiPods EXCEPT ![p] = to]
  /\ UNCHANGED <<apiCsl, apiAuth, apiJob, access, tpl, cluster>>

StartPod(p) == MovePod(p, {"pending"}, "running")
FinishPod(p) == MovePod(p, {"running"}, "finished")
EvictPod(p) == "evict" \in Disturbances /\ MovePod(p, {"pending", "running"}, "terminating")
RemovePod(p) == MovePod(p, {"terminating"}, "gone")

\* The job's conditions follow its pod, or its deadline, which removes the pod.
FinishJob ==
  /\ apiJob = "active" /\ \E p \in Pods : apiPods[p] = "finished"
  /\ \E outcome \in {"complete", "failed"} : PutJob(outcome)
  /\ UNCHANGED <<apiCsl, apiAuth, apiPods, access, tpl, controller>>

JobDeadline ==
  /\ apiJob = "active" /\ PutJob("failed")
  /\ RemovePods(Pods)
  /\ UNCHANGED <<apiCsl, apiAuth, access, tpl, controller>>

DeleteJob ==
  /\ "deleteJob" \in Disturbances /\ apiCsl.exists
  /\ apiJob # "none" /\ PutJob("none")
  /\ RemovePods(Pods)
  /\ UNCHANGED <<apiCsl, apiAuth, access, tpl, controller>>

\* An administrator deletes the console: at once, or after its dependents.
DeleteConsole ==
  /\ "deleteConsole" \in Disturbances /\ apiCsl.exists
  /\ PutCsl(NoConsole)
  /\ UNCHANGED <<apiAuth, apiJob, apiPods, access, tpl, cacheCsl, cacheAuth,
                 jobCache, cachePods, reconciler, queued, timer, env, events>>

DeleteConsoleForeground ==
  /\ "foreground" \in Disturbances /\ apiCsl.exists /\ ~apiCsl.deleting
  /\ PutCsl([apiCsl EXCEPT !.deleting = TRUE])
  /\ UNCHANGED <<apiAuth, apiJob, apiPods, access, tpl, cacheCsl, cacheAuth,
                 jobCache, cachePods, reconciler, queued, timer, env, events>>

EditTemplate ==
  /\ "editTemplate" \in Disturbances
  /\ tpl' \in Rules \ {tpl}
  /\ UNCHANGED <<apiCsl, apiAuth, apiJob, apiPods, access, cluster>>

\* Kubernetes collects what the console owns, then a console that waits for that.
Orphaned == ~apiCsl.exists \/ apiCsl.deleting

CollectJob ==
  /\ Orphaned /\ apiJob # "none" /\ PutJob("none")
  /\ RemovePods(Pods)
  /\ UNCHANGED <<apiCsl, apiAuth, access, tpl, controller>>

CollectAuthorisation ==
  /\ Orphaned /\ apiAuth # NoAuthorisation /\ apiAuth' = NoAuthorisation
  /\ UNCHANGED <<apiCsl, apiJob, apiPods, access, tpl, cluster>>

NoAccess == ~authoriserAccess /\ role = NoPod /\ binding = NoBinding

CollectAccess ==
  /\ Orphaned /\ ~NoAccess
  /\ authoriserAccess' = FALSE /\ role' = NoPod /\ binding' = NoBinding
  /\ UNCHANGED <<apiCsl, apiAuth, apiJob, apiPods, tpl, cluster>>

RemoveConsole ==
  /\ apiCsl.exists /\ apiCsl.deleting
  /\ apiAuth = NoAuthorisation /\ apiJob = "none" /\ NoAccess
  /\ PutCsl(NoConsole)
  /\ UNCHANGED <<apiAuth, apiJob, apiPods, access, tpl, cacheCsl, cacheAuth,
                 jobCache, cachePods, reconciler, queued, timer, env, events>>

PodStep(p) ==
  CreatePod(p) \/ StartPod(p) \/ FinishPod(p) \/ EvictPod(p) \/ RemovePod(p)

Environment ==
  \/ SyncConsole \/ SyncAuthorisation \/ SyncJob \/ SyncPods
  \/ Requeue \/ BeforeTTLElapses \/ AfterTTLElapses
  \/ Authorise \/ FinishJob \/ JobDeadline \/ (\E p \in Pods : PodStep(p))
  \/ DeleteJob \/ DeleteConsole \/ DeleteConsoleForeground \/ EditTemplate
  \/ CollectJob \/ CollectAuthorisation \/ CollectAccess \/ RemoveConsole

\* With the console gone there may be nothing left to do.
Gone == ~apiCsl.exists /\ UNCHANGED vars

Next == Reconcile \/ Fail \/ Environment \/ Gone

Spec == Init /\ [][Next]_vars

\* The controller's worker, the informers, the clocks and Kubernetes' own
\* controllers and kubelets keep running; nobody has to authorise, edit, evict or delete.
Fairness ==
  /\ WF_vars(Reconcile)
  /\ WF_vars(SyncConsole) /\ WF_vars(SyncAuthorisation)
  /\ WF_vars(SyncJob) /\ WF_vars(SyncPods)
  /\ WF_vars(Requeue) /\ WF_vars(BeforeTTLElapses) /\ WF_vars(AfterTTLElapses)
  /\ WF_vars(FinishJob) /\ WF_vars(JobDeadline)
  /\ WF_vars(\E p \in Pods : RemovePod(p))
  /\ WF_vars(CollectJob) /\ WF_vars(CollectAuthorisation)
  /\ WF_vars(CollectAccess) /\ WF_vars(RemoveConsole)

\* The scheduling that liveness needs besides: a reconciliation starts once the informer
\* has delivered what the one before it wrote.  The code does not wait for that, so that
\* nothing about safety relies on it; an error keeps the key out of the queue for longer
\* each time, which lets the informer catch up.
FreshStart == cacheFresh /\ Start

FreshSpec == Init /\ [][FreshStart \/ Continue \/ Fail \/ Environment \/ Gone]_vars

FairSpec == FreshSpec /\ Fairness

-----------------------------------------------------------------------------
(* Properties *)

ApiType ==
  /\ apiCsl \in Console /\ apiAuth \in Nat \cup {NoAuthorisation}
  /\ apiJob \in JobState /\ apiPods \in [Pods -> PodState]
  /\ authoriserAccess \in BOOLEAN /\ role \in Pods \cup {NoPod}
  /\ binding \in Nat \cup {NoBinding} /\ tpl \in Rules

CacheType ==
  /\ cacheCsl \in Console /\ cacheFresh \in BOOLEAN
  /\ cacheAuth \in Nat \cup {NoAuthorisation}
  /\ cacheJob \in JobState /\ jobFresh \in BOOLEAN
  /\ cachePods \in [Pods -> PodState]

ReconcileType ==
  /\ pc \in PC /\ csl \in Console /\ isNewConsole \in BOOLEAN
  /\ authRule \in Rules \cup {NoRule}
  /\ authorisation \in Nat \cup {NoAuthorisation}
  /\ job \in JobState /\ podList \in [Pods -> PodState]

QueueType ==
  /\ queued \in BOOLEAN /\ timer \in Timer \cup {"none"}
  /\ beforeTTL \in BOOLEAN /\ afterTTL \in BOOLEAN /\ errors \in 0..MaxErrors
  /\ events \in [request : 0..2, start : 0..2, terminate : 0..2]

\* Every variable holds a value of its type: in particular a phase is always one
\* of calculatePhase's and a recorded pod name is that of a pod.
TypeOK == ApiType /\ CacheType /\ ReconcileType /\ QueueType

\* GetGCTime never dereferences a missing ExpiryTime: whichever copy of a
\* finished console is held, stored or about to be stored, has a time to count
\* the after-finished TTL from, however stale the copy it was computed from.
GCTimeRecorded == HasGCTime(apiCsl) /\ HasGCTime(cacheCsl) /\ HasGCTime(csl)

\* A console's job exists only if the authorisations in the API satisfy a rule
\* its template has had, whatever stale copy the controller decided on, and even
\* on the path that creates a job because one was seen earlier.
AuthorisedJob ==
  ~Orphaned /\ apiJob # "none" => \E r \in Rules : apiAuth >= r

\* Access to the pod is granted only for an authorised console, only to a pod that
\* its job has had, and to no more authorisers than have authorised.
AuthorisedAccess ==
  ~Orphaned /\ binding # NoBinding =>
    /\ \E r \in Rules : apiAuth >= r
    /\ binding > 0 => binding <= apiAuth
    /\ role # NoPod /\ apiPods[role] # "unused"

\* No reconciliation takes an authoriser's access away again by writing the
\* binding from an older list than an earlier reconciliation had.
KeepsAuthorisers ==
  [][~Orphaned /\ binding' # NoBinding => binding' >= binding]_vars

\* The audit trail is never behind the stored console: one that is stored as past
\* its gate has a start event and one stored as stopped a terminate event, wherever
\* a reconciliation was cut short and whatever it had recorded before.
AuditedTransitions ==
  /\ "start" \in Observed /\ apiCsl.phase \in {"Pending", "Running", "Stopped"}
       => events.start > 0
  /\ "terminate" \in Observed /\ apiCsl.phase = "Stopped" => events.terminate > 0

\* A session is not aborted by mistake: whatever the age of the recorded pod name and of
\* the list of pods that a reconciliation goes by, it only deletes the job of a console
\* that has had a second pod.
AbortsForSecondPod ==
  pc = "deleteJob" => \E p, q \in Pods :
    p # q /\ apiPods[p] # "unused" /\ apiPods[q] # "unused"

\* abort stops the console: "More than one pod observed for console; deleting job
\* and stopping console" (console_controller.go:322, "Update console status" at 681).
\* Where the cached console is current and no call fails, abort's write has succeeded.
AbortStopsConsole ==
  [][pc = "abortStatus" /\ pc' = "idle" /\ cacheFresh /\ ~Orphaned /\ errors' = errors
       => apiCsl'.phase = "Stopped"]_vars

\* What the first write of a reconciliation is for is the owner and defaults, from the
\* "fresh version of the object" (console_controller.go:229-230): it leaves the status alone.
OwnerWriteKeepsStatus ==
  [][pc = "setOwner" /\ ~Orphaned /\ ~Orphaned' => apiCsl'.phase = apiCsl.phase]_vars

\* "If we have yet to set the owner reference then this is a new console request"
\* (console_controller.go:200): a console is requested once.
RequestedOnce == events.request <= 1

\* "We want consoles to never launch more than one pod" (console_controller.go:316-317):
\* its user is not given access to a second one.
OnePodPerConsole == [][role # NoPod => role' \in {role, NoPod}]_vars

\* A job is created only while the console has yet to pass the Creating phase: once
\* past it and the job gone, "then don't recreate it" (console_controller.go:284-287).
NeverRecreatesJob ==
  [][~Orphaned /\ apiJob = "none" /\ apiJob' # "none" => PendingJob(apiCsl)]_vars

\* The before-running TTL collects only a console that "hasn't progressed to running"
\* (helpers.go:70): a console whose pod the user was given access to has.
BeforeTTLSparesStarted ==
  [][pc = "collect" /\ apiCsl.exists /\ ~apiCsl'.exists /\ role # NoPod => afterTTL]_vars

\* Nothing is under way, queued or still to be delivered that would have the controller
\* look at the console before the timer does.
AtRest == pc = "idle" /\ ~queued /\ cacheFresh /\ jobFresh /\ cacheAuth = apiAuth

\* Nothing that the controller is told of goes unnoticed, whenever it came between two calls
\* of a reconciliation: a console left to its timer has a phase that its authorisations and
\* its job call for (nobody tells of its pods, or of an edit of its template), and there
\* is a timer to leave it to.
NothingUnnoticed ==
  ~Orphaned /\ AtRest =>
    /\ timer # "none"
    /\ \E rule \in Rules, list \in [Pods -> PodState] :
         apiCsl.phase = calculatePhase(isConsoleAuthorised(rule, apiAuth), apiJob, list)

\* Every console is garbage collected in the end, whatever phase it is left in.
EventuallyCollected == <>~apiCsl.exists
=============================================================================
