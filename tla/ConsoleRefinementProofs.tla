----------------------- MODULE ConsoleRefinementProofs -----------------------
(***************************************************************************)
(* What holds of a console from one reconciliation to the next: access     *)
(* once given, the audit trail, what it is aborted for, the lifecycle that *)
(* the controller promises, and that nothing it is told of is missed, for  *)
(* any pods, rules and bounds, however old the copies a reconciliation     *)
(* starts from.                                                            *)
(***************************************************************************)
EXTENDS ConsoleRefinement, ConsoleControllerProofs, FiniteSetTheorems

-----------------------------------------------------------------------------
(* Authorisers keep their access *)

\* Until the list of authorisations is read, and then until getJob.
Reading == {"setOwner", "createAuthorisation", "createAuthoriserAccess",
            "getAuthorisation"}

\* What a reconciliation that has read its list goes by: the list it has kept, the
\* cached list, or none where the template asks for none.
LEMMA ListSources ==
  ASSUME [Next]_vars, pc' \notin Reading \cup {"idle"}
  PROVE  \/ pc \notin Reading \cup {"idle"} /\ authorisation' = authorisation
         \/ /\ pc = "getAuthorisation" /\ csl' = csl
            /\ authorisation' = cacheAuth /\ cacheAuth # NoAuthorisation
         \/ pc = "setOwner" /\ authRule = NoRule
<1> USE DEF Reading
<1>1. CASE UNCHANGED reconciler
  BY <1>1 DEF reconciler, context
<1>2. CASE Reconcile \/ Fail
  <2>1. CASE Start \/ CreateAuthorisation \/ CreateAuthoriserAccess
    BY <2>1 DEF Start, CreateAuthorisation, CreateAuthoriserAccess, GoTo, ReturnError, Return
  <2>2. CASE SetConsoleOwner
    BY <2>2 DEF SetConsoleOwner, GoTo, ReturnError, Return
  <2>3. CASE GetConsoleAuthorisation
    BY <2>3 DEF GetConsoleAuthorisation, GoTo, ReturnError, Return
  <2>4. CASE GetJob \/ CreateJob \/ ListPods
    BY <2>4 DEF GetJob, CreateJob, ListPods, ReturnError, Return
  <2>5. CASE AbortDeleteJob \/ AbortDeletePods \/ AbortUpdateConsole
    BY <2>5 DEF AbortDeleteJob, AbortDeletePods, AbortUpdateConsole, GoTo, context,
       ReturnError, ReturnDone, Return
  <2>6. CASE UpdateStatus \/ PutStatus \/ UserRole
    BY <2>6 DEF UpdateStatus, PutStatus, UserRole, context, ReturnError, Return
  <2>7. CASE UserBinding \/ Collect \/ Fail
    BY <2>7 DEF UserBinding, Collect, Fail, ReturnError, ReturnDone, ReturnAfter, Return
  <2> QED BY <1>2, <2>1, <2>2, <2>3, <2>4, <2>5, <2>6, <2>7 DEF Reconcile, Continue
<1>3. CASE Informers \/ Cluster \/ UNCHANGED vars
  BY <1>1, <1>3, InformersKeep, ClusterKeeps DEF vars, reconciler
<1> QED BY NextSplits, <1>2, <1>3

\* The cached list has all that the binding names, and so has a list once read.
GrantedBehind ==
  ~Orphaned =>
    /\ binding <= cacheAuth /\ authorisation <= cacheAuth
    /\ pc \notin Reading \cup {"idle"} =>
         binding <= authorisation /\ authorisation # NoAuthorisation

LEMMA GrantedInit == Init => GrantedBehind
BY DEF Init, GrantedBehind, NoBinding, NoAuthorisation

\* While the console lasts, the cached list only grows.
LEMMA CacheGrows ==
  ASSUME TypeOK, AuthorisedInv, [Next]_vars, ~Orphaned'
  PROVE  ~Orphaned /\ cacheAuth <= cacheAuth'
<1>1. ~Orphaned
  BY Lasting DEF AuthorisedInv
<1> QED BY <1>1, ReadSources DEF AuthorisedInv, CopiesBehind, TypeOK, ApiType, CacheType,
           NoAuthorisation

LEMMA GrantedStep ==
  ASSUME NoRule \notin Rules, TypeOK, TypeOK', AuthorisedInv, GrantedBehind, [Next]_vars
  PROVE  GrantedBehind'
<1>0. SUFFICES ASSUME ~Orphaned'
               PROVE  /\ binding' <= cacheAuth' /\ authorisation' <= cacheAuth'
                      /\ pc' \notin Reading \cup {"idle"} =>
                           binding' <= authorisation' /\ authorisation' # NoAuthorisation
  BY DEF GrantedBehind
<1>1. /\ ~Orphaned /\ cacheAuth <= cacheAuth'
      /\ binding <= cacheAuth /\ authorisation <= cacheAuth
      /\ pc \notin Reading \cup {"idle"} =>
           binding <= authorisation /\ authorisation # NoAuthorisation
  BY <1>0, CacheGrows DEF GrantedBehind
<1>2. /\ cacheAuth \in Int /\ cacheAuth' \in Int /\ binding \in Int /\ binding' \in Int
      /\ authorisation \in Int /\ authorisation' \in Int
      /\ authorisation >= -1 /\ cacheAuth >= -1
  BY DEF TypeOK, ApiType, CacheType, ReconcileType, NoAuthorisation, NoBinding
<1>3. authorisation' <= cacheAuth'
  BY <1>1, <1>2, ReadSources DEF NoAuthorisation
<1>4. CASE UserBinding
  <2>1. pc' = "idle" /\ binding' = authorisation
    BY <1>1, <1>4 DEF UserBinding, ReturnAfter, Return, Reading
  <2> QED BY <1>1, <1>2, <1>3, <2>1
<1>5. CASE binding' = binding
  <2>1. binding' <= cacheAuth'
    BY <1>1, <1>2, <1>5
  <2>2. ASSUME pc' \notin Reading \cup {"idle"}
        PROVE  binding' <= authorisation' /\ authorisation' # NoAuthorisation
    <3>1. ~(pc = "setOwner" /\ authRule = NoRule)
      BY DEF AuthorisedInv, RuleFromTemplate
    <3> QED BY <1>1, <1>2, <1>5, <2>2, <3>1, ListSources
  <2> QED BY <1>3, <2>1, <2>2
<1> QED BY <1>1, <1>4, <1>5, AccessSources

\* No reconciliation takes an authoriser's access away, unless a template asks for none.
THEOREM AuthorisersKeepAccess ==
  ASSUME NoRule \notin Rules
  PROVE  Spec => KeepsAuthorisers
<1>1. Init => TypeOK /\ AuthorisedInv /\ GrantedBehind
  BY InitTypeOK, AuthorisedInit, GrantedInit
<1>2. TypeOK /\ AuthorisedInv /\ GrantedBehind /\ [Next]_vars
        => (TypeOK /\ AuthorisedInv /\ GrantedBehind)'
  BY TypeStep, AuthorisedStep, GrantedStep
<1>3. TypeOK /\ GrantedBehind /\ [Next]_vars
        => [~Orphaned /\ binding' # NoBinding => binding' >= binding]_vars
  <2>1. SUFFICES ASSUME TypeOK, GrantedBehind, [Next]_vars, ~Orphaned
                 PROVE  binding' >= binding
    OBVIOUS
  <2>2. binding \in Int /\ authorisation \in Int
    BY <2>1 DEF TypeOK, ApiType, ReconcileType, NoAuthorisation, NoBinding
  <2>3. CASE UserBinding
    BY <2>1, <2>2, <2>3 DEF UserBinding, GrantedBehind, Reading
  <2> QED BY <2>1, <2>2, <2>3, AccessSources
<1> QED BY <1>1, <1>2, <1>3, PTL DEF Spec, KeepsAuthorisers
-----------------------------------------------------------------------------
(* The audit trail *)

Events == [request : 0..2, start : 0..2, terminate : 0..2]

LEMMA RecordGrows ==
  ASSUME TypeOK, NEW times \in 0..2,
         NEW kind \in {"request", "start", "terminate"}, Record(kind, times)
  PROVE  /\ events.request <= events'.request /\ events.start <= events'.start
         /\ events.terminate <= events'.terminate
         /\ kind \in Observed /\ times > 0 => events'[kind] > 0
<1>1. events \in Events
  BY DEF TypeOK, QueueType, Events
<1>2. CASE kind = "request"
  BY <1>1, <1>2 DEF Record, Events
<1>3. CASE kind = "start"
  BY <1>1, <1>3 DEF Record, Events
<1>4. CASE kind = "terminate"
  BY <1>1, <1>4 DEF Record, Events
<1> QED BY <1>2, <1>3, <1>4

LEMMA EventSources ==
  ASSUME [Next]_vars
  PROVE  GetJob \/ ListPods \/ AbortUpdateConsole \/ UpdateStatus \/ UNCHANGED events
<1>1. CASE Reconcile \/ Fail
  BY <1>1 DEF Reconcile, Continue, Start, SetConsoleOwner, CreateAuthorisation,
     CreateAuthoriserAccess, GetConsoleAuthorisation, CreateJob, AbortDeleteJob,
     AbortDeletePods, PutStatus, UserRole, UserBinding, Collect, Fail
<1>2. CASE Informers \/ Cluster \/ UNCHANGED vars
  BY <1>2, InformersKeep, ClusterKeeps DEF vars
<1> QED BY NextSplits, <1>1, <1>2

LEMMA EventsGrow ==
  ASSUME TypeOK, [Next]_vars
  PROVE  /\ events.request <= events'.request /\ events.start <= events'.start
         /\ events.terminate <= events'.terminate
<1>1. events \in Events
  BY DEF TypeOK, QueueType, Events
<1>2. CASE UNCHANGED events
  BY <1>1, <1>2 DEF Events
<1>3. CASE GetJob
  <2>1. Once(isNewConsole) \in 0..2
    BY DEF Once
  <2> QED BY <1>3, <2>1, RecordGrows DEF GetJob
<1>4. CASE ListPods
  <2>1. Once(PendingJob(csl)) \in 0..2
    BY DEF Once
  <2> QED BY <1>4, <2>1, RecordGrows DEF ListPods
<1>5. CASE AbortUpdateConsole
  BY <1>2, <1>5, RecordGrows DEF AbortUpdateConsole
<1>6. CASE UpdateStatus
  <2>1. PICK times \in 0..2 : Record("terminate", times)
    BY <1>6 DEF UpdateStatus, Once
  <2> QED BY <2>1, RecordGrows
<1> QED BY <1>2, <1>3, <1>4, <1>5, <1>6, EventSources

\* The events e have what a console in the phase of c must have had.
Told(c, e) ==
  /\ "start" \in Observed /\ ~PendingJob(c) => e.start > 0
  /\ "terminate" \in Observed /\ c.phase = "Stopped" => e.terminate > 0

\* A job is only gone on with once the start of its console is recorded.
StartTold == "start" \in Observed /\ pc = "status" /\ job # "none" => events.start > 0

AuditedInv ==
  Told(apiCsl, events) /\ Told(cacheCsl, events) /\ Told(csl, events) /\ StartTold

LEMMA FixedTold == \A e : Told(NewConsole, e) /\ Told(NoConsole, e)
BY DEF Told, PendingJob, NewConsole, NoConsole

LEMMA ToldLasts ==
  ASSUME NEW c, NEW e \in Events, NEW f \in Events, Told(c, e),
         e.start <= f.start, e.terminate <= f.terminate
  PROVE  Told(c, f)
BY DEF Told, Events

LEMMA AuditedInit == Init => AuditedInv
BY FixedTold DEF Init, AuditedInv, StartTold

\* A status is computed where there was no job to begin with, or its pods were listed.
LEMMA StatusSources ==
  ASSUME [Next]_vars, pc' = "status"
  PROVE  UNCHANGED reconciler \/ GetJob \/ ListPods
<1>1. CASE Start \/ SetConsoleOwner \/ CreateAuthorisation \/ CreateAuthoriserAccess
           \/ GetConsoleAuthorisation
  BY <1>1 DEF Start, SetConsoleOwner, CreateAuthorisation, CreateAuthoriserAccess,
     GetConsoleAuthorisation, GoTo, ReturnError, Return
<1>2. CASE CreateJob \/ AbortDeleteJob \/ AbortDeletePods \/ AbortUpdateConsole
  BY <1>2 DEF CreateJob, AbortDeleteJob, AbortDeletePods, AbortUpdateConsole, GoTo,
     ReturnError, ReturnDone, Return
<1>3. CASE UpdateStatus \/ PutStatus \/ UserRole
  BY <1>3 DEF UpdateStatus, PutStatus, UserRole, GoTo, ReturnError, Return
<1>4. CASE UserBinding \/ Collect \/ Fail
  BY <1>4 DEF UserBinding, Collect, Fail, ReturnError, ReturnDone, ReturnAfter, Return
<1>5. CASE Informers \/ Cluster \/ UNCHANGED vars
  BY <1>5, InformersKeep, ClusterKeeps DEF vars, reconciler
<1> QED BY NextSplits, <1>1, <1>2, <1>3, <1>4, <1>5 DEF Reconcile, Continue

LEMMA StartToldStep ==
  ASSUME TypeOK, AuditedInv, [Next]_vars
  PROVE  StartTold'
<1>0. SUFFICES ASSUME "start" \in Observed, pc' = "status", job' # "none"
               PROVE  events'.start > 0
  BY DEF StartTold
<1>1. /\ events.start <= events'.start /\ events.start \in Int /\ events'.start \in Int
  BY EventsGrow, TypeStep DEF TypeOK, QueueType
<1>2. CASE UNCHANGED reconciler
  BY <1>0, <1>1, <1>2 DEF AuditedInv, StartTold, reconciler, context
<1>3. CASE GetJob
  BY <1>0, <1>3 DEF GetJob, GoTo
<1>4. CASE ListPods
  <2>1. CASE PendingJob(csl)
    <3>1. Record("start", 1)
      BY <1>4, <2>1 DEF ListPods, Once
    <3> QED BY <1>0, <3>1, RecordGrows
  <2>2. CASE ~PendingJob(csl)
    BY <1>0, <1>1, <2>2 DEF AuditedInv, Told
  <2> QED BY <2>1, <2>2
<1> QED BY <1>0, <1>2, <1>3, <1>4, StatusSources

\* The status that is computed says no more than has been recorded.
LEMMA StatusTold ==
  ASSUME TypeOK, LossSeen, AuditedInv, UpdateStatus, [Next]_vars
  PROVE  Told(csl', events')
<1> DEFINE authorised == isConsoleAuthorised(authRule, authorisation)
           new == calculateStatus(csl, authorised, job, podList)
<1>1. /\ events.start <= events'.start /\ events.terminate <= events'.terminate
      /\ events \in Events /\ events' \in Events
  BY EventsGrow, TypeStep DEF TypeOK, QueueType, Events
<1>2. csl' = new /\ new.phase = calculatePhase(authorised, job, podList)
  BY DEF UpdateStatus, calculateStatus, TypeOK, ReconcileType, Console
<1>3. pc = "status"
  BY DEF UpdateStatus
<1>4. ASSUME "start" \in Observed, ~PendingJob(csl') PROVE events'.start > 0
  <2>1. authorised
    BY <1>2, <1>4 DEF calculatePhase, PendingJob
  <2>2. events.start > 0
    BY <1>3, <1>4, <2>1 DEF LossSeen, AuditedInv, StartTold, Told
  <2> QED BY <1>1, <2>2 DEF Events
<1>5. ASSUME "terminate" \in Observed, csl'.phase = "Stopped" PROVE events'.terminate > 0
  <2>1. CASE csl.phase = "Stopped"
    BY <1>1, <1>5, <2>1 DEF AuditedInv, Told, Events
  <2>2. CASE csl.phase # "Stopped"
    <3>1. Ended(csl, new)
      BY <1>2, <1>5, <2>2 DEF Ended
    <3>2. PICK times \in 1..2 : Record("terminate", times)
      BY <3>1 DEF UpdateStatus, Once
    <3> QED BY <1>5, <3>2, RecordGrows
  <2> QED BY <2>1, <2>2
<1> QED BY <1>4, <1>5 DEF Told

LEMMA AuditedStep ==
  ASSUME TypeOK, TypeOK', LossSeen, AuditedInv, [Next]_vars
  PROVE  AuditedInv'
<1>0. /\ Told(apiCsl, events) /\ Told(cacheCsl, events) /\ Told(csl, events)
      /\ csl \in Console /\ apiCsl \in Console /\ cacheCsl \in Console
  BY DEF AuditedInv, TypeOK, ApiType, CacheType, ReconcileType
<1>1. \A c : Told(c, events) => Told(c, events')
  BY EventsGrow, ToldLasts DEF TypeOK, QueueType, Events
<1>2. /\ Told(Submitted(csl), events)
      /\ Told([apiCsl EXCEPT !.deleting = TRUE], events)
      /\ Told([cacheCsl EXCEPT !.owned = TRUE], events)
  BY <1>0, SubmittedKeeps DEF Told, PendingJob, Console
<1>3. Told(apiCsl', events') /\ Told(cacheCsl', events')
  BY <1>0, <1>1, <1>2, FixedTold, ConsoleSources
<1>4. Told(csl', events')
  BY <1>0, <1>1, <1>2, FixedTold, StatusTold, ConsoleSources
<1> QED BY <1>3, <1>4, StartToldStep DEF AuditedInv

\* The audit trail is never behind the stored console.
THEOREM TransitionsAreAudited == Spec => []AuditedTransitions
<1>1. Init => TypeOK /\ TimedInv /\ AuditedInv
  BY InitTypeOK, TimedInit, AuditedInit
<1>2. TypeOK /\ TimedInv /\ AuditedInv /\ [Next]_vars => (TypeOK /\ TimedInv /\ AuditedInv)'
  BY TypeStep, TimedStep, AuditedStep DEF TimedInv
<1>3. AuditedInv => AuditedTransitions
  BY DEF AuditedInv, Told, AuditedTransitions, PendingJob
<1> QED BY <1>1, <1>2, <1>3, PTL DEF Spec
-----------------------------------------------------------------------------
(* A console is aborted for a second pod *)

\* The rest of the system leaves the reconciliation and the status alone.
LEMMA Bystanders ==
  ASSUME [Next]_vars
  PROVE  \/ Reconcile \/ Fail
         \/ /\ UNCHANGED reconciler
            /\ cacheCsl' \in {cacheCsl, apiCsl}
            /\ \/ apiCsl' = apiCsl \/ apiCsl' = NoConsole
               \/ apiCsl' = [apiCsl EXCEPT !.deleting = TRUE]
<1>1. CASE Informers
  BY <1>1, InformersKeep DEF Informers, SyncConsole, SyncAuthorisation, SyncJob, SyncPods,
     Requeue, BeforeTTLElapses, AfterTTLElapses, caches, cslCache, api
<1>2. ASSUME NEW p \in Pods, PodStep(p) PROVE apiCsl' = apiCsl
  BY <1>2 DEF PodStep, CreatePod, StartPod, FinishPod, EvictPod, RemovePod, MovePod
<1>3. CASE Cluster
  <2>1. \/ apiCsl' = apiCsl \/ apiCsl' = NoConsole
        \/ apiCsl' = [apiCsl EXCEPT !.deleting = TRUE]
    BY <1>2, <1>3 DEF Cluster, Authorise, FinishJob, JobDeadline, DeleteJob, DeleteConsole,
       DeleteConsoleForeground, EditTemplate, CollectJob, CollectAuthorisation,
       CollectAccess, RemoveConsole, PutCsl
  <2> QED BY <1>3, <2>1, ClusterKeeps
<1>4. CASE UNCHANGED vars
  BY <1>4 DEF vars, caches, cslCache, reconciler, api
<1> QED BY NextSplits, <1>1, <1>3, <1>4

\* An abort begins where more than one pod was listed, or another than the recorded one.
LEMMA AbortSources ==
  ASSUME [Next]_vars, pc' = "deleteJob"
  PROVE  pc = "deleteJob" \/ SubsequentPod(cachePods)
<1>1. CASE UNCHANGED reconciler
  BY <1>1 DEF reconciler
<1>2. CASE Reconcile \/ Fail
  <2>1. CASE Start \/ SetConsoleOwner \/ CreateAuthorisation \/ CreateAuthoriserAccess
             \/ GetConsoleAuthorisation \/ GetJob \/ CreateJob
    BY <1>2, <2>1 DEF Start, SetConsoleOwner, CreateAuthorisation, CreateAuthoriserAccess,
       GetConsoleAuthorisation, GetJob, CreateJob, GoTo, ReturnError, Return
  <2>2. CASE ListPods
    BY <2>2 DEF ListPods, GoTo
  <2>3. CASE AbortDeleteJob \/ AbortDeletePods \/ AbortUpdateConsole
    BY <1>2, <2>3 DEF AbortDeleteJob, AbortDeletePods, AbortUpdateConsole, GoTo,
       ReturnError, ReturnDone, Return
  <2>4. CASE UpdateStatus \/ PutStatus \/ UserRole
    BY <2>4 DEF UpdateStatus, PutStatus, UserRole, GoTo, ReturnError, Return
  <2>5. CASE UserBinding \/ Collect \/ Fail
    BY <2>5 DEF UserBinding, Collect, Fail, ReturnError, ReturnDone, ReturnAfter, Return
  <2> QED BY <1>2, <2>1, <2>2, <2>3, <2>4, <2>5 DEF Reconcile, Continue
<1> QED BY <1>1, <1>2, Bystanders

\* The pod that a copy of the console names is one that has existed.
PodSeen(c) == c.podName # NoPod => PodExists(c.podName)

AbortInv ==
  PodsSeen /\ PodSeen(apiCsl) /\ PodSeen(cacheCsl) /\ PodSeen(csl) /\ AbortsForSecondPod

LEMMA AbortInit == Init => AbortInv
BY DEF Init, AbortInv, PodsSeen, PodSeen, AbortsForSecondPod, NoPods, NewConsole, NoConsole

LEMMA PodSeenStep ==
  ASSUME TypeOK, AbortInv, [Next]_vars
  PROVE  PodSeen(apiCsl)' /\ PodSeen(cacheCsl)' /\ PodSeen(csl)'
<1>0. /\ csl \in Console /\ apiCsl \in Console /\ cacheCsl \in Console
      /\ NoConsole.podName = NoPod
      /\ PodSeen(csl) /\ PodSeen(apiCsl) /\ PodSeen(cacheCsl)
  BY DEF TypeOK, ApiType, CacheType, ReconcileType, NoConsole, NewConsole, AbortInv
<1>1. Submitted(csl).podName = csl.podName
  BY <1>0, SubmittedKeeps
<1>2. ASSUME NEW c \in Console, PodSeen(c), c.podName # NoPod
      PROVE  apiPods'[c.podName] # "unused"
  <2>1. c.podName \in Pods /\ apiPods[c.podName] # "unused"
    BY <1>2 DEF PodSeen, PodExists, Console
  <2> QED BY <2>1, PodsLast
<1>3. ASSUME apiCsl'.podName # NoPod PROVE apiPods'[apiCsl'.podName] # "unused"
  <2>1. [apiCsl EXCEPT !.deleting = TRUE].podName = apiCsl.podName
    BY <1>0 DEF Console
  <2>2. apiCsl'.podName \in {apiCsl.podName, csl.podName}
    BY <1>0, <1>1, <1>3, <2>1, ConsoleSources
  <2> QED BY <1>0, <1>2, <1>3, <2>2
<1>4. ASSUME cacheCsl'.podName # NoPod PROVE apiPods'[cacheCsl'.podName] # "unused"
  BY <1>0, <1>2, <1>4, ConsoleSources
<1>5. ASSUME csl'.podName # NoPod PROVE apiPods'[csl'.podName] # "unused"
  <2>1. CASE UpdateStatus
    <3>1. \/ csl'.podName = csl.podName
          \/ csl'.podName \in Pods /\ csl'.podName \in ListedPods(podList)
      BY <1>0, <2>1 DEF UpdateStatus, calculateStatus, Console
    <3>2. CASE csl'.podName = csl.podName
      BY <1>0, <1>2, <1>5, <3>2
    <3>3. CASE csl'.podName \in Pods /\ csl'.podName \in ListedPods(podList)
      <4>1. apiPods[csl'.podName] # "unused"
        BY <3>3 DEF AbortInv, PodsSeen, ListedPods, Listed
      <4> QED BY <3>3, <4>1, PodsLast
    <3> QED BY <3>1, <3>2, <3>3
  <2>2. CASE ~UpdateStatus
    <3>1. [cacheCsl EXCEPT !.owned = TRUE].podName = cacheCsl.podName
      BY <1>0 DEF Console
    <3>2. csl'.podName \in {csl.podName, cacheCsl.podName}
      BY <1>0, <1>1, <1>5, <2>2, <3>1, ConsoleSources
    <3> QED BY <1>0, <1>2, <1>5, <3>2
  <2> QED BY <2>1, <2>2
<1> QED BY <1>3, <1>4, <1>5 DEF PodSeen, PodExists

\* More than one pod listed, or another than the one recorded: two that have existed.
LEMMA SecondPod ==
  ASSUME TypeOK, AbortInv, SubsequentPod(cachePods)
  PROVE  \E p, q \in Pods : p # q /\ apiPods[p] # "unused" /\ apiPods[q] # "unused"
<1> DEFINE L == ListedPods(cachePods)
<1>1. \A p \in L : p \in Pods /\ apiPods[p] # "unused"
  BY DEF AbortInv, PodsSeen, ListedPods, Listed
<1>2. CASE Cardinality(L) > 1
  <2>1. PICK p : p \in L
    <3>1. L # {}
      BY <1>2, FS_EmptySet
    <3> QED BY <3>1
  <2>2. PICK q \in L : q # p
    <3>1. L # {p}
      <4>1. Cardinality({p}) = 1
        BY FS_Singleton
      <4>2. Cardinality(L) # 1
        BY <1>2
      <4> QED BY <4>1, <4>2
    <3> QED BY <2>1, <3>1
  <2> QED BY <1>1, <2>1, <2>2
<1>3. CASE csl.podName # NoPod /\ L \notin {{}, {csl.podName}}
  <2>1. PICK p \in L : p # csl.podName
    BY <1>3
  <2>2. csl.podName \in Pods /\ apiPods[csl.podName] # "unused"
    BY <1>3 DEF AbortInv, PodSeen, PodExists, TypeOK, ReconcileType, Console
  <2> QED BY <1>1, <2>1, <2>2
<1> QED BY <1>2, <1>3 DEF SubsequentPod

LEMMA AbortStep ==
  ASSUME TypeOK, AbortInv, [Next]_vars
  PROVE  AbortInv'
<1>1. ASSUME pc' = "deleteJob"
      PROVE  \E p, q \in Pods : p # q /\ apiPods'[p] # "unused" /\ apiPods'[q] # "unused"
  <2>1. \E p, q \in Pods : p # q /\ apiPods[p] # "unused" /\ apiPods[q] # "unused"
    <3>1. pc = "deleteJob" \/ SubsequentPod(cachePods)
      BY <1>1, AbortSources
    <3> QED BY <3>1, SecondPod DEF AbortInv, AbortsForSecondPod
  <2> QED BY <2>1, PodsLast
<1> QED BY <1>1, PodsSeenStep, PodSeenStep DEF AbortInv, AbortsForSecondPod

\* However old the recorded pod name and the list of pods that it goes by: a reconciliation
\* only deletes the job of a console that has had a second pod.
THEOREM AbortsAreForSecondPods == Spec => []AbortsForSecondPod
<1>1. Init => TypeOK /\ AbortInv
  BY InitTypeOK, AbortInit
<1>2. TypeOK /\ AbortInv /\ [Next]_vars => (TypeOK /\ AbortInv)'
  BY TypeStep, AbortStep
<1>3. AbortInv => AbortsForSecondPod
  BY DEF AbortInv
<1> QED BY <1>1, <1>2, <1>3, PTL DEF Spec
-----------------------------------------------------------------------------
(* The lifecycle *)

\* Whoever holds a console past its gate, however old, holds one that was authorised; lists
\* only grow, so that it still is.
LaunchedEnough ==
  ~Orphaned /\ (~PendingJob(apiCsl) \/ ~PendingJob(cacheCsl) \/ ~PendingJob(csl)) => Enough

LifecycleInv == AuthorisedInv /\ AccessInv /\ LaunchedEnough

LEMMA LaunchedInit == Init => LaunchedEnough
BY DEF Init, LaunchedEnough, PendingJob, NewConsole, NoConsole

LEMMA AuthorisedEnough ==
  ASSUME TypeOK, AuthorisedInv, ~Orphaned, pc # "idle",
         isConsoleAuthorised(authRule, authorisation)
  PROVE  Enough
<1>1. authRule \in Rules /\ authorisation <= apiAuth
  BY DEF AuthorisedInv, RuleFromTemplate, CopiesBehind
<1>2. apiAuth >= authRule
  BY <1>1, RulesAssumption
  DEF isConsoleAuthorised, TypeOK, ReconcileType, ApiType, NoRule, NoAuthorisation
<1> QED BY <1>1, <1>2 DEF Enough

LEMMA LaunchedStep ==
  ASSUME TypeOK, TypeOK', LifecycleInv, [Next]_vars
  PROVE  LaunchedEnough'
<1>0. SUFFICES ASSUME ~Orphaned',
                      ~PendingJob(apiCsl') \/ ~PendingJob(cacheCsl') \/ ~PendingJob(csl')
               PROVE  Enough'
  BY DEF LaunchedEnough, PendingJob
<1>1. ~Orphaned /\ apiAuth <= apiAuth'
  BY <1>0, Lasting DEF LifecycleInv, AuthorisedInv
<1>2. /\ csl \in Console /\ apiCsl \in Console /\ cacheCsl \in Console
      /\ PendingJob(NoConsole)
  BY DEF TypeOK, ApiType, CacheType, ReconcileType, PendingJob, NoConsole, NewConsole
<1>3. /\ PendingJob(Submitted(csl)) = PendingJob(csl)
      /\ PendingJob([apiCsl EXCEPT !.deleting = TRUE]) = PendingJob(apiCsl)
      /\ PendingJob([cacheCsl EXCEPT !.owned = TRUE]) = PendingJob(cacheCsl)
  BY <1>2, SubmittedKeeps DEF PendingJob, Console
<1>4. CASE UpdateStatus /\ ~PendingJob(csl')
  <2>1. isConsoleAuthorised(authRule, authorisation) /\ pc # "idle"
    BY <1>2, <1>4 DEF UpdateStatus, calculateStatus, calculatePhase, PendingJob, Console
  <2>2. Enough
    BY <1>1, <2>1, AuthorisedEnough DEF LifecycleInv
  <2> QED BY <1>1, <2>2, EnoughLasts
<1>5. CASE ~PendingJob(apiCsl) \/ ~PendingJob(cacheCsl) \/ ~PendingJob(csl)
  <2>1. Enough
    BY <1>1, <1>5 DEF LifecycleInv, LaunchedEnough
  <2> QED BY <1>1, <2>1, EnoughLasts
<1> QED BY <1>0, <1>2, <1>3, <1>4, <1>5, ConsoleSources

LEMMA LifecycleInvStep ==
  ASSUME TypeOK, TypeOK', LifecycleInv, [Next]_vars
  PROVE  LifecycleInv'
BY AuthorisedStep, PodsSeenStep, RunningSeenStep, RoleSeenStep, AuthorisedAccessStep,
   LaunchedStep DEF LifecycleInv, AccessInv

\* What a step does to what the lifecycle is seen through.
LEMMA SeenSources ==
  ASSUME TypeOK, [Next]_vars, ~Orphaned, ~Orphaned'
  PROVE  \/ apiAuth' = apiAuth + 1 /\ UNCHANGED <<apiCsl, role, binding>>
         \/ /\ SetConsoleOwner \/ PutStatus \/ AbortUpdateConsole
            /\ apiCsl' \in {apiCsl, Submitted(csl)} /\ UNCHANGED <<apiAuth, role, binding>>
         \/ UserRole /\ UNCHANGED <<apiCsl, apiAuth, binding>>
         \/ UserBinding /\ UNCHANGED <<apiCsl, apiAuth, role>>
         \/ UNCHANGED <<apiCsl, apiAuth, role, binding>>
<1>1. CASE SetConsoleOwner \/ PutStatus \/ AbortUpdateConsole
  BY <1>1 DEF SetConsoleOwner, PutStatus, AbortUpdateConsole, PutConsole, PutConsoleFails,
     PutCsl, access
<1>2. CASE Start \/ GetConsoleAuthorisation \/ GetJob \/ ListPods \/ UpdateStatus \/ Fail
  BY <1>2 DEF Start, GetConsoleAuthorisation, GetJob, ListPods, UpdateStatus, Fail, api,
     access
<1>3. CASE CreateAuthorisation
  BY <1>3 DEF CreateAuthorisation, authorisationDiff, access, NoAuthorisation
<1>4. CASE CreateAuthoriserAccess \/ CreateJob \/ AbortDeleteJob \/ AbortDeletePods
  BY <1>4 DEF CreateAuthoriserAccess, CreateJob, AbortDeleteJob, AbortDeletePods, access
<1>5. CASE UserRole \/ UserBinding
  BY <1>5 DEF UserRole, UserBinding
<1>6. CASE Collect
  BY <1>6 DEF Collect, PutCsl, Orphaned, NoConsole, NewConsole, access
<1>7. ASSUME NEW p \in Pods, PodStep(p) PROVE UNCHANGED <<apiCsl, apiAuth, role, binding>>
  BY <1>7 DEF PodStep, CreatePod, StartPod, FinishPod, EvictPod, RemovePod, MovePod, access
<1>8. CASE Authorise \/ FinishJob \/ JobDeadline \/ DeleteJob \/ EditTemplate \/ CollectJob
           \/ CollectAuthorisation \/ CollectAccess
  BY <1>8 DEF Authorise, FinishJob, JobDeadline, DeleteJob, EditTemplate, CollectJob,
     CollectAuthorisation, CollectAccess, access
<1>9. CASE DeleteConsole \/ DeleteConsoleForeground \/ RemoveConsole
  <2>1. apiCsl' = NoConsole \/ apiCsl' = [apiCsl EXCEPT !.deleting = TRUE] \/ RemoveConsole
    BY <1>9 DEF DeleteConsole, DeleteConsoleForeground, PutCsl
  <2>2. apiCsl \in Console /\ ~NoConsole.exists
    BY DEF TypeOK, ApiType, NoConsole, NewConsole
  <2>3. [apiCsl EXCEPT !.deleting = TRUE].deleting
    BY <2>2 DEF Console
  <2> QED BY <2>1, <2>2, <2>3 DEF RemoveConsole, Orphaned
<1>10. CASE Informers \/ UNCHANGED vars
  BY <1>10, InformersKeep DEF vars, api, access
<1> QED BY NextSplits, <1>1, <1>2, <1>3, <1>4, <1>5, <1>6, <1>7, <1>8, <1>9, <1>10
        DEF Reconcile, Continue, Cluster

\* What the lifecycle calls authorised is what the controller requires of some rule.
LEMMA AuthorisedLifecycle ==
  ASSUME TypeOK, ~Orphaned, Enough
  PROVE  Lifecycle!Authorised
<1>1. \E r \in Rules : r = -1 \/ (apiAuth # -1 /\ apiAuth >= r)
  BY RulesAssumption DEF Enough, NoRule, TypeOK, ApiType, NoAuthorisation
<1> QED BY <1>1 DEF Lifecycle!Authorised

\* The step of the lifecycle that each step of the cluster is.
LEMMA LifecycleStep ==
  ASSUME TypeOK, TypeOK', LifecycleInv, [Next]_vars
  PROVE  [Lifecycle!LifecycleNext]_(Lifecycle!lifecycle)
<1> USE DEF Lifecycle!lifecycle, Lifecycle!LifecycleNext
<1>1. CASE Orphaned
  <2>1. Orphaned'
    BY <1>1, Lasting DEF LifecycleInv, AuthorisedInv
  <2> QED BY <1>1, <2>1
<1>2. CASE ~Orphaned /\ Orphaned'
  <2>1. apiCsl.phase # "Deleted"
    BY DEF TypeOK, ApiType, Console, Phase
  <2> QED BY <1>2, <2>1 DEF Lifecycle!Delete, NoAuthorisation
<1>3. CASE ~Orphaned /\ ~Orphaned'
  <2>1. /\ apiCsl \in Console /\ csl \in Console /\ csl.phase \in Phase
        /\ apiCsl.phase # "Deleted" /\ role \in Pods \cup {NoPod}
    BY DEF TypeOK, ApiType, ReconcileType, Console, Phase
  <2>2. CASE apiAuth' = apiAuth + 1 /\ UNCHANGED <<apiCsl, role, binding>>
    BY <1>3, <2>1, <2>2 DEF Lifecycle!Approve
  <2>3. CASE /\ SetConsoleOwner \/ PutStatus \/ AbortUpdateConsole
             /\ apiCsl' \in {apiCsl, Submitted(csl)} /\ UNCHANGED <<apiAuth, role, binding>>
    <3>1. apiCsl'.phase = apiCsl.phase \/ apiCsl'.phase = csl.phase
      BY <2>1, <2>3, SubmittedKeeps
    <3>2. CASE apiCsl'.phase = apiCsl.phase
      BY <1>3, <2>3, <3>2
    <3>3. CASE apiCsl'.phase = csl.phase /\ PendingJob(csl)
      <4>1. apiCsl'.phase \in Lifecycle!Waiting
        BY <3>3 DEF PendingJob, Lifecycle!Waiting
      <4> QED BY <1>3, <2>1, <2>3, <4>1 DEF Lifecycle!AwaitApproval
    <3>4. CASE apiCsl'.phase = csl.phase /\ ~PendingJob(csl)
      <4>1. apiCsl'.phase \in Lifecycle!Launched
        BY <2>1, <3>4 DEF PendingJob, Phase, Lifecycle!Launched
      <4>2. Lifecycle!Authorised
        BY <1>3, <3>4, AuthorisedLifecycle DEF LifecycleInv, LaunchedEnough
      <4> QED BY <1>3, <2>1, <2>3, <4>1, <4>2 DEF Lifecycle!Launch
    <3> QED BY <3>1, <3>2, <3>3, <3>4
  <2>4. CASE UserRole /\ UNCHANGED <<apiCsl, apiAuth, binding>>
    <3>1. role' \in Pods /\ Enough
      <4>1. Enough /\ PodExists(csl.podName) /\ role' = csl.podName
        BY <1>3, <2>4 DEF UserRole, LifecycleInv, AccessInv, RunningSeen, Granting
      <4> QED BY <2>1, <4>1 DEF PodExists, Console
    <3>2. CASE binding = NoBinding
      BY <1>3, <2>4, <3>2
    <3>3. CASE binding # NoBinding
      BY <1>3, <2>1, <2>4, <3>1, <3>3, AuthorisedLifecycle DEF Lifecycle!GrantAccess
    <3> QED BY <3>2, <3>3
  <2>5. CASE UserBinding /\ UNCHANGED <<apiCsl, apiAuth, role>>
    <3>1. pc = "userBinding" /\ binding' # NoBinding
      BY <2>5 DEF UserBinding, NoBinding, NoAuthorisation, TypeOK, ReconcileType
    <3>2. role \in Pods /\ Enough
      BY <1>3, <2>1, <3>1 DEF LifecycleInv, AccessInv, RunningSeen, RoleSeen, Granting, PodExists
    <3>3. Lifecycle!Authorised
      BY <1>3, <3>2, AuthorisedLifecycle
    <3> QED BY <1>3, <2>1, <2>5, <3>1, <3>2, <3>3 DEF Lifecycle!GrantAccess
  <2>6. CASE UNCHANGED <<apiCsl, apiAuth, role, binding>>
    BY <1>3, <2>6
  <2> QED BY <1>3, <2>2, <2>3, <2>4, <2>5, <2>6, SeenSources
<1> QED BY <1>1, <1>2, <1>3

\* The cluster implements the lifecycle: whatever the caches hold, wherever calls fail and
\* whatever is edited, evicted or deleted meanwhile, a console is stored as launched and
\* its user given access only when it is authorised, and nothing comes back of one that
\* is deleted.
THEOREM LifecycleIsImplemented == Spec => ImplementsLifecycle
<1> DEFINE Inv == TypeOK /\ LifecycleInv
<1>1. Init => Inv
  BY InitTypeOK, AuthorisedInit, AccessInit, LaunchedInit DEF LifecycleInv
<1>2. Inv /\ [Next]_vars => Inv'
  BY TypeStep, LifecycleInvStep
<1>3. Init => Lifecycle!LifecycleInit
  BY DEF Init, Lifecycle!LifecycleInit, Orphaned, NewConsole, NoAuthorisation
<1>4. Inv /\ Inv' /\ [Next]_vars => [Lifecycle!LifecycleNext]_(Lifecycle!lifecycle)
  BY LifecycleStep
<1> HIDE DEF Inv
<1> QED BY <1>1, <1>2, <1>3, <1>4, PTL
        DEF Spec, ImplementsLifecycle, Lifecycle!LifecycleSpec
-----------------------------------------------------------------------------
(* Nothing goes unnoticed *)

\* What follows the second write of the console.
Granted == {"userRole", "userBinding", "collect"}

JobCurrent == jobFresh => cacheJob = apiJob

\* Nothing is to come, nor has come since the reconciliation under way began, that the
\* controller is told of; only the first delivery of the authorisation tells it nothing.
Unhindered ==
  /\ ~Orphaned /\ ~queued /\ cacheFresh /\ jobFresh
  /\ cacheAuth = apiAuth \/ cacheAuth = NoAuthorisation

\* The phase is called for by what there is, and by no list that has yet to be seen.
CalledFor(phase) ==
  \E rule \in Rules, list \in [Pods -> PodState] :
    /\ rule = NoRule \/ cacheAuth # NoAuthorisation
    /\ phase = calculatePhase(isConsoleAuthorised(rule, apiAuth), apiJob, list)

\* What an unhindered reconciliation has read is still so, and what it has left is called for.
Noticed ==
  Unhindered =>
    /\ pc \notin Reading \cup {"idle"} =>
         authRule = NoRule \/ (cacheAuth # NoAuthorisation /\ authorisation = apiAuth)
    /\ pc \in {"listPods", "status"} => job = apiJob
    /\ pc \notin {"deletePods", "abortStatus"}
    /\ pc = "updateStatus" => CalledFor(csl.phase)
    /\ pc \in Granted \cup {"idle"} => CalledFor(apiCsl.phase)
    /\ pc = "idle" => timer # "none"

NoticedInv == JobCurrent /\ (Resync => queued) /\ Noticed

LEMMA NoticedInit == Init => NoticedInv
BY DEF Init, NoticedInv, JobCurrent, Noticed, Unhindered

LEMMA JobCurrentStep ==
  ASSUME JobCurrent, [Next]_vars
  PROVE  JobCurrent'
<1> USE DEF JobCurrent
<1>1. CASE UNCHANGED <<apiJob, cacheJob, jobFresh>>
  BY <1>1
<1>2. CASE Reconcile \/ Fail
  <2>1. cacheJob' = cacheJob
    BY <1>2, ReconcileKeeps
  <2>2. CASE CreateJob \/ AbortDeleteJob
    BY <2>1, <2>2 DEF CreateJob, AbortDeleteJob, PutJob
  <2>3. CASE ~CreateJob /\ ~AbortDeleteJob
    BY <1>2, <2>1, <2>3 DEF Reconcile, Continue, Start, SetConsoleOwner, CreateAuthorisation,
       CreateAuthoriserAccess, GetConsoleAuthorisation, GetJob, ListPods, AbortDeletePods,
       AbortUpdateConsole, UpdateStatus, PutStatus, UserRole, UserBinding, Collect, Fail,
       api, caches, jobCache
  <2> QED BY <2>2, <2>3
<1>3. CASE Informers
  BY <1>3 DEF Informers, SyncConsole, SyncAuthorisation, SyncJob, SyncPods, Requeue,
     BeforeTTLElapses, AfterTTLElapses, api, caches, jobCache
<1>4. ASSUME NEW p \in Pods, PodStep(p) PROVE UNCHANGED <<apiJob, cacheJob, jobFresh>>
  BY <1>4 DEF PodStep, CreatePod, StartPod, FinishPod, EvictPod, RemovePod, MovePod,
     cluster, controller
<1>5. CASE Cluster
  BY <1>4, <1>5 DEF Cluster, Authorise, FinishJob, JobDeadline, DeleteJob, DeleteConsole,
     DeleteConsoleForeground, EditTemplate, CollectJob, CollectAuthorisation,
     CollectAccess, RemoveConsole, PutJob, cluster, controller, jobCache
<1> QED BY NextSplits, <1>1, <1>2, <1>3, <1>5 DEF vars, api, caches, jobCache

\* What does not hinder the controller changes nothing that it is told of.
LEMMA Unhindering ==
  ASSUME TypeOK, AuthorisedInv, [Next]_vars, Unhindered', ~Reconcile
  PROVE  /\ Unhindered
         /\ UNCHANGED <<apiCsl, apiJob, timer>> /\ UNCHANGED reconciler
         /\ cacheAuth # NoAuthorisation => UNCHANGED <<apiAuth, cacheAuth>>
<1>0. ~Orphaned /\ CopiesBehind
  BY Lasting DEF Unhindered, AuthorisedInv
<1>1. apiAuth \in Int /\ cacheAuth \in Int
  BY DEF TypeOK, ApiType, CacheType, NoAuthorisation
<1>2. CASE Fail
  BY <1>2 DEF Fail, ReturnError, Unhindered
<1>3. CASE Informers
  <2>1. CASE SyncConsole \/ SyncJob \/ Requeue
    BY <2>1 DEF SyncConsole, SyncJob, Requeue, Unhindered
  <2>2. CASE SyncAuthorisation
    BY <1>0, <2>2 DEF SyncAuthorisation, Unhindered, api, cslCache, jobCache, reconciler
  <2>3. CASE SyncPods \/ BeforeTTLElapses \/ AfterTTLElapses
    <3>1. UNCHANGED <<api, cslCache, cacheAuth, jobCache, reconciler, queued, timer>>
      BY <2>3 DEF SyncPods, BeforeTTLElapses, AfterTTLElapses, caches
    <3> QED BY <3>1 DEF Unhindered, Orphaned, api, cslCache, jobCache
  <2> QED BY <1>3, <2>1, <2>2, <2>3 DEF Informers
<1>4. CASE Cluster
  <2> USE DEF Unhindered, Orphaned, cluster, controller, cslCache, jobCache
  <2>1. ASSUME NEW p \in Pods, PodStep(p)
        PROVE  UNCHANGED <<apiCsl, apiAuth, apiJob>> /\ UNCHANGED cluster
    BY <2>1 DEF PodStep, CreatePod, StartPod, FinishPod, EvictPod, RemovePod, MovePod
  <2>2. CASE \E p \in Pods : PodStep(p)
    BY <2>1, <2>2
  <2>3. CASE FinishJob \/ JobDeadline \/ DeleteJob \/ CollectJob
    BY <2>3 DEF FinishJob, JobDeadline, DeleteJob, CollectJob, PutJob
  <2>4. CASE DeleteConsole \/ DeleteConsoleForeground \/ RemoveConsole
    BY <2>4 DEF DeleteConsole, DeleteConsoleForeground, RemoveConsole, PutCsl
  <2>5. CASE CollectAuthorisation \/ CollectAccess
    BY <1>0, <2>5 DEF CollectAuthorisation, CollectAccess
  <2>6. CASE EditTemplate
    BY <2>6 DEF EditTemplate
  <2>7. CASE Authorise
    <3>1. /\ apiAuth' = apiAuth + 1 /\ UNCHANGED <<apiCsl, apiJob>> /\ UNCHANGED cluster
      BY <2>7 DEF Authorise
    <3>2. cacheAuth <= apiAuth
      BY <1>0 DEF CopiesBehind
    <3>3. cacheAuth = NoAuthorisation
      BY <1>1, <3>1, <3>2
    <3> QED BY <3>1, <3>3
  <2> QED BY <1>4, <2>2, <2>3, <2>4, <2>5, <2>6, <2>7 DEF Cluster
<1>5. CASE UNCHANGED vars
  <2>1. UNCHANGED <<api, cslCache, cacheAuth, jobCache, reconciler, queued, timer>>
    BY <1>5 DEF vars, caches, reconciler
  <2> QED BY <2>1 DEF Unhindered, Orphaned, api, cslCache, jobCache
<1> QED BY NextSplits, <1>2, <1>3, <1>4, <1>5

\* Such a step leaves a phase as called for as it was.
LEMMA StillCalledFor ==
  ASSUME NEW phase, CalledFor(phase), UNCHANGED apiJob,
         cacheAuth # NoAuthorisation => UNCHANGED <<apiAuth, cacheAuth>>
  PROVE  CalledFor(phase)'
<1>1. PICK rule \in Rules, list \in [Pods -> PodState] :
        /\ rule = NoRule \/ cacheAuth # NoAuthorisation
        /\ phase = calculatePhase(isConsoleAuthorised(rule, apiAuth), apiJob, list)
  BY DEF CalledFor
<1>2. isConsoleAuthorised(rule, apiAuth') = isConsoleAuthorised(rule, apiAuth)
  BY <1>1 DEF isConsoleAuthorised
<1>3. rule = NoRule \/ cacheAuth' # NoAuthorisation
  BY <1>1
<1>4. phase = calculatePhase(isConsoleAuthorised(rule, apiAuth'), apiJob', list)
  BY <1>1, <1>2
<1> QED BY <1>3, <1>4 DEF CalledFor


\* The steps of a reconciliation that nothing hinders, one by one.
LEMMA NoticedStep ==
  ASSUME TypeOK, TypeOK', AuthorisedInv, JobCurrent, Resync => queued, Noticed, [Next]_vars
  PROVE  Noticed'
<1>0. SUFFICES ASSUME Unhindered'
               PROVE  /\ pc' \notin Reading \cup {"idle"} =>
                           authRule' = NoRule
                             \/ (cacheAuth' # NoAuthorisation /\ authorisation' = apiAuth')
                      /\ pc' \in {"listPods", "status"} => job' = apiJob'
                      /\ pc' \notin {"deletePods", "abortStatus"}
                      /\ pc' = "updateStatus" => CalledFor(csl.phase)'
                      /\ pc' \in Granted \cup {"idle"} => CalledFor(apiCsl.phase)'
                      /\ pc' = "idle" => timer' # "none"
  BY DEF Noticed, CalledFor
<1>1. CASE ~Reconcile
  <2>1. /\ Unhindered
        /\ UNCHANGED <<apiCsl, apiJob, timer>> /\ UNCHANGED reconciler
        /\ cacheAuth # NoAuthorisation => UNCHANGED <<apiAuth, cacheAuth>>
    BY <1>0, <1>1, Unhindering
  <2>2. \A phase : CalledFor(phase) => CalledFor(phase)'
    BY <2>1, StillCalledFor
  <2>3. UNCHANGED <<pc, csl, authRule, authorisation, job>>
    BY <2>1 DEF reconciler, context
  <2>4. CalledFor(csl.phase) => CalledFor(csl.phase)'
    BY <2>2, <2>3 DEF CalledFor
  <2>5. CalledFor(apiCsl.phase) => CalledFor(apiCsl.phase)'
    BY <2>1, <2>2 DEF CalledFor
  <2> QED BY <2>1, <2>3, <2>4, <2>5 DEF Noticed
<1> USE DEF Reading, Granted
<1>2. CASE Start
  <2>1. Unhindered' /\ ~queued' /\ cacheFresh /\ UNCHANGED apiCsl
    BY <1>0, <1>2 DEF Start, Unhindered, api, caches, cslCache
  <2>2. cacheCsl = apiCsl /\ ~Orphaned
    BY <2>1 DEF AuthorisedInv, CacheCurrent, Unhindered, Orphaned
  <2>3. pc' = "setOwner"
    BY <1>2, <2>2 DEF Start, Reconcilable, Orphaned
  <2> QED BY <2>3
<1>3. ASSUME Reconcile, ~Start
      PROVE  /\ UNCHANGED <<cacheAuth, cacheJob, cacheCsl>> /\ CopiesBehind
             /\ queued' \in {queued, TRUE}
  BY <1>3, ReconcileKeeps DEF AuthorisedInv, Reconcile, Continue, SetConsoleOwner,
     CreateAuthorisation, CreateAuthoriserAccess, GetConsoleAuthorisation, GetJob, CreateJob,
     ListPods, AbortDeleteJob, AbortDeletePods, AbortUpdateConsole, UpdateStatus, PutStatus,
     UserRole, UserBinding, Collect, GoTo, ReturnError, ReturnDone, ReturnAfter
<1>4. ASSUME Reconcile, ~Start
      PROVE  Unhindered /\ UNCHANGED <<apiCsl, apiJob>>
  <2>1. ~Orphaned
    BY <1>0, Lasting DEF AuthorisedInv, Unhindered
  <2>2. /\ cacheFresh /\ jobFresh /\ UNCHANGED <<apiCsl, apiJob>>
        /\ apiAuth' = apiAuth \/ cacheAuth = NoAuthorisation
    BY <1>0, <1>3, <1>4
    DEF Unhindered, Reconcile, Continue, SetConsoleOwner, CreateAuthorisation, authorisationDiff,
     CreateAuthoriserAccess, GetConsoleAuthorisation, GetJob, CreateJob,
     ListPods, AbortDeleteJob, AbortDeletePods, AbortUpdateConsole, UpdateStatus, PutStatus,
     UserRole, UserBinding, Collect, ReturnError, PutConsole, PutConsoleFails, PutCsl, PutJob,
     api, caches, cslCache, jobCache
  <2> QED BY <1>0, <1>3, <1>4, <2>1, <2>2 DEF Unhindered
<1>6. CASE SetConsoleOwner \/ CreateAuthorisation \/ CreateAuthoriserAccess
  BY <1>0, <1>6 DEF SetConsoleOwner, CreateAuthorisation, CreateAuthoriserAccess, GoTo,
     ReturnError, Unhindered, context
<1>7. CASE GetConsoleAuthorisation
  <2>1. Unhindered /\ cacheAuth' = cacheAuth
    BY <1>3, <1>4, <1>7 DEF Reconcile, Continue, GetConsoleAuthorisation, Start
  <2> QED BY <1>0, <1>7, <2>1 DEF GetConsoleAuthorisation, GoTo, ReturnError, Unhindered, api
<1>8. CASE GetJob \/ CreateJob \/ ListPods
  <2>1. Unhindered /\ UNCHANGED <<cacheAuth, cacheJob, apiJob>> /\ cacheJob = apiJob
    BY <1>3, <1>4, <1>8 DEF Reconcile, Continue, GetJob, CreateJob, ListPods,
       Start, Unhindered, JobCurrent
  <2>2. CASE GetJob
    BY <1>0, <2>1, <2>2 DEF GetJob, GoTo, Noticed, api
  <2>3. CASE CreateJob
    BY <1>0, <2>1, <2>3 DEF CreateJob, GoTo, Noticed, PutJob, ReturnError, Unhindered
  <2>4. CASE ListPods
    BY <1>0, <2>1, <2>4 DEF ListPods, GoTo, Noticed, api
  <2> QED BY <1>8, <2>2, <2>3, <2>4
<1>9. CASE AbortDeleteJob \/ AbortDeletePods \/ AbortUpdateConsole
  <2>1. Unhindered
    BY <1>4, <1>9 DEF Reconcile, Continue, AbortDeleteJob, AbortDeletePods, AbortUpdateConsole,
       Start
  <2> QED BY <1>0, <1>9, <2>1 DEF AbortDeleteJob, AbortDeletePods, AbortUpdateConsole, Noticed,
          PutJob, ReturnError, Unhindered
<1>10. CASE UpdateStatus
  <2>1. Unhindered /\ UNCHANGED <<cacheAuth, apiAuth, apiJob>>
    BY <1>3, <1>4, <1>10 DEF Reconcile, Continue, UpdateStatus, Start, api
  <2>2. /\ pc = "status" /\ pc' = "updateStatus" /\ UNCHANGED <<authRule, authorisation>>
        /\ csl'.phase = calculatePhase(isConsoleAuthorised(authRule, authorisation), job, podList)
    BY <1>10 DEF UpdateStatus, GoTo, context, calculateStatus, TypeOK, ReconcileType, Console
  <2>3. /\ job = apiJob
        /\ authRule = NoRule \/ (cacheAuth # NoAuthorisation /\ authorisation = apiAuth)
    BY <2>1, <2>2 DEF Noticed
  <2>4. isConsoleAuthorised(authRule, authorisation) = isConsoleAuthorised(authRule, apiAuth')
    BY <2>1, <2>3 DEF isConsoleAuthorised
  <2>5. authRule \in Rules /\ podList \in [Pods -> PodState]
    BY <2>2 DEF AuthorisedInv, RuleFromTemplate, TypeOK, ReconcileType
  <2>6. CalledFor(csl.phase)'
    BY <2>1, <2>2, <2>3, <2>4, <2>5 DEF CalledFor
  <2> QED BY <2>1, <2>2, <2>3, <2>6
<1>11. CASE PutStatus
  <2>1. Unhindered /\ UNCHANGED <<cacheAuth, apiAuth, apiCsl, apiJob>>
    BY <1>3, <1>4, <1>11 DEF Reconcile, Continue, PutStatus, Start
  <2>2. /\ PutConsole(csl) /\ pc = "updateStatus" /\ pc' \in {"userRole", "collect"}
        /\ UNCHANGED <<authRule, authorisation>>
    BY <1>0, <1>11 DEF PutStatus, GoTo, context, ReturnError, Unhindered
  <2>3. Submitted(csl) = cacheCsl
    BY <1>0, <2>2 DEF PutConsole, PutCsl, Unhindered
  <2>4. cacheCsl = apiCsl
    BY <2>1 DEF Unhindered, AuthorisedInv, CacheCurrent
  <2>5. csl.phase = apiCsl.phase
    BY <2>3, <2>4, SubmittedKeeps DEF TypeOK, ReconcileType
  <2>6. CalledFor(apiCsl.phase)'
    BY <2>1, <2>2, <2>5 DEF CalledFor, Noticed
  <2> QED BY <2>1, <2>2, <2>6 DEF Noticed
<1>12. CASE UserRole \/ UserBinding \/ Collect
  <2>1. Unhindered /\ UNCHANGED <<cacheAuth, apiAuth, apiCsl, apiJob>>
    BY <1>3, <1>4, <1>12 DEF Reconcile, Continue, UserRole, UserBinding, Collect, Start
  <2>2. ~Resync
    BY <2>1 DEF Unhindered
  <2>3. CalledFor(apiCsl.phase)'
    BY <1>12, <2>1 DEF CalledFor, Noticed, UserRole, UserBinding, Collect
  <2>4. CASE UserRole
    BY <2>1, <2>3, <2>4 DEF UserRole, GoTo, context, Noticed
  <2>5. CASE UserBinding
    BY <2>2, <2>3, <2>5 DEF UserBinding, ReturnAfter, Return
  <2>6. CASE Collect
    BY <1>0, <2>2, <2>3, <2>6 DEF Collect, ReturnAfter, ReturnError, Return, PutCsl, Unhindered,
       RequeueTimer
  <2> QED BY <1>12, <2>4, <2>5, <2>6
<1> QED BY <1>1, <1>2, <1>6, <1>7, <1>8, <1>9, <1>10, <1>11, <1>12 DEF Reconcile, Continue

LEMMA ResyncStep == ASSUME Resync => queued, TypeOK, [Next]_vars PROVE Resync => queued'
<1>1. CASE Reconcile
  BY <1>1 DEF Reconcile, Continue, Start, SetConsoleOwner, CreateAuthorisation,
     CreateAuthoriserAccess, GetConsoleAuthorisation, GetJob, CreateJob, ListPods,
     AbortDeleteJob, AbortDeletePods, AbortUpdateConsole, UpdateStatus, PutStatus, UserRole,
     UserBinding, Collect, GoTo, ReturnError, ReturnDone, ReturnAfter
<1>2. CASE Fail
  BY <1>2 DEF Fail, ReturnError
<1>3. CASE Informers
  BY <1>3 DEF Informers, SyncConsole, SyncAuthorisation, SyncJob, SyncPods, Requeue,
     BeforeTTLElapses, AfterTTLElapses
<1> QED BY <1>1, <1>2, <1>3, NextSplits, ClusterKeeps DEF vars

\* Whatever comes between two calls of a reconciliation, whatever fails, and however old the
\* copy it starts from: a console left to its timer has one, and a phase that its
\* authorisations and its job call for.
THEOREM NothingGoesUnnoticed == Spec => []NothingUnnoticed
<1> DEFINE Inv == TypeOK /\ AuthorisedInv /\ NoticedInv
<1>1. Init => Inv
  BY InitTypeOK, AuthorisedInit, NoticedInit
<1>2. Inv /\ [Next]_vars => Inv'
  BY TypeStep, AuthorisedStep, JobCurrentStep, NoticedStep, ResyncStep DEF NoticedInv
<1>3. NoticedInv => NothingUnnoticed
  BY DEF NoticedInv, Noticed, Unhindered, CalledFor, NothingUnnoticed, AtRest
<1> QED BY <1>1, <1>2, <1>3, PTL DEF Spec
=============================================================================
