---------------------- MODULE ConsoleControllerProofs ----------------------
(***************************************************************************)
(* Safety of the reconcile loop for any pods, rules, bounds, disturbances  *)
(* and any staleness of the caches.                                        *)
(***************************************************************************)
EXTENDS ConsoleController, TLAPS

\* A status computed from any console, job and pods is that of a console.
LEMMA StatusType ==
  ASSUME NEW c \in Console, NEW b \in BOOLEAN, NEW j \in JobState,
         NEW list \in [Pods -> PodState]
  PROVE  calculateStatus(c, b, j, list) \in Console
<1>1. calculatePhase(b, j, list) \in Phase
  BY DEF calculatePhase, Phase
<1>2. (IF \E p \in Pods : p \in ListedPods(list)
       THEN CHOOSE p \in Pods : p \in ListedPods(list)
       ELSE c.podName) \in Pods \cup {NoPod}
  BY DEF Console
<1> QED BY <1>1, <1>2 DEF calculateStatus, Console, JobState

LEMMA SubmittedType ==
  ASSUME TypeOK, NEW c \in Console
  PROVE  Submitted(c) \in Console
BY DEF TypeOK, CacheType, Submitted, consoleDiff, Console

LEMMA RemovedType ==
  ASSUME TypeOK, NEW pods, RemovePods(pods)
  PROVE  apiPods' \in [Pods -> PodState]
BY DEF TypeOK, ApiType, RemovePods, Removed, PodState

LEMMA FixedConsoles == NewConsole \in Console /\ NoConsole \in Console
BY DEF NewConsole, NoConsole, Console, Phase

LEMMA FixedPods == NoPods \in [Pods -> PodState]
BY DEF NoPods, PodState

\* The initial states are of the right type.
LEMMA InitTypeOK == Init => TypeOK
<1> SUFFICES ASSUME Init PROVE TypeOK
  OBVIOUS
<1> USE FixedConsoles, FixedPods DEF Init
<1>1. ApiType
  BY DEF ApiType, JobState, NoAuthorisation, NoBinding
<1>2. CacheType
  BY DEF CacheType, JobState, NoAuthorisation
<1>3. ReconcileType
  BY DEF ReconcileType, PC, JobState, NoAuthorisation, NoRule
<1>4. QueueType
  <2>1. queued \in BOOLEAN
    BY ModeAssumption, Zenon
  <2>2. errors \in 0..MaxErrors
    BY BoundsAssumption, SMT
  <2>3. /\ timer \in Timer \cup {"none"}
        /\ events \in [request : 0..2, start : 0..2, terminate : 0..2]
    OBVIOUS
  <2> QED BY <2>1, <2>2, <2>3 DEF QueueType
<1> QED BY <1>1, <1>2, <1>3, <1>4 DEF TypeOK

-----------------------------------------------------------------------------
(* What the two halves of the system leave alone *)

Cluster ==
  \/ Authorise \/ FinishJob \/ JobDeadline \/ (\E p \in Pods : PodStep(p))
  \/ DeleteJob \/ DeleteConsole \/ DeleteConsoleForeground \/ EditTemplate
  \/ CollectJob \/ CollectAuthorisation \/ CollectAccess \/ RemoveConsole

Informers ==
  \/ SyncConsole \/ SyncAuthorisation \/ SyncJob \/ SyncPods
  \/ Requeue \/ BeforeTTLElapses \/ AfterTTLElapses

LEMMA NextSplits ==
  ASSUME [Next]_vars
  PROVE  Reconcile \/ Fail \/ Informers \/ Cluster \/ UNCHANGED vars
BY DEF Next, Environment, Informers, Cluster, Gone

LEMMA ClusterKeeps ==
  ASSUME Cluster
  PROVE  UNCHANGED <<cacheCsl, cacheAuth, cacheJob, cachePods, reconciler, queued,
                     timer, env, events>>
<1> USE DEF controller, cluster, cslCache
<1>1. ASSUME NEW p \in Pods, PodStep(p) PROVE UNCHANGED cluster
  BY <1>1 DEF PodStep, CreatePod, StartPod, FinishPod, EvictPod, RemovePod, MovePod
<1>2. CASE Authorise \/ EditTemplate \/ CollectAuthorisation \/ CollectAccess
  BY <1>2 DEF Authorise, EditTemplate, CollectAuthorisation, CollectAccess
<1>3. CASE FinishJob \/ JobDeadline \/ DeleteJob \/ CollectJob
  BY <1>3 DEF FinishJob, JobDeadline, DeleteJob, CollectJob
<1>4. CASE DeleteConsole \/ DeleteConsoleForeground \/ RemoveConsole
  BY <1>4 DEF DeleteConsole, DeleteConsoleForeground, RemoveConsole, jobCache
<1> QED BY <1>1, <1>2, <1>3, <1>4 DEF Cluster

LEMMA InformersKeep ==
  ASSUME Informers
  PROVE  UNCHANGED <<api, reconciler, events>>
BY DEF Informers, SyncConsole, SyncAuthorisation, SyncJob, SyncPods, Requeue,
       BeforeTTLElapses, AfterTTLElapses

LEMMA ReconcileKeeps ==
  ASSUME Reconcile \/ Fail
  PROVE  UNCHANGED <<cacheCsl, cacheAuth, cacheJob, cachePods, tpl, clocks>>
<1> USE DEF caches, cslCache, jobCache, env, api
<1>1. CASE Start \/ GetConsoleAuthorisation \/ GetJob \/ ListPods \/ UpdateStatus \/ Fail
  BY <1>1 DEF Start, GetConsoleAuthorisation, GetJob, ListPods, UpdateStatus, Fail
<1>2. CASE SetConsoleOwner \/ PutStatus \/ AbortUpdateConsole \/ Collect
  BY <1>2 DEF SetConsoleOwner, PutStatus, AbortUpdateConsole, Collect
<1>3. CASE CreateAuthorisation \/ CreateAuthoriserAccess \/ UserRole \/ UserBinding
  BY <1>3 DEF CreateAuthorisation, CreateAuthoriserAccess, UserRole, UserBinding
<1>4. CASE CreateJob \/ AbortDeleteJob \/ AbortDeletePods
  BY <1>4 DEF CreateJob, AbortDeleteJob, AbortDeletePods
<1> QED BY <1>1, <1>2, <1>3, <1>4 DEF Reconcile, Continue
-----------------------------------------------------------------------------
(* Type correctness *)

LEMMA ApiFrame ==
  ASSUME TypeOK, UNCHANGED api
  PROVE  ApiType'
BY DEF TypeOK, ApiType, api, access

\* A reconciliation's steps write values of the right type to the API.
LEMMA ReconcileApiType ==
  ASSUME TypeOK, Reconcile \/ Fail
  PROVE  ApiType'
<1> USE DEF TypeOK, ApiType, api, access, JobState
<1>1. CASE Start \/ GetConsoleAuthorisation \/ GetJob \/ ListPods \/ UpdateStatus \/ Fail
  BY <1>1 DEF Start, GetConsoleAuthorisation, GetJob, ListPods, UpdateStatus, Fail
<1>2. ASSUME NEW c \in Console, PutConsole(c) PROVE apiCsl' \in Console
  BY <1>2, SubmittedType DEF PutConsole, PutCsl
<1>3. csl \in Console
  BY DEF ReconcileType
<1>4. CASE SetConsoleOwner
  <2>1. apiCsl' \in Console
    BY <1>2, <1>3, <1>4 DEF SetConsoleOwner, PutConsoleFails
  <2> QED BY <1>4, <2>1 DEF SetConsoleOwner
<1>5. CASE AbortUpdateConsole
  <2>1. apiCsl' \in Console
    BY <1>2, <1>3, <1>5 DEF AbortUpdateConsole, PutConsoleFails
  <2> QED BY <1>5, <2>1 DEF AbortUpdateConsole
<1>6. CASE PutStatus
  <2>1. apiCsl' \in Console
    BY <1>2, <1>3, <1>6 DEF PutStatus, PutConsoleFails
  <2> QED BY <1>6, <2>1 DEF PutStatus
<1>7. CASE Collect
  <2>1. apiCsl' \in Console
    BY <1>7, FixedConsoles DEF Collect, PutCsl
  <2> QED BY <1>7, <2>1 DEF Collect
<1>8. CASE CreateAuthorisation
  BY <1>8 DEF CreateAuthorisation, authorisationDiff
<1>9. CASE CreateAuthoriserAccess
  BY <1>9 DEF CreateAuthoriserAccess
<1>10. CASE CreateJob
  BY <1>10 DEF CreateJob, PutJob
<1>11. CASE AbortDeleteJob
  BY <1>11 DEF AbortDeleteJob, PutJob
<1>12. CASE AbortDeletePods
  <2>1. apiPods' \in [Pods -> PodState]
    BY <1>12, RemovedType DEF AbortDeletePods
  <2> QED BY <1>12, <2>1 DEF AbortDeletePods
<1>13. CASE UserRole
  <2>1. role' \in Pods \cup {NoPod}
    BY <1>3, <1>13 DEF UserRole, Console
  <2> QED BY <1>13, <2>1 DEF UserRole
<1>14. CASE UserBinding
  <2>1. binding' \in Nat \cup {NoBinding}
    BY <1>14 DEF UserBinding, ReconcileType
  <2> QED BY <1>14, <2>1 DEF UserBinding
<1> QED BY <1>1, <1>4, <1>5, <1>6, <1>7, <1>8, <1>9, <1>10, <1>11, <1>12, <1>13, <1>14
        DEF Reconcile, Continue

\* So do the other actors of the cluster.
LEMMA ClusterApiType ==
  ASSUME TypeOK, Cluster
  PROVE  ApiType'
<1> USE DEF TypeOK, ApiType, access, JobState
<1>1. ASSUME NEW p \in Pods, PodStep(p) PROVE ApiType'
  BY <1>1 DEF PodStep, CreatePod, StartPod, FinishPod, EvictPod, RemovePod, MovePod,
              PodState
<1>2. CASE Authorise
  BY <1>2 DEF Authorise
<1>3. CASE EditTemplate
  BY <1>3 DEF EditTemplate
<1>4. CASE CollectAuthorisation \/ CollectAccess
  BY <1>4 DEF CollectAuthorisation, CollectAccess
<1>5. CASE FinishJob
  BY <1>5 DEF FinishJob, PutJob
<1>6. CASE JobDeadline \/ DeleteJob \/ CollectJob
  <2>1. apiPods' \in [Pods -> PodState]
    BY <1>6, RemovedType DEF JobDeadline, DeleteJob, CollectJob
  <2> QED BY <1>6, <2>1 DEF JobDeadline, DeleteJob, CollectJob, PutJob
<1>7. CASE DeleteConsole \/ RemoveConsole
  <2>1. apiCsl' \in Console
    BY <1>7, FixedConsoles DEF DeleteConsole, RemoveConsole, PutCsl
  <2> QED BY <1>7, <2>1 DEF DeleteConsole, RemoveConsole
<1>8. CASE DeleteConsoleForeground
  <2>1. apiCsl' \in Console
    BY <1>8 DEF DeleteConsoleForeground, PutCsl, Console
  <2> QED BY <1>8, <2>1 DEF DeleteConsoleForeground
<1> QED BY <1>1, <1>2, <1>3, <1>4, <1>5, <1>6, <1>7, <1>8 DEF Cluster

LEMMA CacheTypeStep ==
  ASSUME TypeOK, [Next]_vars
  PROVE  CacheType'
<1> USE DEF TypeOK, CacheType
<1>1. cacheFresh' \in BOOLEAN /\ jobFresh' \in BOOLEAN
  <2>1. ASSUME NEW c, PutConsole(c) \/ PutConsoleFails(c) PROVE cacheFresh' \in BOOLEAN
    BY <2>1 DEF PutConsole, PutConsoleFails, PutCsl
  <2>2. CASE Start \/ GetConsoleAuthorisation \/ GetJob \/ ListPods \/ UpdateStatus \/ Fail
    BY <2>2 DEF Start, GetConsoleAuthorisation, GetJob, ListPods, UpdateStatus, Fail,
                caches, cslCache, jobCache
  <2>3. CASE SetConsoleOwner \/ PutStatus \/ AbortUpdateConsole
    BY <2>1, <2>3 DEF SetConsoleOwner, PutStatus, AbortUpdateConsole, jobCache
  <2>4. CASE CreateAuthorisation \/ CreateAuthoriserAccess \/ UserRole \/ UserBinding
             \/ AbortDeletePods
    BY <2>4 DEF CreateAuthorisation, CreateAuthoriserAccess, UserRole, UserBinding,
                AbortDeletePods, caches, cslCache, jobCache
  <2>5. CASE CreateJob \/ AbortDeleteJob \/ Collect
    BY <2>5 DEF CreateJob, AbortDeleteJob, Collect, PutJob, PutCsl, cslCache, jobCache
  <2>6. CASE Informers
    BY <2>6 DEF Informers, SyncConsole, SyncAuthorisation, SyncJob, SyncPods, Requeue,
                BeforeTTLElapses, AfterTTLElapses, caches, cslCache, jobCache
  <2>7. ASSUME NEW p \in Pods, PodStep(p) PROVE UNCHANGED <<cacheFresh, jobFresh>>
    BY <2>7 DEF PodStep, CreatePod, StartPod, FinishPod, EvictPod, RemovePod, MovePod,
                cluster, controller, cslCache
  <2>8. CASE Cluster
    BY <2>7, <2>8 DEF Cluster, Authorise, FinishJob, JobDeadline, DeleteJob, DeleteConsole,
                DeleteConsoleForeground, EditTemplate, CollectJob, CollectAuthorisation,
                CollectAccess, RemoveConsole, PutJob, PutCsl, cluster, controller,
                cslCache, jobCache
  <2>9. CASE UNCHANGED vars
    BY <2>9 DEF vars, caches, cslCache, jobCache
  <2> QED BY NextSplits, <2>2, <2>3, <2>4, <2>5, <2>6, <2>8, <2>9 DEF Reconcile, Continue
<1>2. CASE Reconcile \/ Fail \/ Cluster
  BY <1>1, <1>2, ReconcileKeeps, ClusterKeeps
<1>3. CASE Informers
  <2>1. cacheCsl' \in {cacheCsl, apiCsl} /\ cacheAuth' \in {cacheAuth, apiAuth}
    BY <1>3 DEF Informers, SyncConsole, SyncAuthorisation, SyncJob, SyncPods, Requeue,
                BeforeTTLElapses, AfterTTLElapses, caches, cslCache
  <2>2. cacheJob' \in {cacheJob, apiJob} /\ cachePods' \in {cachePods, apiPods}
    BY <1>3 DEF Informers, SyncConsole, SyncAuthorisation, SyncJob, SyncPods, Requeue,
                BeforeTTLElapses, AfterTTLElapses, caches, jobCache
  <2> QED BY <1>1, <2>1, <2>2 DEF ApiType
<1>4. CASE UNCHANGED vars
  BY <1>1, <1>4 DEF vars, caches, cslCache, jobCache
<1> QED BY NextSplits, <1>2, <1>3, <1>4

LEMMA ReturnType ==
  ASSUME Return
  PROVE  ReconcileType'
<1>1. podList' \in [Pods -> PodState] /\ csl' \in Console
  BY FixedConsoles, FixedPods DEF Return
<1> QED BY <1>1 DEF Return, ReconcileType, PC, JobState, NoAuthorisation

\* What a reconciliation reads and computes has the right type.
LEMMA ReconcileTypeStep ==
  ASSUME TypeOK, [Next]_vars
  PROVE  ReconcileType'
<1>0. ReconcileType /\ CacheType /\ tpl \in Rules
  BY DEF TypeOK, ApiType
<1> USE DEF ReconcileType, context, GoTo, PC
<1>1. CASE Start
  <2>1. csl' \in Console
    BY <1>0, <1>1 DEF Start, CacheType, Console
  <2>2. isNewConsole' \in BOOLEAN
    BY <1>0, <1>1 DEF Start, IsNew
  <2> QED BY <1>0, <1>1, <2>1, <2>2 DEF Start
<1>2. CASE SetConsoleOwner
  <2>1. Submitted(csl) \in Console
    BY <1>0, SubmittedType
  <2> QED BY <1>0, <1>2, <2>1, ReturnType DEF SetConsoleOwner, ReturnError
<1>3. CASE CreateAuthorisation \/ CreateAuthoriserAccess \/ GetConsoleAuthorisation
  BY <1>0, <1>3, ReturnType
  DEF CreateAuthorisation, CreateAuthoriserAccess, GetConsoleAuthorisation, ReturnError,
      CacheType
<1>4. CASE GetJob \/ ListPods
  BY <1>0, <1>4 DEF GetJob, ListPods, CacheType
<1>5. CASE CreateJob
  BY <1>0, <1>5, ReturnType DEF CreateJob, ReturnError, CacheType, JobState
<1>6. CASE AbortDeleteJob \/ AbortDeletePods
  BY <1>0, <1>6, ReturnType DEF AbortDeleteJob, AbortDeletePods, ReturnError
<1>7. CASE AbortUpdateConsole
  BY <1>7, ReturnType DEF AbortUpdateConsole, ReturnDone, ReturnError
<1>8. CASE UpdateStatus
  <2>1. isConsoleAuthorised(authRule, authorisation) \in BOOLEAN
    BY DEF isConsoleAuthorised
  <2>2. csl' \in Console
    BY <1>0, <1>8, <2>1, StatusType DEF UpdateStatus
  <2> QED BY <1>0, <1>8, <2>2 DEF UpdateStatus
<1>9. CASE PutStatus
  <2>1. Submitted(csl) \in Console
    BY <1>0, SubmittedType
  <2> QED BY <1>0, <1>9, <2>1, ReturnType DEF PutStatus, ReturnError
<1>10. CASE UserRole
  BY <1>0, <1>10 DEF UserRole
<1>11. CASE UserBinding \/ Collect \/ Fail
  BY <1>11, ReturnType DEF UserBinding, Collect, Fail, ReturnAfter, ReturnDone, ReturnError
<1>12. CASE Informers \/ Cluster
  <2>1. UNCHANGED reconciler
    BY <1>12, InformersKeep, ClusterKeeps
  <2> QED BY <1>0, <2>1 DEF reconciler
<1>13. CASE UNCHANGED vars
  BY <1>0, <1>13 DEF vars
<1> QED BY NextSplits, <1>1, <1>2, <1>3, <1>4, <1>5, <1>6, <1>7, <1>8, <1>9, <1>10, <1>11,
           <1>12, <1>13 DEF Reconcile, Continue

\* The queue, the clocks and the counters keep their types.
LEMMA QueueTypeStep ==
  ASSUME TypeOK, [Next]_vars
  PROVE  QueueType'
<1>0. QueueType
  BY DEF TypeOK
<1>1. CASE Reconcile \/ Fail
  <2>1. beforeTTL' \in BOOLEAN /\ afterTTL' \in BOOLEAN
    BY <1>0, <1>1, ReconcileKeeps DEF QueueType, clocks
  <2>2. queued' \in BOOLEAN
    BY <1>0, <1>1, ModeAssumption
    DEF QueueType, Reconcile, Continue, Start, SetConsoleOwner, CreateAuthorisation,
        CreateAuthoriserAccess, GetConsoleAuthorisation, GetJob, CreateJob, ListPods,
        AbortDeleteJob, AbortDeletePods, AbortUpdateConsole, UpdateStatus, PutStatus,
        UserRole, UserBinding, Collect, Fail, GoTo, ReturnError, ReturnDone, ReturnAfter
  <2>3. timer' \in Timer \cup {"none"}
    BY <1>0, <1>1
    DEF QueueType, Reconcile, Continue, Start, SetConsoleOwner, CreateAuthorisation,
        CreateAuthoriserAccess, GetConsoleAuthorisation, GetJob, CreateJob, ListPods,
        AbortDeleteJob, AbortDeletePods, AbortUpdateConsole, UpdateStatus, PutStatus,
        UserRole, UserBinding, Collect, Fail, GoTo, ReturnError, ReturnDone, ReturnAfter,
        RequeueTimer, Timer
  <2>4. errors' \in 0..MaxErrors
    BY <1>0, <1>1, BoundsAssumption
    DEF QueueType, Reconcile, Continue, Start, SetConsoleOwner, CreateAuthorisation,
        CreateAuthoriserAccess, GetConsoleAuthorisation, GetJob, CreateJob, ListPods,
        AbortDeleteJob, AbortDeletePods, AbortUpdateConsole, UpdateStatus, PutStatus,
        UserRole, UserBinding, Collect, Fail, env
  <2>5. events' \in [request : 0..2, start : 0..2, terminate : 0..2]
    BY <1>0, <1>1
    DEF QueueType, Reconcile, Continue, Start, SetConsoleOwner, CreateAuthorisation,
        CreateAuthoriserAccess, GetConsoleAuthorisation, GetJob, CreateJob, ListPods,
        AbortDeleteJob, AbortDeletePods, AbortUpdateConsole, UpdateStatus, PutStatus,
        UserRole, UserBinding, Collect, Fail, Record, Once
  <2> QED BY <2>1, <2>2, <2>3, <2>4, <2>5 DEF QueueType
<1>2. CASE Informers
  BY <1>0, <1>2
  DEF QueueType, Informers, SyncConsole, SyncAuthorisation, SyncJob, SyncPods, Requeue,
      BeforeTTLElapses, AfterTTLElapses, env, clocks
<1>3. CASE Cluster \/ UNCHANGED vars
  <2>1. UNCHANGED <<queued, timer, env, events>>
    BY <1>3, ClusterKeeps DEF vars
  <2> QED BY <1>0, <2>1 DEF QueueType, env, clocks
<1> QED BY NextSplits, <1>1, <1>2, <1>3

LEMMA TypeStep ==
  ASSUME TypeOK, [Next]_vars
  PROVE  TypeOK'
<1>1. ApiType'
  <2>1. CASE Reconcile \/ Fail
    BY <2>1, ReconcileApiType
  <2>2. CASE Cluster
    BY <2>2, ClusterApiType
  <2>3. CASE Informers \/ UNCHANGED vars
    <3>1. UNCHANGED api
      BY <2>3, InformersKeep DEF vars
    <3> QED BY <3>1, ApiFrame
  <2> QED BY NextSplits, <2>1, <2>2, <2>3
<1> QED BY <1>1, CacheTypeStep, ReconcileTypeStep, QueueTypeStep DEF TypeOK

\* Every reachable state is of the right type, whatever the constants.
THEOREM TypeCorrect == Spec => []TypeOK
<1>1. Init => TypeOK
  BY InitTypeOK
<1>2. TypeOK /\ [Next]_vars => TypeOK'
  BY TypeStep
<1> QED BY <1>1, <1>2, PTL DEF Spec

-----------------------------------------------------------------------------
(* Authorised jobs *)

Enough == \E r \in Rules : apiAuth >= r

CacheCurrent == cacheFresh => cacheCsl = apiCsl

RuleFromTemplate == pc # "idle" => authRule \in Rules

\* Authorisations are only appended to while the console lasts.
CopiesBehind == ~Orphaned => cacheAuth <= apiAuth /\ authorisation <= apiAuth

\* Whoever has seen a job, or is about to write one, has an authorised console.
JobSeenAuthorised ==
  /\ ~Orphaned
  /\ apiJob # "none" \/ cacheJob # "none" \/ job # "none" \/ pc = "createJob"
  => Enough

AuthorisedInv ==
  CacheCurrent /\ RuleFromTemplate /\ CopiesBehind /\ JobSeenAuthorised

LEMMA PutConsoleKeeps ==
  ASSUME TypeOK, CacheCurrent, NEW c \in Console, PutConsole(c)
  PROVE  Orphaned' = Orphaned
<1>1. CASE UNCHANGED apiCsl
  BY <1>1 DEF Orphaned
<1>2. CASE apiCsl' = Submitted(c) /\ cacheFresh
  <2>1. /\ apiCsl'.exists = apiCsl.exists
        /\ apiCsl'.deleting = apiCsl.deleting
    BY <1>2 DEF CacheCurrent, Submitted, consoleDiff, TypeOK, CacheType, Console
  <2> QED BY <2>1 DEF Orphaned
<1> QED BY <1>1, <1>2 DEF PutConsole, PutCsl

\* A console that is deleted or being deleted stays so, and until then the list of
\* authorisations only grows: no write of the controller revives or shortens either.
LEMMA Lasting ==
  ASSUME TypeOK, CacheCurrent, [Next]_vars, ~Orphaned'
  PROVE  ~Orphaned /\ apiAuth <= apiAuth'
<1>0. apiAuth \in Int /\ csl \in Console /\ apiCsl \in Console
  BY DEF TypeOK, ApiType, ReconcileType, NoAuthorisation
<1>1. CASE UNCHANGED <<apiCsl, apiAuth>>
  BY <1>0, <1>1 DEF Orphaned
<1>2. CASE SetConsoleOwner \/ PutStatus \/ AbortUpdateConsole
  <2>1. apiAuth' = apiAuth
    BY <1>2 DEF SetConsoleOwner, PutStatus, AbortUpdateConsole
  <2>2. PutConsole(csl) \/ UNCHANGED apiCsl
    BY <1>2 DEF SetConsoleOwner, PutStatus, AbortUpdateConsole, PutConsoleFails
  <2> QED BY <1>0, <2>1, <2>2, PutConsoleKeeps DEF Orphaned
<1>3. CASE CreateAuthorisation
  BY <1>0, <1>3 DEF CreateAuthorisation, authorisationDiff, NoAuthorisation, Orphaned
<1>4. CASE Collect
  <2>1. UNCHANGED <<apiCsl, apiAuth>> \/ apiCsl' = NoConsole
    BY <1>4 DEF Collect, PutCsl
  <2> QED BY <1>1, <2>1 DEF Orphaned, NoConsole, NewConsole
<1>5. CASE CreateAuthoriserAccess \/ UserRole \/ UserBinding
           \/ CreateJob \/ AbortDeleteJob \/ AbortDeletePods
  BY <1>1, <1>5 DEF CreateAuthoriserAccess, UserRole, UserBinding, CreateJob,
     AbortDeleteJob, AbortDeletePods
<1>6. CASE Start \/ GetConsoleAuthorisation \/ GetJob \/ ListPods \/ UpdateStatus \/ Fail
  BY <1>1, <1>6 DEF Start, GetConsoleAuthorisation, GetJob, ListPods, UpdateStatus, Fail,
     api
<1>7. CASE Informers
  BY <1>1, <1>7, InformersKeep DEF api
<1>8. ASSUME NEW p \in Pods, PodStep(p) PROVE UNCHANGED <<apiCsl, apiAuth>>
  BY <1>8 DEF PodStep, CreatePod, StartPod, FinishPod, EvictPod, RemovePod, MovePod
<1>9. CASE Authorise
  BY <1>0, <1>9 DEF Authorise, Orphaned
<1>10. CASE FinishJob \/ JobDeadline \/ DeleteJob \/ EditTemplate \/ CollectJob
            \/ CollectAccess
  BY <1>1, <1>10 DEF FinishJob, JobDeadline, DeleteJob, EditTemplate, CollectJob,
     CollectAccess
<1>11. CASE CollectAuthorisation
  BY <1>11 DEF CollectAuthorisation, Orphaned
<1>12. CASE DeleteConsole \/ RemoveConsole
  BY <1>12 DEF DeleteConsole, RemoveConsole, PutCsl, Orphaned, NoConsole, NewConsole
<1>13. CASE DeleteConsoleForeground
  BY <1>0, <1>13 DEF DeleteConsoleForeground, PutCsl, Orphaned, Console
<1>14. CASE UNCHANGED vars
  BY <1>1, <1>14 DEF vars, api
<1> QED BY NextSplits, <1>1, <1>2, <1>3, <1>4, <1>5, <1>6, <1>7, <1>8, <1>9, <1>10, <1>11,
           <1>12, <1>13, <1>14 DEF Reconcile, Continue, Cluster

LEMMA EnoughLasts ==
  ASSUME TypeOK, TypeOK', Enough, apiAuth <= apiAuth'
  PROVE  Enough'
BY RulesAssumption DEF Enough, TypeOK, ApiType, NoAuthorisation, NoRule

LEMMA CacheCurrentStep ==
  ASSUME CacheCurrent, [Next]_vars
  PROVE  CacheCurrent'
<1> USE DEF CacheCurrent
<1>1. CASE UNCHANGED <<apiCsl, cacheCsl, cacheFresh>>
  BY <1>1
<1>2. CASE Start \/ GetConsoleAuthorisation \/ GetJob \/ ListPods \/ UpdateStatus \/ Fail
  BY <1>1, <1>2 DEF Start, GetConsoleAuthorisation, GetJob, ListPods, UpdateStatus, Fail,
     api, caches, cslCache
<1>3. CASE SetConsoleOwner \/ PutStatus \/ AbortUpdateConsole \/ Collect
  BY <1>3 DEF SetConsoleOwner, PutStatus, AbortUpdateConsole, Collect, PutConsole,
     PutConsoleFails, PutCsl
<1>4. CASE CreateAuthorisation \/ CreateAuthoriserAccess \/ UserRole \/ UserBinding
           \/ CreateJob \/ AbortDeleteJob \/ AbortDeletePods
  BY <1>1, <1>4 DEF CreateAuthorisation, CreateAuthoriserAccess, UserRole, UserBinding,
     CreateJob, AbortDeleteJob, AbortDeletePods, caches, cslCache
<1>5. CASE Informers
  BY <1>5 DEF Informers, SyncConsole, SyncAuthorisation, SyncJob, SyncPods, Requeue,
     BeforeTTLElapses, AfterTTLElapses, api, caches, cslCache
<1>6. ASSUME NEW p \in Pods, PodStep(p) PROVE UNCHANGED <<apiCsl, cacheCsl, cacheFresh>>
  BY <1>6 DEF PodStep, CreatePod, StartPod, FinishPod, EvictPod, RemovePod, MovePod,
     cluster, controller, cslCache
<1>7. CASE Authorise \/ FinishJob \/ JobDeadline \/ DeleteJob \/ EditTemplate \/ CollectJob
           \/ CollectAuthorisation \/ CollectAccess
  BY <1>1, <1>7 DEF Authorise, FinishJob, JobDeadline, DeleteJob, EditTemplate, CollectJob,
     CollectAuthorisation, CollectAccess, cluster, controller, cslCache
<1>8. CASE DeleteConsole \/ DeleteConsoleForeground \/ RemoveConsole
  BY <1>8 DEF DeleteConsole, DeleteConsoleForeground, RemoveConsole, PutCsl
<1>9. CASE UNCHANGED vars
  BY <1>1, <1>9 DEF vars, api, caches, cslCache
<1> QED BY NextSplits, <1>1, <1>2, <1>3, <1>4, <1>5, <1>6, <1>7, <1>8, <1>9
        DEF Reconcile, Continue, Cluster

\* Where the reconciliation's rule and list of authorisations come from.
LEMMA ReadSources ==
  ASSUME [Next]_vars
  PROVE  /\ pc' = "idle" \/ authRule' = tpl \/ (pc # "idle" /\ authRule' = authRule)
         /\ authorisation' \in {authorisation, cacheAuth, NoAuthorisation}
         /\ cacheAuth' \in {cacheAuth, apiAuth}
<1>1. CASE UNCHANGED reconciler /\ cacheAuth' \in {cacheAuth, apiAuth}
  BY <1>1 DEF reconciler, context
<1>2. CASE Reconcile \/ Fail
  <2>1. cacheAuth' = cacheAuth
    BY <1>2, ReconcileKeeps
  <2>2. CASE Start
    BY <2>1, <2>2 DEF Start
  <2>3. CASE SetConsoleOwner \/ PutStatus \/ AbortUpdateConsole
    BY <2>1, <2>3 DEF SetConsoleOwner, PutStatus, AbortUpdateConsole, Return, ReturnError,
       ReturnDone, context
  <2>4. CASE CreateAuthorisation \/ CreateAuthoriserAccess \/ GetConsoleAuthorisation
             \/ GetJob \/ CreateJob \/ ListPods
    BY <2>1, <2>4 DEF CreateAuthorisation, CreateAuthoriserAccess,
       GetConsoleAuthorisation, GetJob, CreateJob, ListPods, Return, ReturnError, context
  <2>5. CASE AbortDeleteJob \/ AbortDeletePods \/ UpdateStatus \/ UserRole
    BY <2>1, <2>5 DEF AbortDeleteJob, AbortDeletePods, UpdateStatus, UserRole, Return,
       ReturnError, context
  <2>6. CASE UserBinding \/ Collect \/ Fail
    BY <2>1, <2>6 DEF UserBinding, Collect, Fail, Return, ReturnError, ReturnDone,
       ReturnAfter
  <2> QED BY <1>2, <2>2, <2>3, <2>4, <2>5, <2>6 DEF Reconcile, Continue
<1>3. CASE Informers
  <2>1. cacheAuth' \in {cacheAuth, apiAuth}
    BY <1>3 DEF Informers, SyncConsole, SyncAuthorisation, SyncJob, SyncPods, Requeue,
       BeforeTTLElapses, AfterTTLElapses, caches
  <2> QED BY <1>1, <1>3, <2>1, InformersKeep
<1>4. CASE Cluster
  BY <1>1, <1>4, ClusterKeeps
<1>5. CASE UNCHANGED vars
  BY <1>1, <1>5 DEF vars, caches, reconciler
<1> QED BY NextSplits, <1>2, <1>3, <1>4, <1>5

\* Where a job, or a copy of one, comes from: an earlier copy, or the step that
\* getJob's gate leads to.
LEMMA JobSources ==
  ASSUME [Next]_vars
  PROVE  /\ apiJob' # "none" => apiJob # "none" \/ pc = "createJob"
         /\ cacheJob' # "none" => cacheJob # "none" \/ apiJob # "none"
         /\ job' # "none" => job # "none" \/ cacheJob # "none" \/ pc = "createJob"
         /\ pc' = "createJob" =>
              \/ pc = "createJob" \/ cacheJob # "none"
              \/ pc = "getJob" /\ isConsoleAuthorised(authRule, authorisation)
<1>1. CASE Reconcile \/ Fail
  <2>1. cacheJob' = cacheJob
    BY <1>1, ReconcileKeeps
  <2>2. CASE Start
    BY <2>1, <2>2 DEF Start, api
  <2>3. CASE SetConsoleOwner \/ PutStatus \/ AbortUpdateConsole
    BY <2>1, <2>3 DEF SetConsoleOwner, PutStatus, AbortUpdateConsole, GoTo, Return,
       ReturnError, ReturnDone, context
  <2>4. CASE CreateAuthorisation \/ CreateAuthoriserAccess \/ GetConsoleAuthorisation
    BY <2>1, <2>4 DEF CreateAuthorisation, CreateAuthoriserAccess,
       GetConsoleAuthorisation, GoTo, Return, ReturnError, context, api
  <2>5. CASE GetJob \/ ListPods
    BY <2>1, <2>5 DEF GetJob, ListPods, GoTo, api
  <2>6. CASE CreateJob
    BY <2>1, <2>6 DEF CreateJob, GoTo, PutJob, Return, ReturnError
  <2>7. CASE AbortDeleteJob \/ AbortDeletePods
    BY <2>1, <2>7 DEF AbortDeleteJob, AbortDeletePods, GoTo, PutJob, Return, ReturnError,
       context
  <2>8. CASE UpdateStatus \/ UserRole
    BY <2>1, <2>8 DEF UpdateStatus, UserRole, GoTo, context, api
  <2>9. CASE UserBinding \/ Collect \/ Fail
    BY <2>1, <2>9 DEF UserBinding, Collect, Fail, Return, ReturnError, ReturnDone,
       ReturnAfter, api
  <2> QED BY <1>1, <2>2, <2>3, <2>4, <2>5, <2>6, <2>7, <2>8, <2>9 DEF Reconcile, Continue
<1>2. CASE Informers
  BY <1>2, InformersKeep DEF Informers, SyncConsole, SyncAuthorisation, SyncJob, SyncPods,
     Requeue, BeforeTTLElapses, AfterTTLElapses, api, caches, jobCache, reconciler, context
<1>3. CASE Cluster
  <2>1. ASSUME NEW p \in Pods, PodStep(p) PROVE apiJob' = apiJob
    BY <2>1 DEF PodStep, CreatePod, StartPod, FinishPod, EvictPod, RemovePod, MovePod
  <2>2. apiJob' # "none" => apiJob # "none"
    BY <1>3, <2>1 DEF Cluster, Authorise, FinishJob, JobDeadline, DeleteJob, DeleteConsole,
       DeleteConsoleForeground, EditTemplate, CollectJob, CollectAuthorisation,
       CollectAccess, RemoveConsole, PutJob
  <2> QED BY <1>3, <2>2, ClusterKeeps DEF reconciler, context
<1>4. CASE UNCHANGED vars
  BY <1>4 DEF vars, api, caches, jobCache, context
<1> QED BY NextSplits, <1>1, <1>2, <1>3, <1>4

LEMMA AuthorisedInit == Init => AuthorisedInv
BY DEF Init, AuthorisedInv, CacheCurrent, RuleFromTemplate, CopiesBehind,
       JobSeenAuthorised, NoAuthorisation

LEMMA AuthorisedStep ==
  ASSUME TypeOK, TypeOK', AuthorisedInv, [Next]_vars
  PROVE  AuthorisedInv'
<1> USE DEF AuthorisedInv
<1>1. CacheCurrent'
  BY CacheCurrentStep
<1>2. RuleFromTemplate'
  BY ReadSources DEF RuleFromTemplate, TypeOK, ApiType
<1>3. CopiesBehind'
  <2>1. SUFFICES ASSUME ~Orphaned' PROVE cacheAuth' <= apiAuth' /\ authorisation' <= apiAuth'
    BY DEF CopiesBehind
  <2>2. ~Orphaned /\ apiAuth <= apiAuth'
    BY <2>1, Lasting
  <2>3. cacheAuth <= apiAuth /\ authorisation <= apiAuth
    BY <2>2 DEF CopiesBehind
  <2> QED BY <2>2, <2>3, ReadSources
          DEF TypeOK, ApiType, CacheType, ReconcileType, NoAuthorisation
<1>4. JobSeenAuthorised'
  <2>1. SUFFICES ASSUME ~Orphaned',
                        apiJob' # "none" \/ cacheJob' # "none" \/ job' # "none"
                          \/ pc' = "createJob"
                 PROVE  Enough'
    BY DEF JobSeenAuthorised
  <2>2. ~Orphaned /\ apiAuth <= apiAuth'
    BY <2>1, Lasting
  <2>3. CASE apiJob # "none" \/ cacheJob # "none" \/ job # "none" \/ pc = "createJob"
    BY <2>2, <2>3, EnoughLasts DEF JobSeenAuthorised
  <2>4. CASE pc = "getJob" /\ isConsoleAuthorised(authRule, authorisation)
    <3>1. authRule \in Rules
      BY <2>4 DEF RuleFromTemplate
    <3>2. authorisation >= authRule
      BY <2>4, <3>1, RulesAssumption
      DEF isConsoleAuthorised, TypeOK, ReconcileType, NoRule, NoAuthorisation
    <3>3. apiAuth >= authRule
      BY <2>2, <3>1, <3>2, RulesAssumption
      DEF CopiesBehind, TypeOK, ReconcileType, ApiType, NoRule, NoAuthorisation
    <3> QED BY <2>2, <3>1, <3>3, EnoughLasts DEF Enough
  <2> QED BY <2>1, <2>3, <2>4, JobSources
<1> QED BY <1>1, <1>2, <1>3, <1>4

\* A console's job exists only if a rule of its template is satisfied.
THEOREM JobsAreAuthorised == Spec => []AuthorisedJob
<1>1. Init => TypeOK /\ AuthorisedInv
  BY InitTypeOK, AuthorisedInit
<1>2. TypeOK /\ AuthorisedInv /\ [Next]_vars => (TypeOK /\ AuthorisedInv)'
  BY TypeStep, AuthorisedStep
<1>3. AuthorisedInv => AuthorisedJob
  BY DEF AuthorisedInv, JobSeenAuthorised, AuthorisedJob, Enough
<1> QED BY <1>1, <1>2, <1>3, PTL DEF Spec
-----------------------------------------------------------------------------
(* Finished consoles have a time *)

\* A console past its gate has the expiry time of the job it was launched with.
Timed(c) == ~PendingJob(c) => c.expiry

\* A console is found to have lost its job only once it is past its gate.
LossSeen ==
  /\ pc = "listPods" => job # "none"
  /\ pc = "status" /\ job = "none" /\ isConsoleAuthorised(authRule, authorisation)
     => ~PendingJob(csl)

TimedInv == Timed(apiCsl) /\ Timed(cacheCsl) /\ Timed(csl) /\ LossSeen

LEMMA FixedTimed == Timed(NewConsole) /\ Timed(NoConsole)
BY DEF Timed, PendingJob, NewConsole, NoConsole

LEMMA SubmittedTimed ==
  ASSUME TypeOK, NEW c \in Console, Timed(c)
  PROVE  Timed(Submitted(c))
BY DEF TypeOK, CacheType, Timed, PendingJob, Submitted, consoleDiff, Console

LEMMA StatusTimed ==
  ASSUME NEW c \in Console, NEW b \in BOOLEAN, NEW j \in JobState, NEW list,
         Timed(c), b /\ j = "none" => ~PendingJob(c)
  PROVE  Timed(calculateStatus(c, b, j, list))
<1> DEFINE new == calculateStatus(c, b, j, list)
<1>1. new.phase = calculatePhase(b, j, list) /\ new.expiry = (c.expiry \/ j # "none")
  BY DEF calculateStatus, Console
<1>2. CASE ~b
  BY <1>1, <1>2 DEF calculatePhase, Timed, PendingJob
<1>3. CASE b /\ j = "none"
  <2>1. c.expiry
    BY <1>3 DEF Timed
  <2> QED BY <1>1, <2>1 DEF Timed
<1>4. CASE j # "none"
  BY <1>1, <1>4 DEF Timed
<1> QED BY <1>2, <1>3, <1>4

LEMMA TimedInit == Init => TimedInv
BY FixedTimed DEF Init, TimedInv, LossSeen

\* The consoles stored, cached and held after a step, in terms of those before it.
LEMMA ConsoleSources ==
  ASSUME TypeOK, [Next]_vars
  PROVE  /\ \/ apiCsl' = apiCsl \/ apiCsl' = Submitted(csl) \/ apiCsl' = NoConsole
            \/ apiCsl' = [apiCsl EXCEPT !.deleting = TRUE]
         /\ cacheCsl' \in {cacheCsl, apiCsl}
         /\ \/ csl' = csl \/ csl' = Submitted(csl) \/ csl' = NoConsole
            \/ csl' = [cacheCsl EXCEPT !.owned = TRUE]
            \/ UpdateStatus
<1>1. CASE UNCHANGED <<apiCsl, cacheCsl, csl>>
  BY <1>1
<1>2. CASE Reconcile \/ Fail
  <2>1. cacheCsl' = cacheCsl
    BY <1>2, ReconcileKeeps
  <2>2. CASE Start \/ Fail
    BY <2>1, <2>2 DEF Start, Fail, ReturnError, Return, api
  <2>3. CASE SetConsoleOwner \/ PutStatus \/ AbortUpdateConsole
    BY <2>1, <2>3 DEF SetConsoleOwner, PutStatus, AbortUpdateConsole, PutConsole,
       PutConsoleFails, PutCsl, Return, ReturnError, ReturnDone
  <2>4. CASE CreateAuthorisation \/ CreateAuthoriserAccess \/ GetConsoleAuthorisation
             \/ GetJob \/ CreateJob \/ ListPods
    BY <2>1, <2>4 DEF CreateAuthorisation, CreateAuthoriserAccess,
       GetConsoleAuthorisation, GetJob, CreateJob, ListPods, Return, ReturnError, api
  <2>5. CASE AbortDeleteJob \/ AbortDeletePods \/ UserRole \/ UserBinding \/ Collect
    BY <2>1, <2>5 DEF AbortDeleteJob, AbortDeletePods, UserRole, UserBinding, Collect,
       PutCsl, Return, ReturnError, ReturnDone, ReturnAfter
  <2>6. CASE UpdateStatus
    BY <2>1, <2>6 DEF UpdateStatus, api
  <2> QED BY <1>2, <2>2, <2>3, <2>4, <2>5, <2>6 DEF Reconcile, Continue
<1>3. CASE Informers
  BY <1>3, InformersKeep DEF Informers, SyncConsole, SyncAuthorisation, SyncJob, SyncPods,
     Requeue, BeforeTTLElapses, AfterTTLElapses, api, caches, cslCache, reconciler
<1>4. CASE Cluster
  <2>1. ASSUME NEW p \in Pods, PodStep(p) PROVE apiCsl' = apiCsl
    BY <2>1 DEF PodStep, CreatePod, StartPod, FinishPod, EvictPod, RemovePod, MovePod
  <2>2. \/ apiCsl' = apiCsl \/ apiCsl' = NoConsole
        \/ apiCsl' = [apiCsl EXCEPT !.deleting = TRUE]
    BY <1>4, <2>1 DEF Cluster, Authorise, FinishJob, JobDeadline, DeleteJob, DeleteConsole,
       DeleteConsoleForeground, EditTemplate, CollectJob, CollectAuthorisation,
       CollectAccess, RemoveConsole, PutCsl
  <2> QED BY <1>4, <2>2, ClusterKeeps DEF reconciler
<1>5. CASE UNCHANGED vars
  BY <1>1, <1>5 DEF vars, api, caches, cslCache
<1> QED BY NextSplits, <1>2, <1>3, <1>4, <1>5

\* A job is lost only to a console past its gate: getJob leads to the status with
\* no job only if it was not asked for, and createOrUpdate always returns one.
LEMMA LossSeenStep ==
  ASSUME TypeOK, LossSeen, [Next]_vars
  PROVE  LossSeen'
<1> USE DEF LossSeen
<1>1. CASE UNCHANGED reconciler
  BY <1>1 DEF reconciler, context, isConsoleAuthorised, PendingJob
<1>2. CASE pc' \notin {"listPods", "status"}
  BY <1>2
<1>3. CASE GetJob
  BY <1>3 DEF GetJob, GoTo, isConsoleAuthorised, PendingJob
<1>4. CASE CreateJob
  BY <1>4 DEF CreateJob, GoTo, ReturnError, Return
<1>5. CASE ListPods
  BY <1>5 DEF ListPods, GoTo
<1>6. CASE Start \/ SetConsoleOwner \/ CreateAuthorisation \/ CreateAuthoriserAccess
           \/ GetConsoleAuthorisation
  BY <1>2, <1>6 DEF Start, SetConsoleOwner, CreateAuthorisation, CreateAuthoriserAccess,
     GetConsoleAuthorisation, GoTo, ReturnError, Return
<1>7. CASE AbortDeleteJob \/ AbortDeletePods \/ AbortUpdateConsole \/ UpdateStatus
           \/ PutStatus \/ UserRole
  BY <1>2, <1>7 DEF AbortDeleteJob, AbortDeletePods, AbortUpdateConsole, UpdateStatus,
     PutStatus, UserRole, GoTo, ReturnError, ReturnDone, Return
<1>8. CASE UserBinding \/ Collect \/ Fail
  BY <1>2, <1>8 DEF UserBinding, Collect, Fail, ReturnError, ReturnDone, ReturnAfter,
     Return
<1>9. CASE Informers \/ Cluster \/ UNCHANGED vars
  BY <1>1, <1>9, InformersKeep, ClusterKeeps DEF vars, reconciler
<1> QED BY NextSplits, <1>3, <1>4, <1>5, <1>6, <1>7, <1>8, <1>9 DEF Reconcile, Continue

LEMMA TimedStep ==
  ASSUME TypeOK, TypeOK', TimedInv, [Next]_vars
  PROVE  TimedInv'
<1>0. /\ apiCsl \in Console /\ cacheCsl \in Console /\ csl \in Console
      /\ Timed(apiCsl) /\ Timed(cacheCsl) /\ Timed(csl) /\ LossSeen
  BY DEF TypeOK, ApiType, CacheType, ReconcileType, TimedInv
<1>1. Timed(Submitted(csl)) /\ Timed(NoConsole)
  BY <1>0, SubmittedTimed, FixedTimed
<1>2. Timed(apiCsl')
  <2>1. Timed([apiCsl EXCEPT !.deleting = TRUE])
    BY <1>0 DEF Timed, PendingJob, Console
  <2> QED BY <1>0, <1>1, <2>1, ConsoleSources
<1>3. Timed(cacheCsl')
  BY <1>0, ConsoleSources
<1>4. Timed(csl')
  <2>1. Timed([cacheCsl EXCEPT !.owned = TRUE])
    BY <1>0 DEF Timed, PendingJob, Console
  <2>2. CASE UpdateStatus
    <3>1. isConsoleAuthorised(authRule, authorisation) \in BOOLEAN
      BY DEF isConsoleAuthorised
    <3>2. isConsoleAuthorised(authRule, authorisation) /\ job = "none" => ~PendingJob(csl)
      BY <1>0, <2>2 DEF LossSeen, UpdateStatus
    <3>3. job \in JobState
      BY DEF TypeOK, ReconcileType
    <3>4. csl' = calculateStatus(csl, isConsoleAuthorised(authRule, authorisation), job,
                                 podList)
      BY <2>2 DEF UpdateStatus
    <3> QED BY <1>0, <3>1, <3>2, <3>3, <3>4, StatusTimed
  <2> QED BY <1>0, <1>1, <2>1, <2>2, ConsoleSources
<1>5. LossSeen'
  BY <1>0, LossSeenStep
<1>6. Timed(apiCsl)' /\ Timed(cacheCsl)' /\ Timed(csl)'
  BY <1>2, <1>3, <1>4 DEF Timed, PendingJob
<1> QED BY <1>5, <1>6 DEF TimedInv

\* GetGCTime never dereferences a missing ExpiryTime.
THEOREM FinishedIsTimed == Spec => []GCTimeRecorded
<1>1. Init => TypeOK /\ TimedInv
  BY InitTypeOK, TimedInit
<1>2. TypeOK /\ TimedInv /\ [Next]_vars => (TypeOK /\ TimedInv)'
  BY TypeStep, TimedStep
<1>3. TimedInv => GCTimeRecorded
  BY DEF TimedInv, Timed, GCTimeRecorded, HasGCTime, PostRunning, PendingJob
<1> QED BY <1>1, <1>2, <1>3, PTL DEF Spec
-----------------------------------------------------------------------------
(* Authorised access *)

\* A pod that was ever listed has existed.
PodsSeen == \A p \in Pods :
  cachePods[p] # "unused" \/ podList[p] # "unused" => apiPods[p] # "unused"

PodExists(p) == p # NoPod /\ apiPods[p] # "unused"

Granting == {"userRole", "userBinding"}

\* Access is granted for a status computed as Running from a listed pod.
RunningSeen ==
  /\ pc \in Granting => csl.phase = "Running"
  /\ ~Orphaned /\ pc \in Granting \cup {"updateStatus"} /\ csl.phase = "Running"
     => Enough /\ PodExists(csl.podName)

RoleSeen ==
  ~Orphaned => /\ role # NoPod => PodExists(role)
               /\ pc = "userBinding" => role = csl.podName

AccessInv == PodsSeen /\ RunningSeen /\ RoleSeen /\ AuthorisedAccess
LEMMA AccessInit == Init => AccessInv
BY DEF Init, AccessInv, PodsSeen, RunningSeen, RoleSeen, AuthorisedAccess, NoPods, Granting

\* A pod that has existed is never unused again.
LEMMA PodsLast ==
  ASSUME TypeOK, [Next]_vars, NEW p \in Pods, apiPods[p] # "unused"
  PROVE  apiPods'[p] # "unused"
<1>0. apiPods \in [Pods -> PodState]
  BY DEF TypeOK, ApiType
<1>1. CASE UNCHANGED apiPods
  BY <1>1
<1>2. ASSUME NEW pods, RemovePods(pods) PROVE apiPods'[p] # "unused"
  BY <1>0, <1>2 DEF RemovePods, Removed
<1>3. CASE Reconcile \/ Fail
  BY <1>1, <1>2, <1>3 DEF Reconcile, Continue, Start, SetConsoleOwner, CreateAuthorisation,
     CreateAuthoriserAccess, GetConsoleAuthorisation, GetJob, CreateJob, ListPods,
     AbortDeleteJob, AbortDeletePods, AbortUpdateConsole, UpdateStatus, PutStatus,
     UserRole, UserBinding, Collect, Fail, api
<1>4. CASE Informers
  BY <1>1, <1>4, InformersKeep DEF api
<1>5. ASSUME NEW q \in Pods, PodStep(q) PROVE apiPods'[p] # "unused"
  BY <1>0, <1>5 DEF PodStep, CreatePod, StartPod, FinishPod, EvictPod, RemovePod, MovePod
<1>6. CASE Cluster
  BY <1>1, <1>2, <1>5, <1>6 DEF Cluster, Authorise, FinishJob, JobDeadline, DeleteJob,
     DeleteConsole, DeleteConsoleForeground, EditTemplate, CollectJob,
     CollectAuthorisation, CollectAccess, RemoveConsole
<1>7. CASE UNCHANGED vars
  BY <1>1, <1>7 DEF vars, api
<1> QED BY NextSplits, <1>3, <1>4, <1>6, <1>7

\* Pods are read from the API by the cache and from the cache by the reconciliation.
LEMMA PodSources ==
  ASSUME [Next]_vars
  PROVE  cachePods' \in {cachePods, apiPods} /\ podList' \in {podList, cachePods, NoPods}
<1>1. CASE Reconcile \/ Fail
  <2>1. cachePods' = cachePods
    BY <1>1, ReconcileKeeps
  <2>2. podList' \in {podList, cachePods, NoPods}
    BY <1>1 DEF Reconcile, Continue, Start, SetConsoleOwner, CreateAuthorisation,
       CreateAuthoriserAccess, GetConsoleAuthorisation, GetJob, CreateJob, ListPods,
       AbortDeleteJob, AbortDeletePods, AbortUpdateConsole, UpdateStatus, PutStatus,
       UserRole, UserBinding, Collect, Fail, context, Return, ReturnError, ReturnDone,
       ReturnAfter
  <2> QED BY <2>1, <2>2
<1>2. CASE Informers
  BY <1>2, InformersKeep DEF Informers, SyncConsole, SyncAuthorisation, SyncJob, SyncPods,
     Requeue, BeforeTTLElapses, AfterTTLElapses, caches, reconciler, context
<1>3. CASE Cluster \/ UNCHANGED vars
  BY <1>3, ClusterKeeps DEF reconciler, context, vars, caches
<1> QED BY NextSplits, <1>1, <1>2, <1>3

LEMMA PodsSeenStep ==
  ASSUME TypeOK, PodsSeen, [Next]_vars
  PROVE  PodsSeen'
<1>1. SUFFICES ASSUME NEW p \in Pods, cachePods'[p] # "unused" \/ podList'[p] # "unused"
               PROVE  apiPods'[p] # "unused"
  BY DEF PodsSeen
<1>2. NoPods[p] = "unused"
  BY DEF NoPods
<1>3. apiPods[p] # "unused"
  BY <1>1, <1>2, PodSources DEF PodsSeen
<1> QED BY <1>3, PodsLast

\* A step of the reconciliation that leads to, or stays at, granting access keeps the
\* console it holds but for the status it computes; the role is written in between.
LEMMA GrantSources ==
  ASSUME TypeOK, [Next]_vars, pc' \in Granting \cup {"updateStatus"}
  PROVE  \/ UpdateStatus
         \/ /\ pc \in Granting \cup {"updateStatus"}
            /\ csl' \in {csl, Submitted(csl)}
            /\ pc' \in Granting /\ pc \notin Granting => csl.phase = "Running"
            /\ pc' = "userBinding" /\ pc # "userBinding" => role' = csl.podName /\ csl' = csl
<1> USE DEF Granting
<1>1. CASE UNCHANGED reconciler
  BY <1>1 DEF reconciler
<1>2. CASE Reconcile \/ Fail
  <2>1. CASE PutStatus
    BY <2>1 DEF PutStatus, GoTo, ReturnError, Return
  <2>2. CASE UserRole
    BY <2>2 DEF UserRole, GoTo
  <2>3. CASE Start \/ SetConsoleOwner \/ CreateAuthorisation \/ CreateAuthoriserAccess
             \/ GetConsoleAuthorisation
    BY <2>3 DEF Start, SetConsoleOwner, CreateAuthorisation, CreateAuthoriserAccess,
       GetConsoleAuthorisation, GoTo, ReturnError, Return
  <2>4. CASE GetJob \/ CreateJob \/ ListPods
    BY <2>4 DEF GetJob, CreateJob, ListPods, GoTo, ReturnError, Return
  <2>5. CASE AbortDeleteJob \/ AbortDeletePods \/ AbortUpdateConsole
    BY <2>5 DEF AbortDeleteJob, AbortDeletePods, AbortUpdateConsole, GoTo, ReturnError,
       ReturnDone, Return
  <2>6. CASE UserBinding \/ Collect \/ Fail
    BY <2>6 DEF UserBinding, Collect, Fail, ReturnError, ReturnDone, ReturnAfter, Return
  <2> QED BY <1>2, <2>1, <2>2, <2>3, <2>4, <2>5, <2>6 DEF Reconcile, Continue
<1>3. CASE Informers \/ Cluster \/ UNCHANGED vars
  BY <1>1, <1>3, InformersKeep, ClusterKeeps DEF vars, reconciler
<1> QED BY NextSplits, <1>2, <1>3

LEMMA SubmittedKeeps ==
  ASSUME NEW c \in Console
  PROVE  Submitted(c).phase = c.phase /\ Submitted(c).podName = c.podName
BY DEF Submitted, consoleDiff, Console

\* The status is Running only for an authorised console with a listed pod.
LEMMA StatusRunning ==
  ASSUME TypeOK, PodsSeen, NEW c \in Console, NEW b \in BOOLEAN, NEW j \in JobState,
         calculateStatus(c, b, j, podList).phase = "Running"
  PROVE  b /\ j # "none" /\ PodExists(calculateStatus(c, b, j, podList).podName)
<1> DEFINE new == calculateStatus(c, b, j, podList)
<1>1. calculatePhase(b, j, podList) = "Running"
  BY DEF calculateStatus, Console
<1>2. /\ b /\ j # "none"
      /\ \E p \in Pods : p \in ListedPods(podList)
  BY <1>1 DEF calculatePhase, ListedPods
<1>3. PICK p \in Pods : p \in ListedPods(podList) /\ new.podName = p
  <2>1. new.podName = CHOOSE p \in Pods : p \in ListedPods(podList)
    BY <1>2 DEF calculateStatus, Console
  <2> QED BY <1>2, <2>1
<1>4. podList[p] # "unused"
  BY <1>3 DEF ListedPods, Listed
<1>5. new.podName # NoPod /\ apiPods[new.podName] # "unused"
  BY <1>3, <1>4, PodsAssumption DEF PodsSeen
<1> QED BY <1>2, <1>5 DEF PodExists

LEMMA RunningSeenStep ==
  ASSUME TypeOK, TypeOK', AuthorisedInv, PodsSeen, RunningSeen, [Next]_vars
  PROVE  RunningSeen'
<1>0. csl \in Console /\ csl' \in Console
  BY DEF TypeOK, ReconcileType
<1>1. ASSUME pc' \in Granting PROVE csl'.phase = "Running"
  <2>1. CASE UpdateStatus
    BY <1>1, <2>1 DEF UpdateStatus, GoTo, Granting
  <2> QED BY <1>0, <1>1, <2>1, GrantSources, SubmittedKeeps DEF RunningSeen
<1>2. ASSUME ~Orphaned', pc' \in Granting \cup {"updateStatus"}, csl'.phase = "Running"
      PROVE  Enough' /\ PodExists(csl.podName)'
  <2>1. ~Orphaned /\ apiAuth <= apiAuth'
    BY <1>2, Lasting DEF AuthorisedInv
  <2>2. csl'.podName \in Pods \cup {NoPod}
    BY <1>0 DEF Console
  <2>3. CASE UpdateStatus
    <3> DEFINE authorised == isConsoleAuthorised(authRule, authorisation)
    <3>1. authorised \in BOOLEAN /\ job \in JobState
      BY DEF isConsoleAuthorised, TypeOK, ReconcileType
    <3>2. csl' = calculateStatus(csl, authorised, job, podList) /\ UNCHANGED api
      BY <2>3 DEF UpdateStatus
    <3>3. job # "none" /\ PodExists(csl'.podName)
      BY <1>0, <1>2, <3>1, <3>2, StatusRunning
    <3>4. Enough'
      BY <2>1, <3>3, EnoughLasts DEF AuthorisedInv, JobSeenAuthorised
    <3> QED BY <2>2, <3>3, <3>4, PodsLast DEF PodExists
  <2>4. CASE ~UpdateStatus
    <3>1. /\ pc \in Granting \cup {"updateStatus"}
          /\ csl.phase = "Running" /\ csl'.podName = csl.podName
      BY <1>0, <1>2, <2>4, GrantSources, SubmittedKeeps
    <3>2. Enough /\ PodExists(csl.podName)
      BY <2>1, <3>1 DEF RunningSeen
    <3> QED BY <2>1, <2>2, <3>1, <3>2, EnoughLasts, PodsLast DEF PodExists
  <2> QED BY <2>3, <2>4
<1> QED BY <1>1, <1>2 DEF RunningSeen, Granting

\* The role and the binding are written by one step each, and dropped together.
LEMMA AccessSources ==
  ASSUME [Next]_vars, ~Orphaned
  PROVE  /\ role' = role \/ UserRole
         /\ binding' = binding \/ UserBinding
<1>1. CASE Reconcile \/ Fail
  BY <1>1 DEF Reconcile, Continue, Start, SetConsoleOwner, CreateAuthorisation,
     CreateAuthoriserAccess, GetConsoleAuthorisation, GetJob, CreateJob, ListPods,
     AbortDeleteJob, AbortDeletePods, AbortUpdateConsole, UpdateStatus, PutStatus,
     UserRole, UserBinding, Collect, Fail, api, access
<1>2. CASE Informers
  BY <1>2, InformersKeep DEF api, access
<1>3. ASSUME NEW p \in Pods, PodStep(p) PROVE UNCHANGED <<role, binding>>
  BY <1>3 DEF PodStep, CreatePod, StartPod, FinishPod, EvictPod, RemovePod, MovePod, access
<1>4. CASE Cluster
  BY <1>3, <1>4 DEF Cluster, Authorise, FinishJob, JobDeadline, DeleteJob, DeleteConsole,
     DeleteConsoleForeground, EditTemplate, CollectJob, CollectAuthorisation,
     CollectAccess, RemoveConsole, access
<1>5. CASE UNCHANGED vars
  BY <1>5 DEF vars, api, access
<1> QED BY NextSplits, <1>1, <1>2, <1>4, <1>5

LEMMA RoleSeenStep ==
  ASSUME TypeOK, TypeOK', AuthorisedInv, RunningSeen, RoleSeen, [Next]_vars
  PROVE  RoleSeen'
<1>0. SUFFICES ASSUME ~Orphaned'
               PROVE  /\ role' # NoPod => PodExists(role)'
                      /\ pc' = "userBinding" => role' = csl'.podName
  BY DEF RoleSeen
<1>1. ~Orphaned /\ role \in Pods \cup {NoPod} /\ csl \in Console
  BY <1>0, Lasting DEF AuthorisedInv, TypeOK, ApiType, ReconcileType
<1>2. role' # NoPod => PodExists(role)'
  <2>1. CASE role' = role
    BY <1>1, <2>1, PodsLast DEF RoleSeen, PodExists
  <2>2. CASE UserRole
    <3>1. PodExists(csl.podName) /\ role' = csl.podName /\ UNCHANGED apiPods
      BY <1>1, <2>2 DEF UserRole, RunningSeen, Granting
    <3> QED BY <3>1 DEF PodExists
  <2> QED BY <1>1, <2>1, <2>2, AccessSources
<1>3. ASSUME pc' = "userBinding" PROVE role' = csl'.podName
  <2>1. CASE UpdateStatus
    BY <1>3, <2>1 DEF UpdateStatus, GoTo
  <2>2. CASE UserRole
    BY <2>2 DEF UserRole, GoTo
  <2>3. CASE ~UpdateStatus /\ ~UserRole
    <3>1. pc # "userBinding" => role' = csl.podName /\ csl' = csl
      BY <1>3, <2>3, GrantSources DEF Granting
    <3>2. csl' \in {csl, Submitted(csl)}
      BY <1>3, <2>3, GrantSources DEF Granting
    <3> QED BY <1>1, <2>3, <3>1, <3>2, AccessSources, SubmittedKeeps DEF RoleSeen
  <2> QED BY <2>1, <2>2, <2>3
<1> QED BY <1>2, <1>3

LEMMA AuthorisedAccessStep ==
  ASSUME TypeOK, TypeOK', AuthorisedInv, RunningSeen, RoleSeen, AuthorisedAccess,
         [Next]_vars
  PROVE  AuthorisedAccess'
<1>0. SUFFICES ASSUME ~Orphaned', binding' # NoBinding
               PROVE  /\ Enough'
                      /\ binding' > 0 => binding' <= apiAuth'
                      /\ role' # NoPod /\ apiPods'[role'] # "unused"
  BY DEF AuthorisedAccess, Enough
<1>1. /\ ~Orphaned /\ apiAuth <= apiAuth'
      /\ apiAuth \in Int /\ apiAuth' \in Int /\ binding \in Int
      /\ role \in Pods \cup {NoPod} /\ csl \in Console /\ authorisation \in Int
  BY <1>0, Lasting
  DEF AuthorisedInv, TypeOK, ApiType, ReconcileType, NoAuthorisation, NoBinding
<1>2. CASE UserBinding
  <2>1. Enough /\ role # NoPod /\ apiPods[role] # "unused"
    BY <1>1, <1>2 DEF UserBinding, RunningSeen, RoleSeen, Granting, PodExists
  <2>2. UNCHANGED <<apiAuth, role, apiPods>>
    BY <1>2 DEF UserBinding
  <2>3. binding' > 0 => binding' <= apiAuth
    BY <1>1, <1>2 DEF UserBinding, AuthorisedInv, CopiesBehind, NoAuthorisation
  <2> QED BY <1>1, <2>1, <2>2, <2>3, EnoughLasts
<1>3. CASE binding' = binding
  <2>1. /\ Enough
        /\ binding > 0 => binding <= apiAuth
        /\ role # NoPod /\ apiPods[role] # "unused"
    BY <1>0, <1>1, <1>3 DEF AuthorisedAccess, Enough
  <2>2. Enough' /\ (binding' > 0 => binding' <= apiAuth')
    BY <1>1, <1>3, <2>1, EnoughLasts
  <2>3. CASE role' = role
    BY <1>1, <2>1, <2>2, <2>3, PodsLast
  <2>4. CASE UserRole
    <3>1. PodExists(csl.podName) /\ role' = csl.podName /\ UNCHANGED apiPods
      BY <1>1, <2>4 DEF UserRole, RunningSeen, Granting
    <3> QED BY <2>2, <3>1 DEF PodExists
  <2> QED BY <1>1, <2>3, <2>4, AccessSources
<1> QED BY <1>1, <1>2, <1>3, AccessSources

\* Access is granted only for an authorised console, to a pod that has existed and
\* to no more authorisers than have authorised.
THEOREM AccessIsAuthorised == Spec => []AuthorisedAccess
<1>1. Init => TypeOK /\ AuthorisedInv /\ AccessInv
  BY InitTypeOK, AuthorisedInit, AccessInit
<1>2. TypeOK /\ AuthorisedInv /\ AccessInv /\ [Next]_vars
        => (TypeOK /\ AuthorisedInv /\ AccessInv)'
  BY TypeStep, AuthorisedStep, PodsSeenStep, RunningSeenStep, RoleSeenStep,
     AuthorisedAccessStep DEF AccessInv
<1>3. AccessInv => AuthorisedAccess
  BY DEF AccessInv
<1> QED BY <1>1, <1>2, <1>3, PTL DEF Spec
=============================================================================
