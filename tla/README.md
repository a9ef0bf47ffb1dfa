# Theatre in TLA+

Models, model-checking runs and machine-checked proofs for theatre: the
Kubernetes controllers, webhooks and commands that give engineers time-limited,
authorised and audited consoles, bind roles to the groups of a directory, and
start applications with their secrets. Paths are relative to the repository;
`console_controller.go` is `internal/controller/workloads/console_controller.go`,
`helpers.go` is `api/workloads/v1alpha1/helpers.go`, `runner.go` is
`pkg/workloads/console/runner/runner.go`.

1. [Inventory](#inventory) - 2. [Modules](#modules) - 3. [Runs](#runs) -
4. [Bounds](#bounds) - 5. [Fairness](#fairness) - 6. [Proofs](#proofs) -
7. [What the code does otherwise](#what-the-code-does-otherwise-than-its-texts-say) -
8. [Not modelled](#what-is-not-modelled) - 9. [Plan](#plan)

## Inventory

| component | state | operations | what is hard |
| --- | --- | --- | --- |
| Console controller (`console_controller.go`, `helpers.go`, `recutil/reconcile.go`) | none of its own: the Console with its status, ConsoleAuthorisation, Job, pods, roles and bindings in the API, and informer caches of them | `Reconcile`: owner, authorisation objects, job, abort of a second pod, status, access, garbage collection | every read is of a cache of another age; every write may conflict or fail; the manager restarts; pods are not watched; the queue decides whether anything happens again |
| Console deadlines (`console_controller.go`, `helpers.go`) | the timeout and TTLs in a console's spec, expiry and completion in its status, the job's deadline | defaults and limits from the template, `GetGCTime`, requeue intervals | which of three sources a duration is from, and from which moment it counts; templates are edited and not watched; delays add up |
| Lifecycle events (`lifecycle_recorder.go`, `console/events`) | none; events go to a publisher | request, authorise, start, attach, terminate | recorded before or after the state they tell of is stored |
| Console authorisation (`console_authorisation_webhook.go`, `pkg/rbac`) | the append-only list of a ConsoleAuthorisation | validation of each update, the authorise event | updates race; the webhook sees an object that may be another by the time it is stored |
| Authorisation rules (`helpers.go`, template webhook) | the template's rules | find the rule of a command, validate a template | the loop's wildcards, lengths and indices; two callers with different commands |
| DirectoryRoleBinding controller (`internal/controller/rbac`) | RoleBindings; the in-memory cache of group members | resolve groups, list pages, write subjects, come back later | members change between pages; the cache, the refresh timer and other writers; deletion and recreation |
| Console runner and `theatre-consoles` | a user's call | create, authorise, attach, each with its waits | watches that start late and skip versions; a pod that ends while it is waited for |
| Secrets injector and `theatre-secrets` | the pod, the installation volume, the files of secrets | wrap containers, install the binary, resolve and exec | secrets rotate during a start, processes are killed half way, installations run again |
| Attach observer, authenticator (`console_attach_webhook.go`, `console_authenticator_webhook.go`) | none | record attaches; set the console's user | the observer looks up the pod and the console through a cache, and the API server goes on without its answer |
| Managers, logging, API types | process set-up | - | - |

How they meet:

* A user calls the **runner**, which creates a Console; the *authenticator* puts
  the user's name on it. The **console controller** asks **authorisation rules**
  for the rule of its command and waits until the **authorisation** has enough
  names, which authorisers add with the runner; the webhook validates each.
* The controller creates the job, follows its pod in the console's status, and
  writes a DirectoryRoleBinding for the user and the authorisers. The
  **DirectoryRoleBinding controller** makes a RoleBinding of it, which is what the
  runner waits for before it attaches to the pod. The *attach observer* records it.
* The **secrets injector** stands apart: it is a webhook on annotated pods.
* All state is shared through the Kubernetes API. There are no calls between the
  controllers; they trigger each other by watches, and by nothing where no watch
  is set (pods; the creation of an authorisation).

What makes each component correct:

* *Console controller*: no job and no access without the authorisations that the
  template asks for, to a pod that the job has had, and to nobody who is not the user or
  an authoriser; access once given is not taken back by an older copy; a session is only
  aborted for a second pod; the stored phase is never ahead of the start and terminate
  events; a finished console has a time to be collected from; every console is collected
  in the end.
* *Authorisation*: nobody authorises their own console; every name was added by
  its bearer and has an event, unless publishing it failed; a confirmed authorisation is
  never lost.
* *Rules*: the first matching rule is found, for any pattern the API admits, and
  without an index out of range.
* *Deadlines*: no deadline cuts a session off before the timeout that its console has by
  then; no console is collected early, but for sessions that failed, nor outlives the sum
  of its times; the shown expiry is the session's deadline or up to a delay before it.
* *Directory*: nobody has a role that no version of the binding gave them; changes
  take effect within a bounded time and, when changes end, exactly.
* *Runner*: the owner who has waited is let in; no failure is reported as success;
  no session begins whose attachment the observer was not asked about; waits end.
* *Secrets*: an application that asks for secrets only ever runs with its own,
  current and consistent ones, and comes back to that after every failure.

## Modules

```
ConsoleLifecycle  <--implements--  ConsoleController   (ConsoleRefinement)
      ^ EXTENDS                          ^ MCConsole, ConsoleControllerProofs,
      |                                    ConsoleRefinementProofs
ConsoleRunner         (MCRunner, ConsoleRunnerProofs)
ConsoleDeadlines      (MCDeadlines, ConsoleDeadlinesProofs)
ConsoleAuthorisation  (MCAuthorisation, ConsoleAuthorisationProofs)
CommandRules          (MCRules, CommandRulesProofs)
DirectoryRoleBinding  (MCDirectory, DirectoryRoleBindingProofs)
SecretsInjection      (MCSecrets, SecretsInjectionProofs)
```

The `MC` modules only give constants their values. An operator whose comment says
`mutant` is an altered form of the definition under it; no specification uses it.

### ConsoleController

One console. `Reconcile` is cut at every API call, and `pc` names the next call;
`csl`, `authorisation`, `job` and `podList` are the local variables of the source.
`apiX` is what the API server holds and `cacheX` what the informer has of it: all
reads but none of the writes go to the cache (the manager's client). One console is
never reconciled twice at a time, since the work queue gives a key to one worker.

| code | model |
| --- | --- |
| `ResolveAndReconcile`, template and rule (`:197-262`) | `Start` |
| first `createOrUpdate` of the console (`:264-274`) | `SetConsoleOwner` (`PutConsole`: the console is fetched again, the caller's owner and status are put on it and submitted under the fetched resourceVersion) |
| `createAuthorisationObjects`, `getConsoleAuthorisation` | `CreateAuthorisation`, `CreateAuthoriserAccess`, `GetConsoleAuthorisation` |
| request event, `getJob`, decision to create (`:276-290`) | `GetJob` |
| job, pods, abort (`:291-333`, `:662-697`) | `CreateJob`, `ListPods`, `AbortDeleteJob`, `AbortDeletePods`, `AbortUpdateConsole` |
| `generateStatusAndAuditEvents`, second write (`:335-352`) | `UpdateStatus`, `PutStatus` |
| `createOrUpdateUserRbac` (`:355-390`) | `UserRole`, `UserBinding` |
| garbage collection and requeues (`:391-401`) | `Collect` |
| errors, restarts | `Fail` |

The Job controller, kubelets, garbage collector and administrators are external
actions. A list of authorisations is its length (it is append-only, see
`ConsoleAuthorisation`), a TTL is whether it has elapsed, a time is whether it is set.
The status is not a subresource here, so an update of the console writes it.

`Resync` chooses how much of the scheduling is explicit. With it a reconciliation may
start at any time: the safety runs need not rely on the queue. Without it the queue, the
watches' triggers and the delayed requeues are explicit, as liveness needs. The code never
waits for its cache: it says itself that the copy may be from before its last update
(`recutil/reconcile.go:69-73`), and `Spec` starts a reconciliation from any copy. Only
`FreshSpec` and `FairSpec` add `FreshStart`, that a reconciliation starts once the
informer has caught up (see [Fairness](#fairness)); no proof uses it.

`ConsoleLifecycle` is the abstract specification: phases, approvals and the pod the
user has access to, with no caches, conflicts or retries. Its steps are `Approve`,
`AwaitApproval`, `Launch`, `GrantAccess` and `Delete`: whatever passes the gate is
authorised as the list stands, the list only grows, and nothing comes back of a deleted
console. It does not promise that a console only goes forward, since the controller does
not: an edit of the template has a console wait again while its job runs on, and an old
copy's status is written over a newer one. `ConsoleRefinement` maps the controller to it: a
deleting or deleted console is `Deleted`, and `role`, once it is bound, is the pod.

### ConsoleDeadlines

The same console on a clock in seconds, with one step for a whole reconciliation, which
may be cut short after each of its writes (`CutShort`); what happens between its calls is
`ConsoleController`'s.

| code | model |
| --- | --- |
| `setConsoleTTLs` (`:444-466`), `setConsoleTimeout` (`:512-540`) | the operators of those names: request, template, default; limits |
| job deadline, `calculateStatus`, expiry and completion | `NewJob`, `jobDiff`, `calculateStatus` |
| `GetGCTime`, `EligibleForGC` (`helpers.go`) | the operators of those names |
| requeues (`:355-389`), `requeueAfterInterval` (`:725`) | `RequeueAfter`, `RequeueInterval`, `Requeue` |

Nobody is punctual: the queue and the Job controller act within `Lag`, which `Tick`
enforces by not passing them. `request`, `first`, `ended` and `cut` are histories:
what the user asked for, the template that completed it, when the session ended, and
by how much the timeout was cut after the job was made.

### ConsoleRunner

`Create`, `Authorise` and `Attach` call by call, on top of `ConsoleLifecycle`: the
console moves as the controller promises, and the module adds the versions a watch
delivers (`log`; a list may be from any earlier version, a watch may skip), the pod
and the RoleBinding, which is absent, empty, names its subjects and is collected, in turn.
Creating passes the authenticator (`Authenticate`: the console becomes the caller's), and
attaching passes the API server's check of the RoleBinding (`AttachRefused`,
`AttachAdmitted`), then the attach observer (`ObserveAttach`, which may deny, record, fail
to publish or not answer) and only then the pod (`AttachToPod`). The pod is always a
console's, with its label, and no attachment is a dry run: the observer lets others pass
without a look (`console_attach_webhook.go:80-82`). Gets and lists without a
watch are live: the runner's client has no cache.

### ConsoleAuthorisation

The stored list, and for each user a request: sent (append, merge patch or a whole
list), validated by the webhook against the object just read, and stored only if that
is still the stored one; otherwise a patch is applied anew and a put conflicts.
`Validate` is the webhook's three checks. The webhook's event comes before the storing; that
it cannot be published is only logged and the update admitted all the same, which `missed`
remembers.

### CommandRules

The loop of `GetAuthorisationRuleForCommand`, one step per turn, with the panic of each
index, behind its two callers: the controller, which fails where there is neither a command
nor a container to take one from (`HasCommand`), and the runner; `Matches` is the comment's
definition of a match, as a recursive function over the command's positions, and `MCRules`
checks the comment's own table against it.

### DirectoryRoleBinding

The worker's calls (binding, RoleBinding, cache, each page of the directory, create, update;
a listing or a write may fail, and a write also after it was done: `ListError`,
`WriteError`), the cache with its ages, the delaying queue and the clock. There is one
worker (`MaxConcurrentReconciles` is 1 by default), which is also why the cache's plain map
is safe. Time is kept as saturating ages. With `Prompt`, time only passes while the system
waits for a timer or for the directory. `settled`, `everIn`, `everSpec` and `others` are
histories. `settled` starts again for a user when a group of the binding gains or loses them
(`Regrouped`), even if another group of it still has, or has got, them: a user who moves
from one group to another may be missed by listings made before and after the move, and TLC
found one.

### SecretsInjection

One pod: the webhook's answer, the init container's `copyExecutable` step by step, and
in every wrapped container `exec`: login, config, keys one at a time in any order,
files one at a time (opened, which empties them, and then written), exec. A secret's
value is its version. The kubelet starts what has exited and recreates lost sandboxes.

## Runs

| run | checks | question |
| --- | --- | --- |
| `console_stale` | `TypeOK` `GCTimeRecorded` `AuthorisedJob` `AuthorisedAccess` `ImplementsLifecycle` | what arbitrarily stale caches can lead to, and the lifecycle that is promised |
| `console_pods` | `AbortsForSecondPod` `EventuallyCollected` | an evicted pod is replaced; abort; and the console still goes |
| `console_events` | `AuditedTransitions` `KeepsAuthorisers` | failures, restarts and an edited template: events and access |
| `console_collected` | `NothingUnnoticed` `EventuallyCollected` | an explicit queue: waiting consoles, jobs deleted under them, deletion at once and in the foreground |
| `console_deadlines` | `TypeOK` `ShownExpiry` `NeverOverstays` `NotCollectedEarly` `SessionGetsItsTime` | every mix of request, template and default, with edits and delays |
| `console_abort` (violation) | `AbortStopsConsole` | abort writes the wrong copy |
| `console_runner` | `TypeOK` `OwnerNotRefused` `TruthfulSuccess` `SessionObserved` `WaitsEnd` | late, skipping watches and ending pods |
| `authorisation_updates` | `TypeOK` `OwnerNeverListed` `RecordedApprovals` `ConfirmedApprovals` | racing updates of one authorisation |
| `rules_order` | `TypeOK` `FirstRuleWins` `ValidTemplatesHaveRules` | every template, command and caller up to the bounds |
| `directory_delay` | `SettledAccess` | how long a change takes to be in effect |
| `directory_converges` | `TypeOK` `OnlyEntitled` `NothingUnnoticed` `Converges` | two bindings share a group; failures, other writers, deletion |
| `secrets_injected` | `TypeOK` `OwnSecrets` `OneVersion` `ApplicationsStart` | rotation, kills and reinstallation |

`console_deleted.cfg` is a further passing configuration, for a job deleted or a
console removed in the foreground while its pod runs (1.6 million states).

What they show beyond "no error": that the authorisation gate holds even when all four
caches have different ages; that abort, though it never stops the console, still does not
let it live for ever; that the promised gate needs no order among the caches, while going
forward only, one pod and one request are not kept (see below); that a session which fails
is kept from its expiry, not from its end, and so loses what its timeout was cut by; that an
attachment can only escape the audit trail when the observer does not answer or cannot
publish; that a change in the directory is in effect after TTL + refresh + two listings, and
one more for each failure, unless a restart begins the count again, and not always before;
that the queue loses nothing, though events come in the middle of a reconciliation, some
writes set off no event and most requeues are conditional: what is left to a timer is in the
state that its last events call for (`NothingUnnoticed`, in `ConsoleController` and in
`DirectoryRoleBinding`); that reading each key once is what makes a start consistent.

## Bounds

* *Consoles*: one. Consoles share nothing but the template. One pod, or two where
  a second one matters: `SubsequentPod` and the recorded name only tell one from more.
  One authorisation required and at most one given: the gate is at its boundary with
  either number, and the list only grows. `ImplementsLifecycle` is checked with
  deleted jobs and every staleness, and proved with evictions, edits and failures too.
  `console_events` has rules of 1 and 2 and two
  authorisations, so that an edit can raise and lower the demand of a console on either
  side of it. At most one failed call, in any place. Events count 0, 1, many.
* *Deadlines*: three templates (a generous one, a strict one, and one whose default is above
  its maximum), timeouts of none, within and beyond every maximum, TTLs set or not, one
  edit, one reconciliation cut short, `Lag` of 1. The bounds in the properties are tight:
  with `3 + MaxErrors` delays in `Longest`, one `Lag` or no `cut` in `NotCollectedEarly`,
  TLC finds a counterexample. The default TTL after a session, 4, is longer than two delays.
  A template whose maximum is 0 is left out (`Closed`): every other reconciliation takes the
  default for the 0 of the one before, and the timeout alternates for ever.
* *Runner*: three versions of the console are enough to skip one and to be old at both
  waits. Rules of 1 and 2, so that a console may have to wait again. Every combination of call
  and flags that makes a difference (14).
* *Authorisation*: two users, each the owner of one of two consoles, two namespaces to
  tell equal names from equal subjects, lists of up to two, all three kinds of update. The
  namespaces are interchangeable, and so are the users with their consoles (`Symmetry`).
* *Rules*: all templates of up to two rules of up to two matchers over two words and both
  wildcards, with and without a container, all commands of up to two words. The proofs lift
  these bounds.
* *Directory*: `directory_delay` has one binding and group, two users on two pages, a
  binding with or without a user of its own, a TTL of 3, a refresh of 2, two changes (of the
  group, the binding or its RoleBinding), one failure, and a `Horizon` of 8, which is tight:
  7 fails. `directory_converges`
  has two bindings that share a group, one user, and a deletion, failure and change each.
* *Secrets*: nine pods that differ in annotation, config file, token and root; two
  keys with two versions, a key in a variable and a file, two failures of any kind. The
  second failure hits the recovery from the first.

`CHECK_DEADLOCK FALSE` is given to `rules_order`, whose loop ends, and to the
runner's, whose call ends.

## Fairness

Safety runs assume none; `console_deadlines` bounds delays by `Lag` instead.
`console_pods` and `console_collected`: the worker, the informers, the clocks, the queue's
timers, and Kubernetes' Job controller, garbage collector and removal of terminated pods.
Nobody has to authorise, a pod need not start or finish by itself (the job has a deadline).
They also assume `FreshStart`: from old copies the controller may move the status between
Creating and Running for ever, each time before its informer has delivered the last write.
The code does not wait for that. What justifies it is that the informer takes milliseconds,
that an error, which is what an old copy's write usually ends in, keeps the key out of the
queue for twice as long each time, and that other requeues come after seconds. It is an
assumption on scheduling, for `EventuallyCollected` only: `console_pods` and
`console_collected` check their safety properties under it since they share the
specification, `console_events` to keep the number of states small, and the proofs of all
three do without.
`console_runner`: only the runner's own steps, none of the cluster's or the user's.
`directory_converges`: the worker, the informers, the queue, the
clock and the garbage collector, each by itself. `secrets_injected`: whoever
submits the pod tries again, the kubelet restarts and processes run; failures are
bounded, and a secret has to stay readable for its application to start. All are weak.

## Proofs

Checked by TLAPS for every value of the constants that satisfies the modules'
`ASSUME`s.

`ConsoleControllerProofs`

* `TypeCorrect`: `Spec => []TypeOK`.
* `JobsAreAuthorised`: `[]AuthorisedJob`. The inductive invariant `AuthorisedInv` adds
  what makes stale copies harmless: the cached authorisation is never longer than the
  stored one while the console is there (`CopiesBehind`), a fresh cache is the
  stored object (`CacheCurrent`), the local rule is one the template has had
  (`RuleFromTemplate`), and a job once seen, in the cache or locally, was authorised
  (`JobSeenAuthorised`), which is what the second read of the job needs.
* `FinishedIsTimed`: `[]GCTimeRecorded`, by `TimedInv`: every copy of the console that
  is past its gate has the expiry of the job it was launched with, and a job is only
  found lost once the console is past its gate (`LossSeen`).
* `AccessIsAuthorised`: `[]AuthorisedAccess`, by `AccessInv`: pods that were seen exist,
  and every copy that says Running, with its pod name, comes from an authorised console.

`ConsoleRefinementProofs`, on top of it, also for any staleness:

* `AuthorisersKeepAccess`: `KeepsAuthorisers`, where every rule asks for something
  (`NoRule \notin Rules`: an edit to a template without rules does take the authorisers
  off the binding). `GrantedBehind`: the binding is never longer than the cached list, nor
  than the list a reconciliation has read.
* `TransitionsAreAudited`: `[]AuditedTransitions`, for any staleness. `AuditedInv`: the
  events told suffice for each copy of the console, stored, cached and in hand.
* `AbortsAreForSecondPods`: `[]AbortsForSecondPod`, by `AbortInv`: every pod that a list
  or a copy of the console names has existed (`PodsSeen`, `PodSeen`), so that one which is
  listed and another that is recorded are two.
* `LifecycleIsImplemented`: `ImplementsLifecycle`, the refinement, with evictions, deleted
  jobs, edits and failures. `LifecycleInv` adds that whoever holds a console past its gate,
  however old, holds one that was authorised (`LaunchedEnough`): what is written of it is a
  `Launch` of an authorised console. One lemma maps each step.
* `NothingGoesUnnoticed`: `[]NothingUnnoticed`, by `NoticedInv`: while
  nothing has come that would queue the console again (`Unhindered`), the list and the job
  that the reconciliation under way has read are the stored ones, and the status it has
  made of them is `CalledFor`. The one delivery that queues nothing is the first of an
  authorisation: before it, a reconciliation that needs one fails and is tried again.

`ConsoleDeadlinesProofs`: `TypeCorrect`; `ExpiryIsShown`, by `Shown` (with nothing left to
reconcile, expiry and deadline are the timeout counted from the job's creation, while the
deadline runs from the job's start, a delay later at most); `CollectedInTime`
(`NotCollectedEarly`), by `SessionsInv` (the TTLs are those of request and first template,
and a session's start, deadline and end are ordered) and `ExpiryInv` (a session ends within
two delays of the expiry and of what the timeout was cut by); `TimeIsGiven`
(`SessionGetsItsTime`), by `GrantInv`: the timeout never grows above the job's deadline,
where no timeout is 0 (`PositiveTimeouts`, false of the templates left out above);
`GoneInTime` (`NeverOverstays`; it and `CollectedInTime` also with `PositiveTimeouts`), by
`OverstayInv`: at every moment the console is queued, or has a timer, or a session whose end
will queue it, within the time still allowed for its phase (`Waiting`), and no expiry,
deadline or end of a session is later than the times before it add up to (`Lasting`). A
failed reconciliation is paid for by the `Lag` that `errors` counts (`Late`).

`ConsoleRunnerProofs`: `TypeCorrect`, `OwnerIsNotRefused`, `SuccessIsTruthful`,
`SessionsAreObserved`, for any calls, rules and histories. The cluster only moves
`Forward` (versions are added, the RoleBinding advances, an end stays), which keeps
`RunnerInv`: the runner never holds more than there is or has been.

`DirectoryRoleBindingProofs`, for any users, groups, bindings and durations:

* `TypeCorrect`: `[]TypeOK`.
* `OnlyNamedUsers`: `[]OnlyEntitled`, where the histories are recorded
  (`"ever" \in Tracked`). `WorkEntitled` and `StoredEntitled` say that whatever the worker,
  the cache and the informers hold is in the histories, which only grow (`Growth`).
* `AccessSettles`: `[]SettledAccess` for a `Horizon` of at least
  `Delay == TTL + Refresh + (2 + MaxFailures) * MaxListing`. `SettleInv` bounds, for each
  thing that may be wrong about a user, how long ago their access can have changed: an
  entry of the cache (`CacheInTime`), the pages of the listing under way
  (`ListingInTime`), what the worker has put together (`WorkInTime`, `TakenInTime`), an
  informer's copy (`SeenInTime`), and the RoleBinding while its timer runs (`DueInTime`).
  Every failure adds a listing to these bounds (`Base`). `FullPage` is the fact about
  paging: a page that is not the last takes the listing `PerPage` users on, and leaves out
  nobody before its last user. The hypotheses, `Swift`: time passes only in listings and while
  everything waits (`Prompt`); `TTL > 0`; there are pages enough for all users, since a
  cut listing leaves members out for good; and listings take no time or there is one group
  (`OneListing`), since with several slow ones the entries that a reconciliation uses may
  expire while it lists the others, and the sum is another one.
* `NothingIsMissed`: `[]NothingUnnoticed`, with none of these (only `"ever" \in Tracked`).
  `Fitting`: as long as no event of the binding waits (`Quiet`), what the worker has begun
  with, put together or left in the RoleBinding `Fits` what the informer has. The informer's
  copy, not the stored binding, makes it inductive: an edit may be undone before it is
  delivered. That a timer runs is `Scheduled`.

`ConsoleAuthorisationProofs`: `TypeCorrect`, `OwnersDoNotAuthorise`,
`ApprovalsAreRecorded`, by `Remembered` (no event and no failure to publish one is
forgotten), and `ApprovalsStand`. The key is `AdmittedIsValid`: an admitted
request that is still current passes the webhook's checks against the list as it is
*now*, since anything stored in between makes it no longer current.

`CommandRulesProofs`: `FirstRuleIsFound` and `ValidTemplatesAnswer`, for rules, patterns
and commands of any length. `MatchCriterion` replaces the recursive definition of a
match by a condition on positions; the loop invariant says that all earlier rules did
not match and that the current one has matched up to position `i`. `TypeCorrect` adds that
the indices stay within a step of the bounds (`Counting`).

`SecretsInjectionProofs`: `TypeCorrect`, `OwnSecretsHeld`, `OneVersionHeld`, for any
pods (`PodsAssumption` types them), keys, versions and failures. `IInv` says that nothing
runs before the webhook has wrapped what is listed (`Wrapping`), that Vault never has less
than when a process started (`SinceStart`), and of each wrapped process that files are
written after every key was read (`Progress`), that a key no longer to be fetched is
held, as of after the start (`Fetched`), and that a file no longer to be written has
just that version (`FilesWritten`), which opening another file does not undo because
a secret's file is its own (`FileLocations`). Typing is not inductive without it: that
a file is written with a key's version depends on what was loaded.

Not proved, only model-checked, is liveness under fairness, which is beyond TLAPS:
`EventuallyCollected`, `WaitsEnd`, `Converges` and `ApplicationsStart`. Of
these, `NeverOverstays`, `SettledAccess` and `NothingUnnoticed` are what a proof can say:
that the time a console, or a change, can take is bounded, and that nothing that has to
happen next is left without a timer or an event for it.

## What the code does otherwise than its texts say

`console_abort`: `abort` builds a copy with the Stopped status and writes the original,
so the console is not stopped; the next reconciliation finds its job gone and calls it
Destroyed. Further configurations, outside the list of runs, reproduce by a
counterexample what else we met:

| configuration (property) | what happens |
| --- | --- |
| `console_recreate` (`NeverRecreatesJob`) | the job is looked up twice; if it goes in between, it is created again for a console that is past Creating, against `console_controller.go:284-287` |
| `console_overwrite` (`OwnerWriteKeepsStatus`) | the first write of a reconciliation carries the status of the copy it started from, and so writes an old status over a newer one without a conflict, though it is made on "a fresh version of the object" (`console_controller.go:229-230`) |
| `console_requests` (`RequestedOnce`) | a reconciliation that starts from a copy from before the owner takes the console for new again and records the request a second time, though only what has no owner "is a new console request" (`console_controller.go:200`) |
| `console_second_pod` (`OnePodPerConsole`) | from a copy from before the first pod was recorded, the user is led to the second one, though "we want consoles to never launch more than one pod" (`console_controller.go:316-317`) |
| `console_before_ttl` (`BeforeTTLSparesStarted`) | a pod that has finished before the job's condition is seen makes a running console Pending, and the before-running TTL (`helpers.go:70`) collects it |
| `console_waits` (`FailureEndsWait`) | `WaitUntilReady` does not return when the console is destroyed, though "or has failed" (`runner.go:842`) |
| `console_maximum` (`TimeoutWithinMax`) | a console without a timeout of its own takes the template's default even above the maximum, until the next reconciliation, though "between [0, template.MaxTimeoutSeconds]" (`console_controller.go:511`) |
| `console_kept` (`KeptAfterFinished`) | a failed session has no completion time and is kept from its expiry, which may lie before it was stopped, though "TTLSecondsAfterFinished seconds after it enters the Stopped or Destroyed phase" (`console_types.go:35-37`) |
| `authorisation_append` (`AppendOnly`) | lists are compared as sets, so an update may also repeat or reorder subjects; the controller counts entries, so one user's two entries count twice |
| `authorisation_events` (`EventsAreApprovals`) | an authorise event is published for an update that is not stored, by a webhook with `sideEffects: None` |
| `rules_started` (`RuleOfStartedCommand`) | the runner asks for the rule of its own command also where the template's is started |
| `directory_role` (`SameRole`) | a changed `roleRef` is never written (Kubernetes would refuse it) and not reported |
| `secrets_rootless` (`ApplicationsStartWithoutRoot`) | an init container that is not root cannot overwrite the read-only binary when it has to run again: the pod does not start any more |

Not in a configuration: a job that is created again takes Stopped back to Pending; the
request event is lost when a call fails between the owner's write and its recording
(`console_controller.go:264-278`); the attach observer denies an
attachment when its cache lacks the pod or the console, though it is registered with
"Ignore failures as we want to record attachment, but not at the cost of blocking
connections" (`config/base/webhooks/workloads.yaml:114`), which is about no answer, not
about a denial; a
pod deleted while it runs leaves `waitForSuccess` waiting (`runner.go:320`); a failed
attach is reported only after the pod has ended (`:415`); an authoriser who attaches
waits only for the owner's entry; a RoleBinding that was there first is filled but not
owned, so it stays; a wrapped container without a `command` runs its first argument
instead of the image's entrypoint.

## What is not modelled

* The rest of the job's specification, which is built from the template's pod and is constant.
* Session recording: taken as off. On, it adds two idempotent writes of constant objects at the
  end of a Running reconciliation, and a sidecar whose image is not in the repository.
* Names. Job and pod names are taken as their console's own, though names of 54 characters or
  more are cut before the part that tells consoles of one template apart, so two of them
  share a job name: one console is modelled, so this stays a listed hazard.
* Listing and printing consoles; signals and exit codes of the commands.
* The diff functions of roles and bindings, labels, formatting of names, logging, Pub/Sub,
  flags, terminals, metrics, TLS: data that no property tells apart, or pure I/O.
* Attachments to pods of no console, and dry runs, which the observer passes.
* Spellings of one secret's key that `path.Join` makes the same
  (`theatre-secrets/main.go:203`): they are keys of their own here, and `OneVersion` is of
  keys as they are written.
* Changes of a console's own spec; subjects that are neither users nor groups.
* Type definitions and generated code.

## Plan

In order of importance; 1 to 10 are done.

1. `ConsoleLifecycle`, `ConsoleController`, the refinement; safety, events, liveness.
2. Proofs of the controller's safety.
3. `ConsoleAuthorisation` and its proofs.
4. `CommandRules` and its proofs.
5. `DirectoryRoleBinding`; `ConsoleRunner` over the lifecycle.
6. `SecretsInjection` and its proofs.
7. `ConsoleDeadlines` and its proofs.
8. Attach observer and authenticator as steps of the runner.
9. Proofs of the refinement, and of what holds from one reconciliation to the next; of the
   runner and of the directory.
10. Proofs of `NeverOverstays` and `SettledAccess`, by invariants that carry the time left
    for each wait; that no event is missed, in both controllers that have a queue.
11. Composition of the runner with `DirectoryRoleBinding` in place of its four-step
    RoleBinding.
12. Two consoles that share a template and, with long names, a job.
