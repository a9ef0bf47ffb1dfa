-------------------------- MODULE DirectoryRoleBinding --------------------------
(***************************************************************************)
(* The controller of DirectoryRoleBindings: it resolves the groups of a    *)
(* binding through a cache over the directory, page by page, and writes    *)
(* the members into a RoleBinding, again after every refresh interval.     *)
(* One worker serves all bindings; it reads bindings and RoleBindings from *)
(* informers that may lag.                                                 *)
(*                                                                         *)
(* Time is counted in ticks and kept as ages, so that it needs no end.     *)
(* With Prompt, time passes only while the system waits for a timer, or    *)
(* the worker for the directory: then the delay of a change has a bound.   *)
(***************************************************************************)
EXTENDS Integers, FiniteSets

CONSTANTS
  Bindings, Groups, Roles,
  Specs,            \* what a binding may be given: groups, native users and a role
  Users,            \* numbered, in the order in which the directory lists them
  TTL, Refresh,     \* --google-refresh and --refresh, in ticks
  PerPage, GoogleMaxPages,
  Prompt,           \* whether only the directory takes time
  MaxListing,       \* Prompt: the ticks that listing a group may take
  Horizon,          \* how long a change is remembered by settled
  Tracked,          \* the histories that are kept: "settled", "ever"
  MaxChanges, MaxUid, MaxFailures  \* bounds on what the environment does

ASSUME UsersAssumption == Users \subseteq Nat \ {0} /\ IsFiniteSet(Users)
ASSUME SpecsAssumption == Specs \subseteq [groups : SUBSET Groups, users : SUBSET Users, role : Roles]
ASSUME RolesAssumption == "none" \notin Roles
ASSUME TrackedAssumption == Tracked \subseteq {"settled", "ever"}
ASSUME TimesAssumption == TTL \in Nat /\ Refresh \in Nat /\ MaxListing \in Nat /\ Horizon \in Nat
ASSUME PagesAssumption == PerPage \in Nat \ {0} /\ GoogleMaxPages \in Nat \ {0}
ASSUME BoundsAssumption == MaxChanges \in Nat /\ MaxUid \in Nat \ {0} /\ MaxFailures \in Nat
ASSUME PromptAssumption == Prompt \in BOOLEAN

VARIABLES
  members,   \* the directory: the users of each group
  drb,       \* each DirectoryRoleBinding as it is stored
  drbSeen,   \* ... as the informer has it
  rb,        \* its RoleBinding as it is stored
  rbSeen,    \* ... as the informer has it, and whether that is the stored version
  queue,     \* the work queue
  timer,     \* ticks until the delaying queue adds the binding, -1 if it will not
  cache,     \* cachedDirectory.cache
  work,      \* what the worker is doing
  settled,   \* history: ticks since the access of a user was last changed
  everIn, everSpec, others, \* history: group members, specs, and subjects of other writers
  changes, failures

informers == <<drbSeen, rbSeen>>
history == <<settled, everIn, everSpec, others>>
budgets == <<changes, failures>>
vars == <<members, drb, drbSeen, rb, rbSeen, queue, timer, cache, work, history, budgets>>

RoleBinding(owner, role, subjects) ==
  [exists |-> TRUE, owner |-> owner, role |-> role, subjects |-> subjects]
NoRoleBinding == [exists |-> FALSE, owner |-> 0, role |-> "none", subjects |-> {}]

Idle == [pc |-> "idle"]
NotCached == [cached |-> FALSE, members |-> {}, age |-> 0]

AtMost(limit, n) == IF n > limit THEN limit ELSE n

Resolved(spec) == spec.users \cup UNION {members[g] : g \in spec.groups}
Entitled(b) == IF drb[b].state = "live" THEN Resolved(drb[b].spec) ELSE {}

-----------------------------------------------------------------------------
(* Time and history *)

\* A change of the binding, or another writer's of its RoleBinding, unsettles all of its
\* users; a change of one of its groups, whom it adds or removes, unless the binding names
\* them itself.
Regrouped(b, u) ==
  /\ u \notin drb[b].spec.users
  /\ \E g \in drb[b].spec.groups : (u \in members[g]) # (u \in members'[g])

Age(ticks, disturbed) ==
  settled' = [b \in Bindings |-> [u \in Users |->
    IF "settled" \notin Tracked \/ b \in disturbed \/ Regrouped(b, u) THEN 0
    ELSE AtMost(Horizon, settled[b][u] + ticks)]]

Remember ==
  IF "ever" \in Tracked
  THEN /\ everIn' = [g \in Groups |-> everIn[g] \cup members'[g]]
       /\ everSpec' = [b \in Bindings |-> everSpec[b] \cup {drb'[b].spec}]
  ELSE UNCHANGED <<everIn, everSpec>>

\* RequeueAfter: of two times for one binding the delaying queue keeps the earlier.
Requeue_Never(b) == UNCHANGED timer                                     \* mutant
Requeue_Adds(b) ==                                                      \* mutant
  timer' = [timer EXCEPT ![b] = IF @ = -1 THEN Refresh ELSE @ + Refresh]
Requeue(b) ==
  timer' = [timer EXCEPT ![b] = IF @ = -1 THEN Refresh ELSE AtMost(Refresh, @)]

Add(b) == queue' = queue \cup {b}

-----------------------------------------------------------------------------
(* ReconcileObject *)

\* Any other write to the RoleBinding makes the informer's and the worker's version old.
Written(b, new) ==
  /\ rb' = [rb EXCEPT ![b] = new]
  /\ rbSeen' = [rbSeen EXCEPT ![b].current = FALSE]

Finish == work' = Idle

\* An error puts the binding back into the queue.
Fail == Finish /\ Add(work.b)

\* recutil: a binding that is gone or being deleted is left alone.
Start(b) ==
  /\ work.pc = "idle" /\ b \in queue
  /\ queue' = queue \ {b}
  /\ IF drbSeen[b].state = "live"
     THEN work' = [pc |-> "get", b |-> b, spec |-> drbSeen[b].spec, uid |-> drbSeen[b].uid]
     ELSE Finish
  /\ UNCHANGED <<members, drb, rb, informers, timer, cache, others, budgets>>

\* resolve starts with the subjects that need no directory.
Resolve(copy, current) ==
  work' = [pc |-> "resolve", b |-> work.b, copy |-> copy, current |-> current,
           todo |-> work.spec.groups, out |-> work.spec.users]

GetRoleBinding ==
  /\ work.pc = "get"
  /\ IF rbSeen[work.b].rb.exists
     THEN Resolve(rbSeen[work.b].rb, rbSeen[work.b].current)
     ELSE work' = [work EXCEPT !.pc = "create"]
  /\ UNCHANGED <<members, drb, rb, informers, queue, timer, cache, others, budgets>>

NewRoleBinding == RoleBinding(work.uid, work.spec.role, {})

CreateRoleBinding ==
  /\ work.pc = "create"
  /\ IF rb[work.b].exists
     THEN Fail /\ UNCHANGED <<rb, rbSeen>>
     ELSE /\ Written(work.b, NewRoleBinding)
          /\ Resolve(NewRoleBinding, TRUE)
          /\ UNCHANGED queue
  /\ UNCHANGED <<members, drb, drbSeen, timer, cache, others, budgets>>

Fresh_AtTTL(entry) == entry.cached /\ entry.age <= TTL                  \* mutant
Fresh(entry) == entry.cached /\ entry.age < TTL

\* MembersOf of the cache: a hit, or a first call to the directory.
LookUp(g) ==
  /\ work.pc = "resolve" /\ g \in work.todo
  /\ IF Fresh(cache[g])
     THEN /\ work' = [work EXCEPT !.todo = @ \ {g}, !.out = @ \cup cache[g].members]
          /\ UNCHANGED cache
     ELSE /\ cache' = [cache EXCEPT ![g] = NotCached]
          /\ work' = [pc |-> "list", b |-> work.b, copy |-> work.copy,
                      current |-> work.current, todo |-> work.todo \ {g}, out |-> work.out,
                      group |-> g, token |-> 0, got |-> {}, pages |-> 0, spent |-> 0]
  /\ UNCHANGED <<members, drb, rb, informers, queue, timer, others, budgets>>

After(g, token) == {u \in members[g] : u > token}
Page(g, token) ==
  {u \in After(g, token) : Cardinality({v \in After(g, token) : v < u}) < PerPage}

\* The cache keeps a listing from the moment it is complete.
Cached_Resolved(got) == [cached |-> TRUE, members |-> work.out \cup got, age |-> 0]  \* mutant
Cached(got) == [cached |-> TRUE, members |-> got, age |-> 0]

Listed(got) ==
  /\ cache' = [cache EXCEPT ![work.group] = Cached(got)]
  /\ work' = [pc |-> "resolve", b |-> work.b, copy |-> work.copy, current |-> work.current,
              todo |-> work.todo, out |-> work.out \cup got]

\* One page of MembersOf of the Google directory.
ListPage ==
  /\ work.pc = "list"
  /\ LET page == Page(work.group, work.token)
         got == work.got \cup page
     IN IF page = After(work.group, work.token) \/ work.pages + 1 = GoogleMaxPages
        THEN Listed(got)
        ELSE /\ work' = [work EXCEPT !.got = got, !.pages = @ + 1,
                                     !.token = CHOOSE u \in page : \A v \in page : v <= u]
             /\ UNCHANGED cache
  /\ UNCHANGED <<members, drb, rb, informers, queue, timer, others, budgets>>

\* An error of the directory loses the pages so far and ends the reconciliation.
ListFails_KeepsPages == Listed(work.got) /\ UNCHANGED queue             \* mutant
ListFails == Fail /\ UNCHANGED cache

ListError ==
  /\ work.pc = "list" /\ failures < MaxFailures
  /\ failures' = failures + 1
  /\ ListFails
  /\ UNCHANGED <<members, drb, rb, informers, timer, others, changes>>

UpdateRoleBinding ==
  /\ work.pc = "resolve" /\ work.todo = {}
  /\ \/ /\ work.out = work.copy.subjects
        /\ Requeue(work.b) /\ Finish /\ UNCHANGED <<rb, rbSeen, queue>>
     \/ /\ work.out # work.copy.subjects /\ work.current
        /\ Written(work.b, [work.copy EXCEPT !.subjects = work.out])
        /\ Requeue(work.b) /\ Finish /\ UNCHANGED queue
     \/ /\ work.out # work.copy.subjects /\ ~work.current
        /\ Fail /\ UNCHANGED <<rb, rbSeen, timer>>
  /\ UNCHANGED <<members, drb, drbSeen, cache, others, budgets>>

\* Create or Update fails, or only its answer is lost.
WriteError ==
  /\ failures < MaxFailures
  /\ failures' = failures + 1
  /\ \/ /\ work.pc = "create"
        /\ \/ UNCHANGED <<rb, rbSeen>>
           \/ ~rb[work.b].exists /\ Written(work.b, NewRoleBinding)
     \/ /\ work.pc = "resolve" /\ work.todo = {} /\ work.out # work.copy.subjects
        /\ \/ UNCHANGED <<rb, rbSeen>>
           \/ work.current /\ Written(work.b, [work.copy EXCEPT !.subjects = work.out])
  /\ Fail
  /\ UNCHANGED <<members, drb, drbSeen, timer, cache, others, changes>>

-----------------------------------------------------------------------------
(* The triggers, time, and a restart of the manager *)

SyncBinding_UnlessBusy(b) ==                                            \* mutant
  /\ drbSeen[b] # drb[b]
  /\ drbSeen' = [drbSeen EXCEPT ![b] = drb[b]]
  /\ IF work # Idle /\ work.b = b THEN UNCHANGED queue ELSE Add(b)
  /\ UNCHANGED <<members, drb, rb, rbSeen, timer, cache, work, others, budgets>>

SyncBinding(b) ==
  /\ drbSeen[b] # drb[b]
  /\ drbSeen' = [drbSeen EXCEPT ![b] = drb[b]]
  /\ Add(b)
  /\ UNCHANGED <<members, drb, rb, rbSeen, timer, cache, work, others, budgets>>

\* An event of a RoleBinding is for the DirectoryRoleBinding that owns it, if one does.
SyncRoleBinding(b) ==
  /\ ~rbSeen[b].current
  /\ rbSeen' = [rbSeen EXCEPT ![b] = [rb |-> rb[b], current |-> TRUE]]
  /\ IF rbSeen[b].rb.owner # 0 \/ rb[b].owner # 0 THEN Add(b) ELSE UNCHANGED queue
  /\ UNCHANGED <<members, drb, drbSeen, rb, timer, cache, work, others, budgets>>

TimerFires(b) ==
  /\ timer[b] = 0
  /\ timer' = [timer EXCEPT ![b] = -1]
  /\ Add(b)
  /\ UNCHANGED <<members, drb, rb, informers, cache, work, others, budgets>>

Waiting ==
  /\ work = Idle /\ queue = {}
  /\ \A b \in Bindings : drbSeen[b] = drb[b] /\ rbSeen[b].current /\ timer[b] # 0

Tick ==
  /\ Prompt => Waiting \/ (work.pc = "list" /\ work.spent < MaxListing)
  /\ timer' = [b \in Bindings |-> IF timer[b] > 0 THEN timer[b] - 1 ELSE timer[b]]
  /\ cache' = [g \in Groups |->
                 IF cache[g].cached THEN [cache[g] EXCEPT !.age = AtMost(TTL, @ + 1)]
                 ELSE cache[g]]
  /\ work' = IF work.pc = "list" THEN [work EXCEPT !.spent = AtMost(MaxListing, @ + 1)]
             ELSE work
  /\ UNCHANGED <<members, drb, rb, informers, queue, others, budgets>>

Restart ==
  /\ failures < MaxFailures
  /\ failures' = failures + 1
  /\ drbSeen' = drb
  /\ rbSeen' = [b \in Bindings |-> [rb |-> rb[b], current |-> TRUE]]
  /\ queue' = {b \in Bindings : drb[b].state # "gone"}
  /\ timer' = [b \in Bindings |-> -1]
  /\ cache' = [g \in Groups |-> NotCached]
  /\ Finish
  /\ UNCHANGED <<members, drb, rb, others, changes>>

-----------------------------------------------------------------------------
(* Everyone else *)

Change == changes < MaxChanges /\ changes' = changes + 1 /\ UNCHANGED failures

ChangeGroup(g) ==
  /\ Change
  /\ \E u \in Users :
       members' = [members EXCEPT ![g] = IF u \in @ THEN @ \ {u} ELSE @ \cup {u}]
  /\ UNCHANGED <<drb, rb, informers, queue, timer, cache, work, others>>

StoreBinding(b, new) ==
  /\ drb' = [drb EXCEPT ![b] = new]
  /\ UNCHANGED <<members, rb, informers, queue, timer, cache, work, others>>

CreateBinding(b) ==
  /\ drb[b].state = "gone" /\ drb[b].uid < MaxUid
  /\ Change
  /\ \E spec \in Specs :
       StoreBinding(b, [state |-> "live", uid |-> drb[b].uid + 1, spec |-> spec])

EditBinding(b) ==
  /\ drb[b].state = "live"
  /\ Change
  /\ \E spec \in Specs \ {drb[b].spec} : StoreBinding(b, [drb[b] EXCEPT !.spec = spec])

\* Deletion in the background, or in the foreground, where the binding waits for its own.
DeleteBinding(b) ==
  /\ drb[b].state = "live"
  /\ Change
  /\ \E state \in {"gone", "deleting"} : StoreBinding(b, [drb[b] EXCEPT !.state = state])

RemoveBinding(b) ==
  /\ drb[b].state = "deleting"
  /\ ~(rb[b].exists /\ rb[b].owner = drb[b].uid)
  /\ StoreBinding(b, [drb[b] EXCEPT !.state = "gone"])
  /\ UNCHANGED budgets

WrittenByOthers(b, new) ==
  /\ Written(b, new)
  /\ work' = IF work.pc \in {"resolve", "list"} /\ work.b = b
             THEN [work EXCEPT !.current = FALSE] ELSE work
  /\ others' = IF "ever" \in Tracked THEN [others EXCEPT ![b] = @ \cup new.subjects] ELSE others
  /\ UNCHANGED <<members, drb, drbSeen, queue, timer, cache>>

\* The garbage collector: the owner is gone, being deleted, or another of the same name.
Collect(b) ==
  /\ rb[b].exists /\ rb[b].owner # 0
  /\ ~(drb[b].state = "live" /\ rb[b].owner = drb[b].uid)
  /\ WrittenByOthers(b, NoRoleBinding)
  /\ UNCHANGED budgets

EditRoleBinding(b) ==
  /\ Change
  /\ \/ /\ rb[b].exists
        /\ \E S \in SUBSET Users \ {rb[b].subjects} :
             WrittenByOthers(b, [rb[b] EXCEPT !.subjects = S])
     \/ rb[b].exists /\ WrittenByOthers(b, NoRoleBinding)
     \/ /\ ~rb[b].exists
        /\ \E role \in Roles, S \in SUBSET Users :
             WrittenByOthers(b, RoleBinding(0, role, S))

-----------------------------------------------------------------------------
Init ==
  /\ members \in [Groups -> SUBSET Users]
  /\ drb \in [Bindings -> [state : {"live"}, uid : {1}, spec : Specs]]
  /\ drbSeen = drb
  /\ rb = [b \in Bindings |-> NoRoleBinding]
  /\ rbSeen = [b \in Bindings |-> [rb |-> NoRoleBinding, current |-> TRUE]]
  /\ queue = Bindings /\ timer = [b \in Bindings |-> -1]
  /\ cache = [g \in Groups |-> NotCached]
  /\ work = Idle
  /\ settled = [b \in Bindings |-> [u \in Users |-> 0]]
  /\ everIn = members /\ everSpec = [b \in Bindings |-> {drb[b].spec}]
  /\ others = [b \in Bindings |-> {}]
  /\ changes = 0 /\ failures = 0

Reconcile(b) ==
  Start(b) \/ (work # Idle /\ work.b = b /\
    (\/ GetRoleBinding \/ CreateRoleBinding \/ (\E g \in Groups : LookUp(g))
     \/ ListPage \/ UpdateRoleBinding))

Trigger(b) == SyncBinding(b) \/ SyncRoleBinding(b) \/ TimerFires(b)

\* A step that takes no time and touches nobody's settled access but by its effect.
Quietly(A) == A /\ Age(0, {}) /\ Remember
Passing == Tick /\ Age(1, {}) /\ Remember
Disturbing(b, A) == A /\ Age(0, {b}) /\ Remember

Next ==
  \/ \E b \in Bindings : \/ Quietly(Reconcile(b))
                         \/ Quietly(Trigger(b))
                         \/ Quietly(RemoveBinding(b))
                         \/ Disturbing(b, Collect(b))
                         \/ Disturbing(b, CreateBinding(b))
                         \/ Disturbing(b, EditBinding(b))
                         \/ Disturbing(b, DeleteBinding(b))
                         \/ Disturbing(b, EditRoleBinding(b))
  \/ Quietly(ListError) \/ Quietly(WriteError)
  \/ \E g \in Groups : Quietly(ChangeGroup(g))
  \/ Passing
  \/ Restart /\ Age(0, Bindings) /\ Remember

Spec == Init /\ [][Next]_vars

\* The worker, the informers, the queue, the clock and the garbage collector go on.
FairSpec ==
  /\ Spec
  /\ \A b \in Bindings :
       /\ WF_vars(Quietly(Reconcile(b)))
       /\ WF_vars(Quietly(SyncBinding(b)))
       /\ WF_vars(Quietly(SyncRoleBinding(b)))
       /\ WF_vars(Quietly(TimerFires(b)))
       /\ WF_vars(Quietly(RemoveBinding(b)))
       /\ WF_vars(Disturbing(b, Collect(b)))
  /\ WF_vars(Passing)

-----------------------------------------------------------------------------
(* Properties *)

TypeOK ==
  /\ members \in [Groups -> SUBSET Users]
  /\ \A b \in Bindings :
       /\ drb[b] \in [state : {"live", "deleting", "gone"}, uid : 1..MaxUid, spec : Specs]
       /\ rb[b] \in [exists : BOOLEAN, owner : 0..MaxUid, role : Roles \cup {"none"},
                     subjects : SUBSET Users]
       /\ timer[b] \in -1..Refresh
       /\ rb[b].exists <=> rb[b].role # "none"
       /\ rbSeen[b].current => rbSeen[b].rb = rb[b]
  /\ \A g \in Groups : cache[g].members \subseteq Users /\ cache[g].age \in 0..TTL
  /\ queue \subseteq Bindings
  /\ work.pc \in {"get", "create", "resolve", "list"} => work.b \in Bindings

\* A RoleBinding never gives a role to someone that no version of its binding has ever
\* named, directly or as a member of a group, unless another writer put them there:
\* nothing leaks from one binding, group or reconciliation to another.
OnlyEntitled ==
  \A b \in Bindings : \A u \in rb[b].subjects \ others[b] :
    \E spec \in everSpec[b] : u \in spec.users \/ \E g \in spec.groups : u \in everIn[g]

\* Neither the queue nor the worker has the binding, and the informers have what is stored.
AtRest(b) ==
  /\ b \notin queue /\ ~(work # Idle /\ work.b = b)
  /\ drbSeen[b] = drb[b] /\ rbSeen[b].current

\* The users of the specification, and nobody else who was not a member of its groups.
Fits(spec, subjects) ==
  /\ spec.users \subseteq subjects
  /\ \A u \in subjects \ spec.users : \E g \in spec.groups : u \in everIn[g]

\* Nothing that the controller is told of goes unnoticed, even in the minutes that a listing
\* takes: a binding left to its timer has one, and its RoleBinding, if it is owned, fits what
\* the binding says now.
NothingUnnoticed ==
  \A b \in Bindings : drb[b].state = "live" /\ AtRest(b) =>
    timer[b] >= 0 /\ (rb[b].owner # 0 => Fits(drb[b].spec, rb[b].subjects))

\* With prompt scheduling, a change of a group, a binding or its RoleBinding has taken
\* effect Horizon ticks later, for those it adds and for those it removes, whatever the
\* age of the cache and of the refresh timer.
SettledAccess ==
  \A b \in Bindings : drb[b].state = "live" =>
    \A u \in Users : settled[b][u] >= Horizon =>
      (rb[b].exists /\ (u \in rb[b].subjects <=> u \in Entitled(b)))

\* When changes and failures end, a RoleBinding comes to list what its binding stands
\* for, and goes with its owner.
Converges ==
  \A b \in Bindings :
    /\ <>[](drb[b].state = "live" => rb[b].exists /\ rb[b].subjects = Entitled(b))
    /\ <>[](drb[b].state # "live" => rb[b].owner = 0 /\ drb[b].state = "gone")

\* The "associated RoleBinding should reference same Role as DRB"
\* (integration_test.go:113) once the controller has seen to it.
SameRole ==
  \A b \in Bindings :
    work = Idle /\ queue = {} /\ drbSeen[b] = drb[b] /\ rbSeen[b].current /\ drb[b].state = "live"
      => rb[b].role = drb[b].spec.role
=============================================================================
