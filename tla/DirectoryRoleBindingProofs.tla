----------------------- MODULE DirectoryRoleBindingProofs -----------------------
(***************************************************************************)
(* Proofs about DirectoryRoleBinding, for any bindings, groups, users and  *)
(* page sizes, any refresh times, and any edits, failures and restarts.    *)
(*                                                                         *)
(* That nobody gets a role they were never named for is not inductive: it  *)
(* rests on everything the worker, the cache and the informers hold being  *)
(* in the histories, each group's members under that group.                *)
(*                                                                         *)
(* How long an access may be wrong is bounded by bounds on everything that *)
(* it can be wrong because of: an entry of the cache, the pages of the     *)
(* listing under way, what the worker has put together, an informer that   *)
(* is behind, and a RoleBinding whose timer is running.                    *)
(***************************************************************************)
EXTENDS DirectoryRoleBinding, FiniteSetTheorems, WellFoundedInduction, TLAPS

(* Types, with the ranges of numbers under names *)

Uids == 1..MaxUid
Owners == 0..MaxUid
Ages == 0..TTL
Ticks == -1..Refresh
Tokens == {0} \cup {CHOOSE u \in S : \A v \in S : v <= u : S \in SUBSET Users}

Stored == [state : {"live", "deleting", "gone"}, uid : Uids, spec : Specs]
Bound ==
  {r \in [exists : BOOLEAN, owner : Owners, role : Roles \cup {"none"}, subjects : SUBSET Users] :
     r.exists <=> r.role # "none"}
Seen == [rb : Bound, current : BOOLEAN]
Entry == [cached : BOOLEAN, members : SUBSET Users, age : Ages]

Getting == [pc : {"get", "create"}, b : Bindings, spec : Specs, uid : Uids]
Resolving == [pc : {"resolve"}, b : Bindings, copy : Bound, current : BOOLEAN,
              todo : SUBSET Groups, out : SUBSET Users]
Listing == [pc : {"list"}, b : Bindings, copy : Bound, current : BOOLEAN,
            todo : SUBSET Groups, out : SUBSET Users, group : Groups, token : Tokens,
            got : SUBSET Users, pages : Nat, spent : Nat]

Work == {Idle} \cup Getting \cup Resolving \cup Listing

Typed ==
  /\ members \in [Groups -> SUBSET Users]
  /\ drb \in [Bindings -> Stored] /\ drbSeen \in [Bindings -> Stored]
  /\ rb \in [Bindings -> Bound] /\ rbSeen \in [Bindings -> Seen]
  /\ \A b \in Bindings : rbSeen[b].current => rbSeen[b].rb = rb[b]
  /\ queue \subseteq Bindings /\ timer \in [Bindings -> Ticks]
  /\ cache \in [Groups -> Entry] /\ work \in Work

-----------------------------------------------------------------------------
LEMMA WorkKinds ==
  ASSUME work \in Work
  PROVE  /\ work.pc \in {"get", "create"} => work \in Getting
         /\ work.pc = "resolve" => work \in Resolving
         /\ work.pc = "list" => work \in Listing
         /\ work.pc \in {"idle", "get", "create", "resolve", "list"}
         /\ work # Idle => work.b \in Bindings
BY DEF Work, Idle, Getting, Resolving, Listing

LEMMA SpecTypes ==
  ASSUME NEW spec \in Specs
  PROVE  spec.groups \subseteq Groups /\ spec.users \subseteq Users /\ spec.role \in Roles
BY SpecsAssumption

LEMMA NoneTyped == NoRoleBinding \in Bound /\ NotCached \in Entry
<1>1. 0 \in Owners /\ 0 \in Ages
  BY BoundsAssumption, TimesAssumption DEF Owners, Ages
<1> QED BY <1>1 DEF NoRoleBinding, NotCached, Bound, Entry

LEMMA NewTyped ==
  ASSUME NEW role \in Roles, NEW owner \in Owners, NEW S \in SUBSET Users
  PROVE  RoleBinding(owner, role, S) \in Bound
BY RolesAssumption DEF RoleBinding, Bound

LEMMA SubjectsTyped ==
  ASSUME NEW r \in Bound, NEW S \in SUBSET Users
  PROVE  [r EXCEPT !.subjects = S] \in Bound /\ [r EXCEPT !.subjects = S].subjects = S
BY DEF Bound

LEMMA WrittenTyped ==
  ASSUME Typed, NEW b \in Bindings, NEW new \in Bound, Written(b, new)
  PROVE  /\ rb' \in [Bindings -> Bound] /\ rbSeen' \in [Bindings -> Seen]
         /\ \A c \in Bindings : rbSeen'[c].current => rbSeen'[c].rb = rb'[c]
<1>1. rb' = [rb EXCEPT ![b] = new] /\ rbSeen' = [rbSeen EXCEPT ![b].current = FALSE]
  BY DEF Written
<1>2. rb \in [Bindings -> Bound] /\ rbSeen \in [Bindings -> Seen]
  BY DEF Typed
<1>3. rbSeen'[b] \in Seen /\ ~rbSeen'[b].current
  BY <1>1, <1>2 DEF Seen
<1>4. \A c \in Bindings \ {b} : rbSeen'[c] = rbSeen[c] /\ rb'[c] = rb[c]
  BY <1>1, <1>2
<1> QED BY <1>1, <1>2, <1>3, <1>4 DEF Typed

LEMMA RequeueTyped ==
  ASSUME Typed, NEW b \in Bindings, Requeue(b)
  PROVE  timer' \in [Bindings -> Ticks]
<1>1. timer[b] \in Int /\ timer[b] >= -1
  BY TimesAssumption DEF Typed, Ticks
<1>2. Refresh \in Ticks /\ AtMost(Refresh, timer[b]) \in Ticks
  BY <1>1, TimesAssumption DEF Ticks, AtMost
<1> QED BY <1>2 DEF Typed, Requeue

-----------------------------------------------------------------------------
(* The worker *)

LEMMA StartTyped == ASSUME Typed, NEW b \in Bindings, Start(b) PROVE Typed'
<1>1. work' \in Work
  <2>1. CASE drbSeen[b].state = "live"
    <3>1. drbSeen[b] \in Stored
      BY DEF Typed
    <3>2. work' \in Getting
      BY <2>1, <3>1 DEF Start, Stored, Getting
    <3> QED BY <3>2 DEF Work
  <2>2. CASE drbSeen[b].state # "live"
    BY <2>2 DEF Start, Finish, Work
  <2> QED BY <2>1, <2>2
<1> QED BY <1>1 DEF Typed, Start, informers

LEMMA ResolveTyped ==
  ASSUME work \in Getting, NEW copy \in Bound, NEW current \in BOOLEAN, Resolve(copy, current)
  PROVE  work' \in Resolving
<1>1. work.b \in Bindings /\ work.spec \in Specs
  BY DEF Getting
<1>2. work.spec.groups \in SUBSET Groups /\ work.spec.users \in SUBSET Users
  BY <1>1, SpecTypes
<1> QED BY <1>1, <1>2 DEF Resolve, Resolving

LEMMA GetTyped == ASSUME Typed, GetRoleBinding PROVE Typed'
<1>1. work \in Getting
  BY WorkKinds DEF Typed, GetRoleBinding
<1>2. work' \in Work
  <2>1. CASE rbSeen[work.b].rb.exists
    <3>1. rbSeen[work.b] \in Seen
      BY <1>1 DEF Typed, Getting
    <3>2. work' \in Resolving
      BY <1>1, <2>1, <3>1, ResolveTyped DEF GetRoleBinding, Seen
    <3> QED BY <3>2 DEF Work
  <2>2. CASE ~rbSeen[work.b].rb.exists
    <3>1. work' \in Getting
      BY <1>1, <2>2 DEF GetRoleBinding, Getting
    <3> QED BY <3>1 DEF Work
  <2> QED BY <2>1, <2>2
<1> QED BY <1>2 DEF Typed, GetRoleBinding, informers

LEMMA CreateTyped == ASSUME Typed, CreateRoleBinding PROVE Typed'
<1>1. work \in Getting
  BY WorkKinds DEF Typed, CreateRoleBinding
<1>2. work.b \in Bindings /\ work.spec \in Specs /\ work.uid \in Owners
  BY <1>1, BoundsAssumption DEF Getting, Uids, Owners
<1>3. NewRoleBinding \in Bound
  BY <1>2, NewTyped, SpecTypes DEF NewRoleBinding
<1>4. CASE rb[work.b].exists
  <2>1. work' \in Work
    BY <1>4 DEF CreateRoleBinding, Fail, Finish, Work
  <2> QED BY <1>2, <1>4, <2>1 DEF Typed, CreateRoleBinding, Fail, Add
<1>5. CASE ~rb[work.b].exists
  <2>1. work' \in Resolving
    BY <1>1, <1>3, <1>5, ResolveTyped DEF CreateRoleBinding
  <2>2. work' \in Work
    BY <2>1 DEF Work
  <2>3. Written(work.b, NewRoleBinding)
    BY <1>5 DEF CreateRoleBinding
  <2> QED BY <1>2, <1>3, <1>5, <2>2, <2>3, WrittenTyped DEF Typed, CreateRoleBinding
<1> QED BY <1>4, <1>5

LEMMA LookUpTyped == ASSUME Typed, NEW g \in Groups, LookUp(g) PROVE Typed'
<1>1. work \in Resolving /\ cache[g] \in Entry
  BY WorkKinds DEF Typed, LookUp
<1>2. CASE Fresh(cache[g])
  <2>0. work.out \cup cache[g].members \in SUBSET Users /\ work.todo \ {g} \in SUBSET Groups
    BY <1>1 DEF Resolving, Entry
  <2>1. work' \in Resolving
    BY <1>1, <1>2, <2>0 DEF LookUp, Resolving
  <2>2. work' \in Work
    BY <2>1 DEF Work
  <2> QED BY <1>2, <2>2 DEF Typed, LookUp, informers
<1>3. CASE ~Fresh(cache[g])
  <2>1. 0 \in Tokens /\ {} \in SUBSET Users
    BY DEF Tokens
  <2>2. work' \in Listing
    BY <1>1, <1>3, <2>1 DEF LookUp, Resolving, Listing
  <2>3. work' \in Work
    BY <2>2 DEF Work
  <2> QED BY <1>3, <2>3, NoneTyped DEF Typed, LookUp, informers
<1> QED BY <1>2, <1>3

LEMMA ListedTyped ==
  ASSUME Typed, work \in Listing, NEW got \in SUBSET Users, Listed(got)
  PROVE  cache' \in [Groups -> Entry] /\ work' \in Work
<1>1. Cached(got) \in Entry
  BY TimesAssumption DEF Cached, Entry, Ages
<1>2. work' \in Resolving
  BY DEF Listed, Listing, Resolving
<1> QED BY <1>1, <1>2 DEF Typed, Listed, Work, Listing

LEMMA PageOfGroup == ASSUME NEW g, NEW token PROVE Page(g, token) \subseteq members[g]
BY DEF Page, After

LEMMA ListPageTyped == ASSUME Typed, ListPage PROVE Typed'
<1> DEFINE page == Page(work.group, work.token)
           got == work.got \cup page
<1>1. work \in Listing
  BY WorkKinds DEF Typed, ListPage
<1>2. page \in SUBSET Users /\ got \in SUBSET Users
  BY <1>1, PageOfGroup DEF Typed, Listing
<1>3. (CHOOSE u \in page : \A v \in page : v <= u) \in Tokens
  BY <1>2 DEF Tokens
<1>4. CASE Listed(got)
  BY <1>1, <1>2, <1>4, ListedTyped DEF Typed, ListPage, informers
<1>5. CASE /\ work' = [work EXCEPT !.got = got, !.pages = @ + 1,
                                   !.token = CHOOSE u \in page : \A v \in page : v <= u]
           /\ UNCHANGED cache
  <2> DEFINE token == CHOOSE u \in page : \A v \in page : v <= u
  <2>0. work.pages + 1 \in Nat /\ token \in Tokens
    BY <1>1, <1>3 DEF Listing
  <2> HIDE DEF page, got
  <2>3. work' = [work EXCEPT !.got = got, !.pages = work.pages + 1, !.token = token]
    BY <1>5
  <2> HIDE DEF token
  <2>1. work' \in Listing
    BY <1>1, <1>2, <2>0, <2>3 DEF Listing
  <2>2. work' \in Work
    BY <2>1 DEF Work
  <2> QED BY <1>5, <2>2 DEF Typed, ListPage, informers
<1> QED BY <1>4, <1>5 DEF ListPage

LEMMA ListErrorTyped == ASSUME Typed, ListError PROVE Typed'
<1>1. work \in Listing
  BY WorkKinds DEF Typed, ListError
<1> QED BY <1>1 DEF Typed, ListError, ListFails, Fail, Finish, Add, Work, Listing, informers

LEMMA WriteErrorTyped == ASSUME Typed, WriteError PROVE Typed'
<1>1. work.b \in Bindings /\ work' \in Work
  BY WorkKinds DEF Typed, WriteError, Fail, Finish, Work, Getting, Resolving
<1>2. \/ UNCHANGED <<rb, rbSeen>>
      \/ \E new \in Bound : Written(work.b, new)
  <2>1. CASE work.pc = "create"
    <3>1. work.b \in Bindings /\ work.uid \in Owners /\ work.spec \in Specs
      BY <2>1, WorkKinds DEF Typed, Getting, Uids, Owners
    <3>2. NewRoleBinding \in Bound
      BY <3>1, NewTyped, SpecTypes DEF NewRoleBinding
    <3> QED BY <2>1, <3>2 DEF WriteError
  <2>2. CASE work.pc = "resolve"
    <3>1. work.out \in SUBSET Users /\ work.copy \in Bound
      BY <2>2, WorkKinds DEF Typed, Resolving
    <3>2. [work.copy EXCEPT !.subjects = work.out] \in Bound
      BY <3>1, SubjectsTyped
    <3> QED BY <2>2, <3>2 DEF WriteError
  <2> QED BY <2>1, <2>2 DEF WriteError
<1>3. /\ rb' \in [Bindings -> Bound] /\ rbSeen' \in [Bindings -> Seen]
      /\ \A c \in Bindings : rbSeen'[c].current => rbSeen'[c].rb = rb'[c]
  BY <1>1, <1>2, WrittenTyped DEF Typed
<1> QED BY <1>1, <1>3 DEF Typed, WriteError, Fail, Add

LEMMA UpdateTyped == ASSUME Typed, UpdateRoleBinding PROVE Typed'
<1>1. work \in Resolving
  BY WorkKinds DEF Typed, UpdateRoleBinding
<1>2. work.b \in Bindings /\ work.out \in SUBSET Users /\ work.copy \in Bound
  BY <1>1 DEF Resolving
<1>3. work' \in Work
  BY DEF UpdateRoleBinding, Fail, Finish, Work
<1>4. CASE Requeue(work.b) /\ UNCHANGED <<rb, rbSeen, queue>>
  BY <1>2, <1>3, <1>4, RequeueTyped DEF Typed, UpdateRoleBinding
<1>5. CASE /\ Written(work.b, [work.copy EXCEPT !.subjects = work.out])
           /\ Requeue(work.b) /\ UNCHANGED queue
  <2>1. [work.copy EXCEPT !.subjects = work.out] \in Bound
    BY <1>2, SubjectsTyped
  <2> QED BY <1>2, <1>3, <1>5, <2>1, WrittenTyped, RequeueTyped DEF Typed, UpdateRoleBinding
<1>6. CASE Fail /\ UNCHANGED <<rb, rbSeen, timer>>
  BY <1>2, <1>3, <1>6 DEF Typed, UpdateRoleBinding, Fail, Add
<1> QED BY <1>4, <1>5, <1>6 DEF UpdateRoleBinding

LEMMA ReconcileTyped == ASSUME Typed, NEW b \in Bindings, Reconcile(b) PROVE Typed'
BY StartTyped, GetTyped, CreateTyped, LookUpTyped, ListPageTyped, UpdateTyped DEF Reconcile

-----------------------------------------------------------------------------
(* The triggers and time *)

LEMMA TriggerTyped == ASSUME Typed, NEW b \in Bindings, Trigger(b) PROVE Typed'
<1>1. CASE SyncBinding(b)
  BY <1>1 DEF Typed, SyncBinding, Add
<1>2. CASE SyncRoleBinding(b)
  <2>1. rbSeen' = [rbSeen EXCEPT ![b] = [rb |-> rb[b], current |-> TRUE]]
    BY <1>2 DEF SyncRoleBinding
  <2>2. [rb |-> rb[b], current |-> TRUE] \in Seen
    BY DEF Typed, Seen
  <2>3. \A c \in Bindings : rbSeen'[c].current => rbSeen'[c].rb = rb[c]
    BY <2>1 DEF Typed
  <2> QED BY <1>2, <2>1, <2>2, <2>3 DEF Typed, SyncRoleBinding, Add
<1>3. CASE TimerFires(b)
  <2>1. -1 \in Ticks
    BY TimesAssumption DEF Ticks
  <2> QED BY <1>3, <2>1 DEF Typed, TimerFires, Add, informers
<1> QED BY <1>1, <1>2, <1>3 DEF Trigger

LEMMA TickTyped == ASSUME Typed, Tick PROVE Typed'
<1>1. timer' \in [Bindings -> Ticks]
  <2> SUFFICES ASSUME NEW b \in Bindings
               PROVE  (IF timer[b] > 0 THEN timer[b] - 1 ELSE timer[b]) \in Ticks
    BY DEF Tick
  <2>1. timer[b] \in Ticks
    BY DEF Typed
  <2> QED BY <2>1, TimesAssumption DEF Ticks
<1>2. cache' \in [Groups -> Entry]
  <2> SUFFICES ASSUME NEW g \in Groups
               PROVE  [cache[g] EXCEPT !.age = AtMost(TTL, @ + 1)] \in Entry
    BY DEF Tick, Typed
  <2>1. cache[g] \in Entry
    BY DEF Typed
  <2>2. cache[g].age \in Int /\ cache[g].age >= 0
    BY <2>1, TimesAssumption DEF Entry, Ages
  <2>3. AtMost(TTL, cache[g].age + 1) \in Ages
    BY <2>2, TimesAssumption DEF AtMost, Ages
  <2> QED BY <2>1, <2>3 DEF Entry
<1>3. work' \in Work
  <2>1. CASE work.pc = "list"
    <3>1. work \in Listing
      BY <2>1, WorkKinds DEF Typed
    <3>2. AtMost(MaxListing, work.spent + 1) \in Nat
      BY <3>1, TimesAssumption DEF Listing, AtMost
    <3>3. work' \in Listing
      BY <2>1, <3>1, <3>2 DEF Tick, Listing
    <3> QED BY <3>3 DEF Work
  <2>2. CASE work.pc # "list"
    BY <2>2 DEF Tick, Typed
  <2> QED BY <2>1, <2>2
<1> QED BY <1>1, <1>2, <1>3 DEF Typed, Tick, informers

LEMMA RestartTyped == ASSUME Typed, Restart PROVE Typed'
<1>1. \A b \in Bindings : [rb |-> rb[b], current |-> TRUE] \in Seen
  BY DEF Typed, Seen
<1>2. -1 \in Ticks /\ Idle \in Work
  BY TimesAssumption DEF Ticks, Work
<1> QED BY <1>1, <1>2, NoneTyped DEF Typed, Restart, Finish

-----------------------------------------------------------------------------
(* Everyone else *)

LEMMA GroupTyped == ASSUME Typed, NEW g \in Groups, ChangeGroup(g) PROVE Typed'
<1>1. PICK u \in Users : members' = [members EXCEPT ![g] = IF u \in @ THEN @ \ {u} ELSE @ \cup {u}]
  BY DEF ChangeGroup
<1>2. members' \in [Groups -> SUBSET Users]
  BY <1>1 DEF Typed
<1> QED BY <1>2 DEF Typed, ChangeGroup, informers

LEMMA StoreTyped ==
  ASSUME Typed, NEW b \in Bindings, NEW new \in Stored, StoreBinding(b, new)
  PROVE  Typed'
BY DEF Typed, StoreBinding, informers

\* The three edits of a binding, and its removal.
BindingChanges(b) == CreateBinding(b) \/ EditBinding(b) \/ DeleteBinding(b) \/ RemoveBinding(b)

LEMMA BindingTyped == ASSUME Typed, NEW b \in Bindings, BindingChanges(b) PROVE Typed'
<1>1. drb[b] \in Stored
  BY DEF Typed
<1>2. CASE CreateBinding(b)
  <2>1. PICK spec \in Specs :
          StoreBinding(b, [state |-> "live", uid |-> drb[b].uid + 1, spec |-> spec])
    BY <1>2 DEF CreateBinding
  <2>2. drb[b].uid \in Int /\ drb[b].uid >= 1 /\ drb[b].uid < MaxUid
    BY <1>1, <1>2, BoundsAssumption DEF CreateBinding, Stored, Uids
  <2>3. drb[b].uid + 1 \in Uids
    BY <2>2, BoundsAssumption DEF Uids
  <2>4. [state |-> "live", uid |-> drb[b].uid + 1, spec |-> spec] \in Stored
    BY <2>3 DEF Stored
  <2> QED BY <2>1, <2>4, StoreTyped
<1>3. CASE EditBinding(b)
  <2>1. PICK spec \in Specs : StoreBinding(b, [drb[b] EXCEPT !.spec = spec])
    BY <1>3 DEF EditBinding
  <2>2. [drb[b] EXCEPT !.spec = spec] \in Stored
    BY <1>1 DEF Stored
  <2> QED BY <2>1, <2>2, StoreTyped
<1>4. CASE DeleteBinding(b) \/ RemoveBinding(b)
  <2>1. PICK state \in {"gone", "deleting"} : StoreBinding(b, [drb[b] EXCEPT !.state = state])
    BY <1>4 DEF DeleteBinding, RemoveBinding
  <2>2. [drb[b] EXCEPT !.state = state] \in Stored
    BY <1>1 DEF Stored
  <2> QED BY <2>1, <2>2, StoreTyped
<1> QED BY <1>2, <1>3, <1>4 DEF BindingChanges

LEMMA OthersTyped ==
  ASSUME Typed, NEW b \in Bindings, NEW new \in Bound, WrittenByOthers(b, new)
  PROVE  Typed'
<1>1. work' \in Work
  <2>1. CASE work.pc = "resolve"
    <3>1. work \in Resolving
      BY <2>1, WorkKinds DEF Typed
    <3>2. work' \in Resolving
      BY <3>1 DEF WrittenByOthers, Resolving
    <3> QED BY <3>2 DEF Work
  <2>2. CASE work.pc = "list"
    <3>1. work \in Listing
      BY <2>2, WorkKinds DEF Typed
    <3>2. work' \in Listing
      BY <3>1 DEF WrittenByOthers, Listing
    <3> QED BY <3>2 DEF Work
  <2>3. CASE work.pc \notin {"resolve", "list"}
    BY <2>3 DEF WrittenByOthers, Typed
  <2> QED BY <2>1, <2>2, <2>3
<1>2. Written(b, new)
  BY DEF WrittenByOthers
<1> QED BY <1>1, <1>2, WrittenTyped DEF Typed, WrittenByOthers

\* What others make of a RoleBinding is a RoleBinding, and its subjects are on their account.
LEMMA OthersWrite ==
  ASSUME Typed, NEW b \in Bindings, Collect(b) \/ EditRoleBinding(b)
  PROVE  /\ \E new \in Bound : WrittenByOthers(b, new)
         /\ UNCHANGED <<members, drb, drbSeen, cache>>
<1>1. rb[b] \in Bound
  BY DEF Typed
<1>2. CASE WrittenByOthers(b, NoRoleBinding)
  BY <1>2, NoneTyped DEF WrittenByOthers
<1>3. ASSUME NEW S \in SUBSET Users, WrittenByOthers(b, [rb[b] EXCEPT !.subjects = S])
      PROVE  \E new \in Bound : WrittenByOthers(b, new)
  BY <1>1, <1>3, SubjectsTyped
<1>4. ASSUME NEW S \in SUBSET Users, NEW role \in Roles,
             WrittenByOthers(b, RoleBinding(0, role, S))
      PROVE  \E new \in Bound : WrittenByOthers(b, new)
  <2>1. 0 \in Owners
    BY BoundsAssumption DEF Owners
  <2> QED BY <1>4, <2>1, NewTyped
<1>5. \E new \in Bound : WrittenByOthers(b, new)
  BY <1>2, <1>3, <1>4, NoneTyped DEF Collect, EditRoleBinding
<1> QED BY <1>5 DEF WrittenByOthers

-----------------------------------------------------------------------------
LEMMA InitTyped == Init => Typed
<1> SUFFICES ASSUME Init PROVE Typed
  OBVIOUS
<1>1. drb \in [Bindings -> Stored]
  <2>1. 1 \in Uids
    BY BoundsAssumption DEF Uids
  <2> QED BY <2>1 DEF Init, Stored
<1>2. [rb |-> NoRoleBinding, current |-> TRUE] \in Seen
  BY NoneTyped DEF Seen
<1>3. -1 \in Ticks
  BY TimesAssumption DEF Ticks
<1> QED BY <1>1, <1>2, <1>3, NoneTyped DEF Init, Typed, Work

LEMMA NextTyped == Typed /\ [Next]_vars => Typed'
<1> SUFFICES ASSUME Typed, [Next]_vars PROVE Typed'
  OBVIOUS
<1>1. CASE UNCHANGED vars
  BY <1>1 DEF Typed, vars, informers
<1>2. ASSUME NEW b \in Bindings, Collect(b) \/ EditRoleBinding(b) PROVE Typed'
  BY <1>2, OthersWrite, OthersTyped
<1>3. ASSUME NEW b \in Bindings,
             CreateBinding(b) \/ EditBinding(b) \/ DeleteBinding(b) \/ RemoveBinding(b)
      PROVE  Typed'
  BY <1>3, BindingTyped DEF BindingChanges
<1> QED
  BY <1>1, <1>2, <1>3, ReconcileTyped, TriggerTyped, ListErrorTyped, WriteErrorTyped, GroupTyped, TickTyped,
     RestartTyped DEF Next, Quietly, Disturbing, Passing

LEMMA AlwaysTyped == Spec => []Typed
BY InitTyped, NextTyped, PTL DEF Spec

\* What is stored, cached and waited for is well formed, and an informer's current copy is the
\* stored one.
THEOREM TypeCorrect == Spec => []TypeOK
<1>1. Typed => TypeOK
  <2> SUFFICES ASSUME Typed PROVE TypeOK
    OBVIOUS
  <2>1. ASSUME NEW b \in Bindings
        PROVE  /\ drb[b] \in [state : {"live", "deleting", "gone"}, uid : 1..MaxUid, spec : Specs]
               /\ rb[b] \in [exists : BOOLEAN, owner : 0..MaxUid, role : Roles \cup {"none"},
                             subjects : SUBSET Users]
               /\ timer[b] \in -1..Refresh
               /\ rb[b].exists <=> rb[b].role # "none"
               /\ rbSeen[b].current => rbSeen[b].rb = rb[b]
    BY DEF Typed, Stored, Bound, Ticks, Uids, Owners
  <2>2. \A g \in Groups : cache[g].members \subseteq Users /\ cache[g].age \in 0..TTL
    BY DEF Typed, Entry, Ages
  <2>3. work.pc \in {"get", "create", "resolve", "list"} => work.b \in Bindings
    BY WorkKinds DEF Typed, Idle
  <2> QED BY <2>1, <2>2, <2>3 DEF TypeOK, Typed
<1> QED BY <1>1, AlwaysTyped, PTL

-----------------------------------------------------------------------------
(* Who has been entitled, as far as the histories know *)

EverGroups(b) == UNION {spec.groups : spec \in everSpec[b]}

Ever(b) ==
  {u \in Users : \E spec \in everSpec[b] : u \in spec.users \/ \E g \in spec.groups : u \in everIn[g]}

\* What the worker holds is of a version of its binding, a group's listing is of that group.
WorkEntitled ==
  /\ work.pc \in {"get", "create"} => work.spec \in everSpec[work.b]
  /\ work.pc \in {"resolve", "list"} =>
       work.out \subseteq Ever(work.b) /\ work.todo \subseteq EverGroups(work.b)
  /\ work.pc = "list" => work.group \in EverGroups(work.b) /\ work.got \subseteq everIn[work.group]

StoredEntitled ==
  /\ \A g \in Groups : members[g] \subseteq everIn[g] /\ cache[g].members \subseteq everIn[g]
  /\ \A b \in Bindings : drb[b].spec \in everSpec[b] /\ drbSeen[b].spec \in everSpec[b]
  /\ \A b \in Bindings : rb[b].subjects \subseteq Ever(b) \cup others[b]

Histories ==
  /\ everSpec \in [Bindings -> SUBSET Specs]
  /\ others \in [Bindings -> SUBSET Users]

EntitledInv == Typed /\ Histories /\ StoredEntitled /\ WorkEntitled

\* The histories only grow, and keep up with the directory and the bindings.
Grown ==
  /\ \A g \in Groups : everIn[g] \subseteq everIn'[g] /\ members'[g] \subseteq everIn'[g]
  /\ \A b \in Bindings :
       /\ everSpec[b] \subseteq everSpec'[b] /\ drb'[b].spec \in everSpec'[b]
       /\ Ever(b) \subseteq Ever(b)' /\ EverGroups(b) \subseteq EverGroups(b)'

LEMMA Growth ==
  ASSUME "ever" \in Tracked, Typed, Typed', Histories, Remember
  PROVE  Grown /\ everSpec' \in [Bindings -> SUBSET Specs]
<1>1. /\ everIn' = [g \in Groups |-> everIn[g] \cup members'[g]]
      /\ everSpec' = [b \in Bindings |-> everSpec[b] \cup {drb'[b].spec}]
  BY DEF Remember
<1>2. \A g \in Groups : everIn[g] \subseteq everIn'[g] /\ members'[g] \subseteq everIn'[g]
  BY <1>1
<1>3. \A b \in Bindings : everSpec[b] \subseteq everSpec'[b] /\ drb'[b].spec \in everSpec'[b]
  BY <1>1
<1>4. ASSUME NEW b \in Bindings
      PROVE  Ever(b) \subseteq Ever(b)' /\ EverGroups(b) \subseteq EverGroups(b)'
  <2>1. \A spec \in everSpec[b] : spec.groups \subseteq Groups
    BY SpecTypes DEF Histories
  <2> QED BY <1>2, <1>3, <2>1 DEF Ever, EverGroups
<1>5. \A b \in Bindings : drb'[b].spec \in Specs
  BY DEF Typed, Stored
<1>6. everSpec' \in [Bindings -> SUBSET Specs]
  BY <1>1, <1>5 DEF Histories
<1> QED BY <1>2, <1>3, <1>4, <1>6 DEF Grown

\* A member, past or present, of a group that the binding has had is one of its own.
LEMMA MembersCount ==
  ASSUME NEW b, NEW g \in EverGroups(b), NEW S \in SUBSET Users, S \subseteq everIn[g]
  PROVE  S \subseteq Ever(b)
BY DEF EverGroups, Ever

\* Steps that leave the worker alone, and the bindings and RoleBindings but for what is given.
LEMMA WorkStays ==
  ASSUME EntitledInv, Grown, UNCHANGED work
  PROVE  WorkEntitled'
<1>1. work # Idle => work.b \in Bindings
  BY WorkKinds DEF EntitledInv, Typed
<1>2. work.pc = "list" => work.group \in Groups
  BY WorkKinds DEF EntitledInv, Typed, Listing
<1>3. work = Idle => work.pc = "idle"
  BY DEF Idle
<1> QED BY <1>1, <1>2, <1>3 DEF EntitledInv, WorkEntitled, Grown

LEMMA SubjectsStay ==
  ASSUME EntitledInv, Grown, NEW b \in Bindings, rb'[b] = rb[b], others[b] \subseteq others'[b]
  PROVE  rb'[b].subjects \subseteq Ever(b)' \cup others'[b]
BY DEF EntitledInv, StoredEntitled, Grown

LEMMA BindingsStay ==
  ASSUME EntitledInv, Grown, NEW b \in Bindings, drbSeen'[b] \in {drbSeen[b], drb[b], drb'[b]}
  PROVE  drb'[b].spec \in everSpec'[b] /\ drbSeen'[b].spec \in everSpec'[b]
BY DEF EntitledInv, StoredEntitled, Grown

LEMMA CacheStays ==
  ASSUME EntitledInv, Grown, NEW g \in Groups,
         cache'[g].members \in {cache[g].members, {}}
  PROVE  members'[g] \subseteq everIn'[g] /\ cache'[g].members \subseteq everIn'[g]
BY DEF EntitledInv, StoredEntitled, Grown

-----------------------------------------------------------------------------
(* The worker only passes on what it has read *)

LEMMA StartEntitled ==
  ASSUME EntitledInv, Grown, NEW b \in Bindings, Start(b)
  PROVE  StoredEntitled' /\ WorkEntitled'
<1>1. StoredEntitled'
  BY SubjectsStay, BindingsStay, CacheStays DEF StoredEntitled, Start, informers
<1>2. CASE drbSeen[b].state = "live"
  <2>1. work'.pc = "get" /\ work'.b = b /\ work'.spec = drbSeen[b].spec
    BY <1>2 DEF Start
  <2>2. drbSeen[b].spec \in everSpec'[b]
    BY DEF EntitledInv, StoredEntitled, Grown
  <2> QED BY <1>1, <2>1, <2>2 DEF WorkEntitled
<1>3. CASE drbSeen[b].state # "live"
  <2>1. work' = Idle
    BY <1>3 DEF Start, Finish
  <2> QED BY <1>1, <2>1 DEF Idle, WorkEntitled
<1> QED BY <1>1, <1>2, <1>3

LEMMA ResolveEntitled ==
  ASSUME EntitledInv, Grown, work \in Getting, NEW copy, NEW current, Resolve(copy, current)
  PROVE  WorkEntitled'
<1>1. /\ work.pc \in {"get", "create"} /\ work.b \in Bindings /\ work.spec \in everSpec[work.b]
      /\ work.spec.users \subseteq Users
  BY SpecTypes DEF Getting, EntitledInv, WorkEntitled
<1>2. work.spec.users \subseteq Ever(work.b) /\ work.spec.groups \subseteq EverGroups(work.b)
  BY <1>1 DEF Ever, EverGroups
<1>3. work.spec.users \subseteq Ever(work.b)' /\ work.spec.groups \subseteq EverGroups(work.b)'
  <2>1. work.b' = work.b
    BY DEF Resolve
  <2> QED BY <1>1, <1>2, <2>1 DEF Grown
<1> QED BY <1>3 DEF Resolve, WorkEntitled

LEMMA GetEntitled ==
  ASSUME EntitledInv, Grown, GetRoleBinding
  PROVE  StoredEntitled' /\ WorkEntitled'
<1>1. work \in Getting
  BY WorkKinds DEF EntitledInv, Typed, GetRoleBinding
<1>2. StoredEntitled'
  BY SubjectsStay, BindingsStay, CacheStays DEF StoredEntitled, GetRoleBinding, informers
<1>3. CASE rbSeen[work.b].rb.exists
  <2>1. Resolve(rbSeen[work.b].rb, rbSeen[work.b].current)
    BY <1>3 DEF GetRoleBinding
  <2>2. WorkEntitled'
    BY <1>1, <2>1, ResolveEntitled
  <2> QED BY <1>2, <2>2
<1>4. CASE ~rbSeen[work.b].rb.exists
  <2>1. /\ work'.pc = "create" /\ work'.spec = work.spec /\ work'.b = work.b
        /\ work.b \in Bindings /\ work.spec \in everSpec[work.b]
    BY <1>1, <1>4 DEF GetRoleBinding, Getting, EntitledInv, WorkEntitled
  <2>2. work'.spec \in everSpec'[work'.b]
    BY <2>1 DEF Grown
  <2> QED BY <1>2, <2>1, <2>2 DEF WorkEntitled
<1> QED BY <1>2, <1>3, <1>4

LEMMA CreateEntitled ==
  ASSUME EntitledInv, Grown, CreateRoleBinding
  PROVE  StoredEntitled' /\ WorkEntitled'
<1>1. work \in Getting
  BY WorkKinds DEF EntitledInv, Typed, CreateRoleBinding
<1>2. CASE rb[work.b].exists
  <2>1. StoredEntitled'
    BY <1>2, SubjectsStay, BindingsStay, CacheStays DEF StoredEntitled, CreateRoleBinding
  <2> QED BY <1>2, <2>1 DEF CreateRoleBinding, Fail, Finish, Idle, WorkEntitled
<1>3. CASE ~rb[work.b].exists
  <2>1. \A b \in Bindings : rb'[b] = rb[b] \/ rb'[b].subjects = {}
    BY <1>3 DEF CreateRoleBinding, Written, NewRoleBinding, RoleBinding, EntitledInv, Typed
  <2>2. StoredEntitled'
    BY <1>3, <2>1, SubjectsStay, BindingsStay, CacheStays DEF StoredEntitled, CreateRoleBinding
  <2> QED BY <1>1, <1>3, <2>2, ResolveEntitled DEF CreateRoleBinding
<1> QED BY <1>2, <1>3

LEMMA LookUpEntitled ==
  ASSUME EntitledInv, Grown, NEW g \in Groups, LookUp(g)
  PROVE  StoredEntitled' /\ WorkEntitled'
<1>1. work \in Resolving /\ work.pc = "resolve" /\ work.b \in Bindings /\ g \in work.todo
  BY WorkKinds DEF EntitledInv, Typed, LookUp, Resolving
<1>2. /\ work.out \subseteq Ever(work.b) /\ work.todo \subseteq EverGroups(work.b)
      /\ Ever(work.b) \subseteq Ever(work.b)' /\ EverGroups(work.b) \subseteq EverGroups(work.b)'
  <2>1. work'.b = work.b
    <3>1. CASE Fresh(cache[g])
      BY <1>1, <3>1 DEF LookUp, Resolving
    <3>2. CASE ~Fresh(cache[g])
      BY <3>2 DEF LookUp
    <3> QED BY <3>1, <3>2
  <2> QED BY <1>1, <2>1 DEF EntitledInv, WorkEntitled, Grown
<1>3. \A h \in Groups : cache'[h].members \in {cache[h].members, {}}
  BY DEF LookUp, NotCached, EntitledInv, Typed
<1>4. StoredEntitled'
  BY <1>3, SubjectsStay, BindingsStay, CacheStays DEF StoredEntitled, LookUp, informers
<1>5. CASE Fresh(cache[g])
  <2>1. cache[g].members \subseteq Ever(work.b)
    BY <1>1, <1>2, MembersCount DEF EntitledInv, Typed, StoredEntitled, Entry
  <2>2. /\ work'.pc = "resolve" /\ work'.out = work.out \cup cache[g].members
        /\ work'.todo = work.todo \ {g}
    BY <1>1, <1>5 DEF LookUp, Resolving
  <2> QED BY <1>2, <1>4, <2>1, <2>2 DEF WorkEntitled
<1>6. CASE ~Fresh(cache[g])
  <2>1. /\ work'.pc = "list" /\ work'.out = work.out /\ work'.todo = work.todo \ {g}
        /\ work'.group = g /\ work'.got = {}
    BY <1>6 DEF LookUp
  <2> QED BY <1>1, <1>2, <1>4, <2>1 DEF WorkEntitled
<1> QED BY <1>5, <1>6

LEMMA ListPageEntitled ==
  ASSUME EntitledInv, Grown, ListPage
  PROVE  StoredEntitled' /\ WorkEntitled'
<1> DEFINE got == work.got \cup Page(work.group, work.token)
<1>1. /\ work \in Listing /\ work.pc = "list" /\ work.b \in Bindings /\ work.group \in Groups
      /\ work.out \subseteq Ever(work.b) /\ work.todo \subseteq EverGroups(work.b)
      /\ work.group \in EverGroups(work.b) /\ work.got \subseteq everIn[work.group]
  BY WorkKinds DEF EntitledInv, Typed, ListPage, Listing, WorkEntitled
<1>2. got \subseteq everIn[work.group] /\ got \in SUBSET Users
  <2>1. Page(work.group, work.token) \subseteq members[work.group]
    BY PageOfGroup
  <2> QED BY <1>1, <2>1 DEF EntitledInv, StoredEntitled, Typed, Listing
<1>3. UNCHANGED <<members, drb, drbSeen, rb, others>>
  BY DEF ListPage, informers
<1>4. work'.b = work.b
  <2>1. CASE Listed(got)
    BY <2>1 DEF Listed
  <2>2. CASE ~Listed(got)
    BY <1>1, <2>2 DEF ListPage, Listing
  <2> QED BY <2>1, <2>2
<1>5. Ever(work.b) \subseteq Ever(work.b)' /\ EverGroups(work.b) \subseteq EverGroups(work.b)'
  BY <1>1, <1>4 DEF Grown
<1> HIDE DEF got
<1>6. CASE Listed(got)
  <2>1. got \subseteq Ever(work.b)
    BY <1>1, <1>2, MembersCount
  <2>2. work'.pc = "resolve" /\ work'.out = work.out \cup got /\ work'.todo = work.todo
    BY <1>6 DEF Listed
  <2>3. \A g \in Groups : cache'[g].members \subseteq everIn[g]
    BY <1>2, <1>6 DEF Listed, Cached, EntitledInv, StoredEntitled, Typed
  <2>4. \A g \in Groups : everIn[g] \subseteq everIn'[g] /\ members'[g] \subseteq everIn'[g]
    BY DEF Grown
  <2>5. StoredEntitled'
    BY <1>3, <2>3, <2>4, SubjectsStay, BindingsStay DEF StoredEntitled
  <2> QED BY <1>1, <1>5, <2>1, <2>2, <2>5 DEF WorkEntitled
<1>7. CASE ~Listed(got)
  <2>1. /\ work'.pc = "list" /\ work'.got = got /\ work'.out = work.out
        /\ work'.todo = work.todo /\ work'.group = work.group /\ cache' = cache
    BY <1>1, <1>7 DEF ListPage, Listing, got
  <2>2. got \subseteq everIn'[work.group]
    BY <1>1, <1>2 DEF Grown
  <2>3. StoredEntitled'
    BY <1>3, <2>1, SubjectsStay, BindingsStay, CacheStays DEF StoredEntitled
  <2> QED BY <1>1, <1>5, <2>1, <2>2, <2>3 DEF WorkEntitled
<1> QED BY <1>6, <1>7

LEMMA ListErrorEntitled ==
  ASSUME EntitledInv, Grown, ListError
  PROVE  StoredEntitled' /\ WorkEntitled'
<1>1. work' = Idle /\ UNCHANGED <<members, drb, drbSeen, rb, cache, others>>
  BY DEF ListError, ListFails, Fail, Finish, informers
<1>2. StoredEntitled'
  BY <1>1, SubjectsStay, BindingsStay, CacheStays DEF StoredEntitled
<1> QED BY <1>1, <1>2 DEF Idle, WorkEntitled

LEMMA WriteErrorEntitled ==
  ASSUME EntitledInv, Grown, WriteError
  PROVE  StoredEntitled' /\ WorkEntitled'
<1>1. work' = Idle /\ UNCHANGED <<members, drb, drbSeen, cache, others>>
  BY DEF WriteError, Fail, Finish
<1>2. \A b \in Bindings : \/ rb'[b] = rb[b] \/ rb'[b].subjects = {}
                          \/ b = work.b /\ rb'[b].subjects \subseteq Ever(b)
  <2>1. CASE work.pc = "create"
    BY <2>1 DEF WriteError, Written, NewRoleBinding, RoleBinding, EntitledInv, Typed
  <2>2. CASE work.pc = "resolve"
    <3>1. work.out \in SUBSET Users /\ work.copy \in Bound /\ work.out \subseteq Ever(work.b)
      BY <2>2, WorkKinds DEF EntitledInv, Typed, Resolving, WorkEntitled
    <3>2. [work.copy EXCEPT !.subjects = work.out].subjects = work.out
      BY <3>1, SubjectsTyped
    <3> QED BY <2>2, <3>1, <3>2 DEF WriteError, Written, EntitledInv, Typed
  <2> QED BY <2>1, <2>2 DEF WriteError
<1>3. \A b \in Bindings : rb'[b].subjects \subseteq Ever(b)' \cup others'[b]
  BY <1>1, <1>2, SubjectsStay DEF Grown
<1>4. StoredEntitled'
  BY <1>1, <1>3, BindingsStay, CacheStays DEF StoredEntitled
<1> QED BY <1>1, <1>4 DEF Idle, WorkEntitled

LEMMA UpdateEntitled ==
  ASSUME EntitledInv, Grown, UpdateRoleBinding
  PROVE  StoredEntitled' /\ WorkEntitled'
<1>1. /\ work \in Resolving /\ work.pc = "resolve" /\ work.b \in Bindings
      /\ work.out \subseteq Ever(work.b)
  BY WorkKinds DEF EntitledInv, Typed, UpdateRoleBinding, Resolving, WorkEntitled
<1>2. work' = Idle
  BY DEF UpdateRoleBinding, Fail, Finish
<1>3. \A b \in Bindings : rb'[b] = rb[b] \/ (b = work.b /\ rb'[b].subjects = work.out)
  <2>1. CASE rb' = rb
    BY <2>1
  <2>2. CASE Written(work.b, [work.copy EXCEPT !.subjects = work.out])
    <3>1. [work.copy EXCEPT !.subjects = work.out].subjects = work.out
      BY <1>1, SubjectsTyped DEF Resolving
    <3> QED BY <2>2, <3>1 DEF Written, EntitledInv, Typed
  <2> QED BY <2>1, <2>2 DEF UpdateRoleBinding
<1>4. \A b \in Bindings : rb'[b].subjects \subseteq Ever(b)' \cup others'[b]
  BY <1>1, <1>3, SubjectsStay DEF UpdateRoleBinding, Grown
<1>5. StoredEntitled'
  BY <1>4, BindingsStay, CacheStays DEF StoredEntitled, UpdateRoleBinding
<1> QED BY <1>2, <1>5 DEF Idle, WorkEntitled

LEMMA ReconcileEntitled ==
  ASSUME EntitledInv, Grown, NEW b \in Bindings, Reconcile(b)
  PROVE  StoredEntitled' /\ WorkEntitled'
BY StartEntitled, GetEntitled, CreateEntitled, LookUpEntitled, ListPageEntitled, UpdateEntitled
   DEF Reconcile

-----------------------------------------------------------------------------
(* Nor does anyone else give a role that is not on their own account *)

LEMMA TriggerEntitled ==
  ASSUME EntitledInv, Grown, NEW b \in Bindings, Trigger(b)
  PROVE  StoredEntitled' /\ WorkEntitled'
<1>1. UNCHANGED <<members, drb, rb, cache, work, others>>
  BY DEF Trigger, SyncBinding, SyncRoleBinding, TimerFires
<1>2. \A c \in Bindings : drbSeen'[c] \in {drbSeen[c], drb[c]}
  BY DEF Trigger, SyncBinding, SyncRoleBinding, TimerFires, informers, EntitledInv, Typed
<1>3. StoredEntitled'
  BY <1>1, <1>2, SubjectsStay, BindingsStay, CacheStays DEF StoredEntitled
<1> QED BY <1>1, <1>3, WorkStays

LEMMA TickEntitled ==
  ASSUME EntitledInv, Grown, Tick
  PROVE  StoredEntitled' /\ WorkEntitled'
<1>1. UNCHANGED <<members, drb, drbSeen, rb, others>>
  BY DEF Tick, informers
<1>2. ASSUME NEW g \in Groups PROVE cache'[g].members = cache[g].members
  <2>1. cache[g] \in Entry
    BY DEF EntitledInv, Typed
  <2>2. cache'[g] = IF cache[g].cached THEN [cache[g] EXCEPT !.age = AtMost(TTL, @ + 1)]
                    ELSE cache[g]
    BY DEF Tick
  <2>3. [cache[g] EXCEPT !.age = AtMost(TTL, @ + 1)].members = cache[g].members
    BY <2>1 DEF Entry
  <2> QED BY <2>2, <2>3
<1>3. StoredEntitled'
  BY <1>1, <1>2, SubjectsStay, BindingsStay, CacheStays DEF StoredEntitled
<1>4. CASE work.pc = "list"
  <2>1. /\ work \in Listing /\ work.b \in Bindings /\ work.group \in Groups
        /\ work.out \subseteq Ever(work.b) /\ work.todo \subseteq EverGroups(work.b)
        /\ work.group \in EverGroups(work.b) /\ work.got \subseteq everIn[work.group]
    BY <1>4, WorkKinds DEF EntitledInv, Typed, Listing, WorkEntitled
  <2>2. /\ work'.pc = "list" /\ work'.b = work.b /\ work'.out = work.out
        /\ work'.todo = work.todo /\ work'.group = work.group /\ work'.got = work.got
    BY <1>4, <2>1 DEF Tick, Listing
  <2>3. /\ Ever(work.b) \subseteq Ever(work.b)' /\ EverGroups(work.b) \subseteq EverGroups(work.b)'
        /\ everIn[work.group] \subseteq everIn'[work.group]
    BY <2>1, <2>2 DEF Grown
  <2> QED BY <1>3, <2>1, <2>2, <2>3 DEF WorkEntitled
<1>5. CASE work.pc # "list"
  BY <1>3, <1>5, WorkStays DEF Tick
<1> QED BY <1>4, <1>5

LEMMA RestartEntitled ==
  ASSUME EntitledInv, Grown, Restart
  PROVE  StoredEntitled' /\ WorkEntitled'
<1>1. UNCHANGED <<members, drb, rb, others>> /\ drbSeen' = drb /\ work' = Idle
  BY DEF Restart, Finish
<1>2. \A g \in Groups : cache'[g].members = {}
  BY DEF Restart, NotCached
<1>3. StoredEntitled'
  BY <1>1, <1>2, SubjectsStay, BindingsStay, CacheStays DEF StoredEntitled
<1> QED BY <1>1, <1>3 DEF Idle, WorkEntitled

LEMMA EnvironmentEntitled ==
  ASSUME EntitledInv, Grown,
         \/ \E g \in Groups : ChangeGroup(g)
         \/ \E b \in Bindings : BindingChanges(b)
  PROVE  StoredEntitled' /\ WorkEntitled'
<1>1. UNCHANGED <<drbSeen, rb, cache, work, others>>
  BY DEF ChangeGroup, BindingChanges, CreateBinding, EditBinding, DeleteBinding, RemoveBinding,
         StoreBinding, informers
<1>2. StoredEntitled'
  BY <1>1, SubjectsStay, BindingsStay, CacheStays DEF StoredEntitled
<1> QED BY <1>1, <1>2, WorkStays

LEMMA OthersEntitled ==
  ASSUME EntitledInv, Grown, "ever" \in Tracked, NEW b \in Bindings,
         Collect(b) \/ EditRoleBinding(b)
  PROVE  StoredEntitled' /\ WorkEntitled' /\ others' \in [Bindings -> SUBSET Users]
<1>1. PICK new \in Bound : WrittenByOthers(b, new)
  BY OthersWrite DEF EntitledInv
<1>2. UNCHANGED <<members, drb, drbSeen, cache>>
  BY OthersWrite DEF EntitledInv
<1>3. new.subjects \subseteq Users
  BY DEF Bound
<1>4. others' = [others EXCEPT ![b] = @ \cup new.subjects] /\ rb' = [rb EXCEPT ![b] = new]
  BY <1>1 DEF WrittenByOthers, Written
<1>5. others' \in [Bindings -> SUBSET Users]
  BY <1>3, <1>4 DEF EntitledInv, Histories
<1>6. /\ others'[b] = others[b] \cup new.subjects /\ rb'[b] = new
      /\ \A c \in Bindings \ {b} : others'[c] = others[c] /\ rb'[c] = rb[c]
  BY <1>4 DEF EntitledInv, Histories, Typed
<1>7. \A c \in Bindings : rb'[c].subjects \subseteq Ever(c)' \cup others'[c]
  BY <1>6, SubjectsStay
<1>8. StoredEntitled'
  BY <1>2, <1>7, BindingsStay, CacheStays DEF StoredEntitled
<1>9. CASE work.pc \in {"resolve", "list"} /\ work.b = b
  <2>1. work' = [work EXCEPT !.current = FALSE]
    BY <1>1, <1>9 DEF WrittenByOthers
  <2>2. /\ work'.pc = work.pc /\ work'.b = b /\ work'.out = work.out /\ work'.todo = work.todo
        /\ work.pc = "list" => work'.group = work.group /\ work'.got = work.got
    <3>1. CASE work.pc = "resolve"
      BY <1>9, <2>1, <3>1, WorkKinds DEF EntitledInv, Typed, Resolving
    <3>2. CASE work.pc = "list"
      BY <1>9, <2>1, <3>2, WorkKinds DEF EntitledInv, Typed, Listing
    <3> QED BY <1>9, <3>1, <3>2
  <2>3. /\ work.out \subseteq Ever(b) /\ work.todo \subseteq EverGroups(b)
        /\ work.pc = "list" => work.group \in EverGroups(b) /\ work.got \subseteq everIn[work.group]
        /\ work.pc = "list" => work.group \in Groups
    BY <1>9, WorkKinds DEF EntitledInv, Typed, WorkEntitled, Listing
  <2>4. /\ Ever(work.b) \subseteq Ever(work.b)' /\ EverGroups(work.b) \subseteq EverGroups(work.b)'
    BY <1>9, <2>2 DEF Grown
  <2>5. work.pc = "list" => everIn[work.group] \subseteq everIn'[work.group]
    BY <2>3 DEF Grown
  <2>6. WorkEntitled'
    BY <1>9, <2>2, <2>3, <2>4, <2>5 DEF WorkEntitled
  <2> QED BY <1>5, <1>8, <2>6
<1>10. CASE ~(work.pc \in {"resolve", "list"} /\ work.b = b)
  <2>1. work' = work
    BY <1>1, <1>10 DEF WrittenByOthers
  <2> QED BY <1>5, <1>8, <2>1, WorkStays
<1> QED BY <1>9, <1>10

-----------------------------------------------------------------------------
LEMMA EntitledInit == Init => EntitledInv
<1> SUFFICES ASSUME Init PROVE EntitledInv
  OBVIOUS
<1>1. Typed
  BY InitTyped
<1>2. Histories
  BY <1>1 DEF Init, Histories, Typed, Stored
<1>3. StoredEntitled
  BY DEF Init, StoredEntitled, NotCached, NoRoleBinding
<1>4. WorkEntitled
  BY DEF Init, WorkEntitled, Idle
<1> QED BY <1>1, <1>2, <1>3, <1>4 DEF EntitledInv

LEMMA EntitledNext ==
  ASSUME EntitledInv, Next, "ever" \in Tracked
  PROVE  EntitledInv'
<1>1. Typed'
  BY NextTyped DEF EntitledInv
<1>2. Remember
  BY DEF Next, Quietly, Passing, Disturbing
<1>3. Grown /\ everSpec' \in [Bindings -> SUBSET Specs]
  BY <1>1, <1>2, Growth DEF EntitledInv
<1>4. others' = others => Histories'
  BY <1>3 DEF EntitledInv, Histories
<1>5. ASSUME NEW b \in Bindings, Reconcile(b) \/ Trigger(b) PROVE EntitledInv'
  <2>1. others' = others
    BY <1>5 DEF Reconcile, Trigger, Start, GetRoleBinding, CreateRoleBinding, LookUp, ListPage,
                UpdateRoleBinding, SyncBinding, SyncRoleBinding, TimerFires
  <2> QED BY <1>1, <1>3, <1>4, <1>5, <2>1, ReconcileEntitled, TriggerEntitled DEF EntitledInv
<1>6. ASSUME NEW b \in Bindings, BindingChanges(b) PROVE EntitledInv'
  <2>1. others' = others
    BY <1>6 DEF BindingChanges, CreateBinding, EditBinding, DeleteBinding, RemoveBinding,
                StoreBinding
  <2> QED BY <1>1, <1>3, <1>4, <1>6, <2>1, EnvironmentEntitled DEF EntitledInv
<1>7. ASSUME NEW g \in Groups, ChangeGroup(g) PROVE EntitledInv'
  <2>1. others' = others
    BY <1>7 DEF ChangeGroup
  <2> QED BY <1>1, <1>3, <1>4, <1>7, <2>1, EnvironmentEntitled DEF EntitledInv
<1>8. ASSUME NEW b \in Bindings, Collect(b) \/ EditRoleBinding(b) PROVE EntitledInv'
  <2>1. Histories'
    BY <1>3, <1>8, OthersEntitled DEF Histories
  <2> QED BY <1>1, <1>3, <1>8, <2>1, OthersEntitled DEF EntitledInv
<1>9. CASE ListError \/ WriteError \/ Tick \/ Restart
  <2>1. others' = others
    BY <1>9 DEF ListError, WriteError, Tick, Restart
  <2> QED BY <1>1, <1>3, <1>4, <1>9, <2>1, ListErrorEntitled, WriteErrorEntitled, TickEntitled,
             RestartEntitled
          DEF EntitledInv
<1> QED BY <1>5, <1>6, <1>7, <1>8, <1>9 DEF Next, Quietly, Passing, Disturbing, BindingChanges

LEMMA EntitledStutters == EntitledInv /\ UNCHANGED vars => EntitledInv'
<1> SUFFICES ASSUME EntitledInv, UNCHANGED vars PROVE EntitledInv'
  OBVIOUS
<1>1. Typed'
  BY NextTyped DEF EntitledInv
<1> QED BY <1>1 DEF EntitledInv, Histories, StoredEntitled, WorkEntitled, Ever, EverGroups, vars,
                    history, informers

\* A RoleBinding gives its role to nobody whom no version of its binding has named, directly
\* or by a group, unless another writer did: nothing leaks through the cache, the worker or
\* the informers.
THEOREM OnlyNamedUsers ==
  ASSUME "ever" \in Tracked
  PROVE  Spec => []OnlyEntitled
<1>1. EntitledInv /\ [Next]_vars => EntitledInv'
  BY EntitledNext, EntitledStutters
<1>2. EntitledInv => OnlyEntitled
  BY DEF EntitledInv, StoredEntitled, Ever, OnlyEntitled
<1> QED BY <1>1, <1>2, EntitledInit, PTL DEF Spec

-----------------------------------------------------------------------------
(* What a page leaves out *)

\* The least of a set of numbers.
LEMMA LeastOf ==
  ASSUME NEW S \in SUBSET Nat, S # {}
  PROVE  \E w \in S : \A v \in S : w <= v
<1>1. IsWellFoundedOn(OpToRel(<, Nat), Nat)
  BY NatLessThanWellFounded
<1>2. PICK w \in S : \A v \in S : ~ (<<v, w>> \in OpToRel(<, Nat))
  BY <1>1, WFMin
<1>3. \A v \in S : ~(v < w)
  BY <1>2 DEF OpToRel
<1> QED BY <1>3

\* The greatest of what a bound keeps finite.
LEMMA GreatestOf ==
  ASSUME NEW S \in SUBSET Nat, S # {}, NEW w \in Nat, \A v \in S : v < w
  PROVE  \E t \in S : \A v \in S : v <= t
<1> DEFINE U == {n \in Nat : \A v \in S : v <= n}
<1>1. w \in U
  OBVIOUS
<1>2. PICK t \in U : \A n \in U : t <= n
  BY <1>1, LeastOf
<1>3. t \in S
  <2> SUFFICES ASSUME t \notin S PROVE FALSE
    OBVIOUS
  <2>1. \A v \in S : v <= t - 1
    BY <1>2
  <2>2. PICK v \in S : TRUE
    OBVIOUS
  <2>3. t - 1 \in Nat
    BY <1>2, <2>1, <2>2
  <2>4. t - 1 \in U
    BY <2>1, <2>3
  <2> QED BY <1>2, <2>4
<1> QED BY <1>2, <1>3

\* The users up to one of them, as far as the directory has listed.
UpTo(token) == {v \in Users : v <= token}

LEMMA UpToFinite ==
  ASSUME NEW token \in Nat
  PROVE  /\ IsFiniteSet(UpTo(token)) /\ Cardinality(UpTo(token)) \in Nat
         /\ Cardinality(UpTo(token)) <= Cardinality(Users) /\ Cardinality(Users) \in Nat
<1>1. IsFiniteSet(Users) /\ UpTo(token) \in SUBSET Users
  BY UsersAssumption DEF UpTo
<1>2. IsFiniteSet(UpTo(token)) /\ Cardinality(UpTo(token)) <= Cardinality(Users)
  BY <1>1, FS_Subset
<1> QED BY <1>1, <1>2, FS_CardinalityType

\* A page that is not the last is full, and the users up to its last one outnumber those
\* before it by a page, and are not all.
LEMMA FullPage ==
  ASSUME NEW g, members[g] \subseteq Users, NEW token \in Nat,
         Page(g, token) # After(g, token)
  PROVE  \E t \in Page(g, token) :
           /\ t > token /\ \A v \in Page(g, token) : v <= t
           /\ \A v \in After(g, token) : v <= t => v \in Page(g, token)
           /\ Cardinality(UpTo(token)) + PerPage <= Cardinality(UpTo(t))
           /\ Cardinality(UpTo(t)) < Cardinality(Users)
<1> DEFINE after == After(g, token)
           page == Page(g, token)
           before(u) == {v \in after : v < u}
<1>1. after \subseteq Users /\ page \subseteq after /\ IsFiniteSet(after) /\ after \subseteq Nat
  BY UsersAssumption, FS_Subset DEF After, Page
<1>2. \A u \in after : u \in page <=> Cardinality(before(u)) < PerPage
  BY DEF Page
<1>3. PICK w \in after \ page : \A v \in after \ page : w <= v
  <2>1. after \ page # {} /\ after \ page \in SUBSET Nat
    BY <1>1
  <2> HIDE DEF after, page
  <2> QED BY <2>1, LeastOf
<1>4. page = before(w)
  <2>1. before(w) \subseteq page
    BY <1>1, <1>3
  <2>2. ASSUME NEW v \in page PROVE v < w
    <3> SUFFICES ASSUME v >= w PROVE FALSE
      BY <1>1, <1>3
    <3>1. before(w) \subseteq before(v)
      BY <1>1, <1>3
    <3>2. IsFiniteSet(before(v))
      BY <1>1, FS_Subset
    <3>3. Cardinality(before(w)) <= Cardinality(before(v)) /\ Cardinality(before(v)) \in Nat
          /\ Cardinality(before(w)) \in Nat
      BY <3>1, <3>2, FS_Subset, FS_CardinalityType
    <3>4. Cardinality(before(v)) < PerPage
      BY <1>1, <1>2
    <3>5. Cardinality(before(w)) < PerPage
      BY <3>3, <3>4, PagesAssumption
    <3> QED BY <1>2, <1>3, <3>5
  <2> QED BY <1>1, <2>1, <2>2
<1>5. IsFiniteSet(page) /\ Cardinality(page) \in Nat /\ Cardinality(page) >= PerPage
  <2>1. IsFiniteSet(page) /\ Cardinality(page) \in Nat
    BY <1>1, FS_Subset, FS_CardinalityType
  <2>2. ~(Cardinality(page) < PerPage)
    BY <1>2, <1>3, <1>4
  <2> QED BY <2>1, <2>2, PagesAssumption
<1>6. PICK t \in page : \A v \in page : v <= t
  <2>1. page # {}
    BY <1>5, FS_EmptySet, PagesAssumption
  <2>2. w \in Nat /\ page \in SUBSET Nat /\ \A v \in page : v < w
    BY <1>1, <1>3, <1>4
  <2> HIDE DEF page
  <2> QED BY <2>1, <2>2, GreatestOf
<1>7. t \in Nat /\ t > token /\ w \in Nat /\ t < w /\ t \in Users /\ w \in Users
  BY <1>1, <1>3, <1>4, <1>6 DEF After
<1>8. \A v \in after : v <= t => v \in page
  BY <1>1, <1>4, <1>7
<1>9. Cardinality(UpTo(token)) + PerPage <= Cardinality(UpTo(t))
  <2>1. UpTo(token) \cup page \subseteq UpTo(t) /\ UpTo(token) \cap page = {}
    <3>1. \A v \in page : v \in Users /\ v \in Nat /\ v > token /\ v <= t
      BY <1>1, <1>6 DEF After
    <3>2. \A v \in UpTo(token) : v \in Users /\ v \in Nat /\ v <= token
      BY UsersAssumption DEF UpTo
    <3>3. \A v \in UpTo(token) : v <= t /\ v \notin page
      BY <1>7, <3>1, <3>2
    <3> HIDE DEF page
    <3> QED BY <3>1, <3>2, <3>3 DEF UpTo
  <2>2. IsFiniteSet(UpTo(token)) /\ IsFiniteSet(UpTo(t)) /\ Cardinality(UpTo(token)) \in Nat
        /\ Cardinality(UpTo(t)) \in Nat
    BY <1>7, UpToFinite
  <2>3. Cardinality(UpTo(token) \cup page) = Cardinality(UpTo(token)) + Cardinality(page)
    <3>1. Cardinality(UpTo(token) \cap page) = 0
      BY <2>1, FS_EmptySet
    <3>2. Cardinality(UpTo(token) \cup page)
            = Cardinality(UpTo(token)) + Cardinality(page) - Cardinality(UpTo(token) \cap page)
      BY <1>5, <2>2, FS_Union
    <3> QED BY <1>5, <2>2, <3>1, <3>2
  <2>4. Cardinality(UpTo(token) \cup page) <= Cardinality(UpTo(t))
    BY <2>1, <2>2, FS_Subset
  <2> HIDE DEF page
  <2> QED BY <1>5, <2>2, <2>3, <2>4, PagesAssumption
<1>10. Cardinality(UpTo(t)) < Cardinality(Users)
  <2>1. UpTo(t) \in SUBSET Users /\ UpTo(t) # Users
    BY <1>7 DEF UpTo
  <2>2. Cardinality(UpTo(t)) # Cardinality(Users)
    BY <2>1, UsersAssumption, FS_Subset
  <2> QED BY <1>7, <2>2, UpToFinite
<1> QED BY <1>6, <1>7, <1>8, <1>9, <1>10

-----------------------------------------------------------------------------
(* What is wrong, and for how long it may have been *)

Live(b) == drb[b].state = "live"

\* What SettledAccess excludes once a change is old enough.
Wrong(b, u) == ~(rb[b].exists /\ (u \in rb[b].subjects <=> u \in Entitled(b)))

Used == UNION {spec.groups : spec \in Specs}

Counted == settled \in [Bindings -> [Users -> Nat]] /\ failures \in 0..MaxFailures

\* An informer is never ahead, and a binding that lives is live in every version of its uid.
Versions ==
  \A b \in Bindings :
    /\ drbSeen[b].uid <= drb[b].uid
    /\ Live(b) /\ drbSeen[b].uid = drb[b].uid => drbSeen[b].state = "live"

\* Something will have a live binding reconciled.
Scheduled ==
  \A b \in Bindings : Live(b) =>
    \/ b \in queue \/ timer[b] >= 0 \/ drbSeen[b].uid # drb[b].uid
    \/ work # Idle /\ work.b = b

\* A listing that the cache would still use, or one that is under way, is wrong about a user
\* only if the change is no older than the listing.
EntryWrong(b, u, g) ==
  /\ g \in drb[b].spec.groups /\ u \notin drb[b].spec.users
  /\ Fresh(cache[g]) /\ ~(u \in cache[g].members <=> u \in members[g])

CacheInTime ==
  \A b \in Bindings, u \in Users, g \in Groups :
    Live(b) /\ EntryWrong(b, u, g) => settled[b][u] <= cache[g].age + MaxListing

GotWrong(b, u) ==
  /\ work.group \in drb[b].spec.groups /\ u \notin drb[b].spec.users
  /\ u <= work.token /\ ~(u \in work.got <=> u \in members[work.group])

ListingInTime ==
  work.pc = "list" => \A b \in Bindings, u \in Users :
                        Live(b) /\ GotWrong(b, u) => settled[b][u] <= work.spent

ListingSound ==
  work.pc = "list" =>
    /\ work.group \in Used /\ ~cache[work.group].cached /\ work.spent <= MaxListing
    /\ work.token \in Nat /\ \A u \in work.got : u <= work.token
    /\ work.pages < GoogleMaxPages /\ work.pages * PerPage <= Cardinality(UpTo(work.token))

\* The groups that the worker has yet to add.
Coming == IF work.pc = "list" THEN work.todo \cup {work.group} ELSE work.todo

\* The worker will write the right thing about a user, if what it is still to add is right.
OnCourse(u) ==
  /\ Coming \subseteq drb[work.b].spec.groups
  /\ u \in work.out => u \in Resolved(drb[work.b].spec)
  /\ u \in drb[work.b].spec.users => u \in work.out
  /\ \A g \in drb[work.b].spec.groups : u \in members[g] => u \in work.out \/ g \in Coming

Working == work.pc \in {"resolve", "list"}

WorkSound ==
  Working => /\ work.todo \subseteq Used /\ work.copy.exists
             /\ work.current => rb[work.b] = work.copy

WorkInTime(n) ==
  Working /\ Live(work.b) =>
    \A u \in Users : ~OnCourse(u) \/ (~work.current /\ Wrong(work.b, u)) => settled[work.b][u] <= n

\* What the informers and the worker have not seen yet is as recent.
SeenInTime(n) ==
  \A b \in Bindings, u \in Users : Live(b) =>
    /\ drbSeen[b].spec # drb[b].spec => settled[b][u] <= n
    /\ ~rbSeen[b].current /\ rbSeen[b].rb.exists /\ Wrong(b, u) => settled[b][u] <= n

TakenInTime(n) ==
  work.pc \in {"get", "create"} /\ Live(work.b) /\ work.spec # drb[work.b].spec
    => \A u \in Users : settled[work.b][u] <= n

\* A RoleBinding that is wrong is so for the time that the timer has run, and for as long as
\* a reconciliation before it may have relied on an older listing.
DueInTime(base, spent) ==
  \A b \in Bindings, u \in Users : Live(b) /\ Wrong(b, u) =>
    settled[b][u] <= base + MaxListing + Refresh + (IF timer[b] > 0 THEN -timer[b] ELSE spent)

Base == TTL - 1 + failures * MaxListing

\* The time that the listing of this moment has taken, or that the cache may have saved.
Spent ==
  IF work.pc = "list" THEN work.spent
  ELSE IF \A g \in Used : Fresh(cache[g]) THEN MaxListing ELSE 0

InTime(base, spent) ==
  /\ CacheInTime /\ ListingInTime /\ ListingSound /\ WorkSound
  /\ WorkInTime(base + spent) /\ SeenInTime(base + spent) /\ TakenInTime(base + spent)
  /\ DueInTime(base, spent)

\* The bounds only grow in a step that takes no time.
Onward(base, spent, base2, spent2) ==
  /\ base \in Nat /\ spent \in Nat /\ base2 \in Nat /\ spent2 \in Nat
  /\ spent <= MaxListing /\ spent2 <= MaxListing
  /\ base <= base2 /\ base + spent <= base2 + spent2

-----------------------------------------------------------------------------
(* What a step leaves unsettled *)

\* A live binding and a user whose access the step does not change.
Lasting(b, u) == Live(b)' /\ settled'[b][u] > 0

Kept(b, u) ==
  /\ drb'[b] = drb[b]
  /\ u \in Resolved(drb[b].spec)' <=> u \in Resolved(drb[b].spec)
  /\ u \in drb[b].spec.users \/ \A g \in drb[b].spec.groups : u \in members'[g] <=> u \in members[g]

Ageing(ticks) ==
  \A b \in Bindings, u \in Users :
    /\ settled'[b][u] \in Nat /\ settled[b][u] \in Nat
    /\ Lasting(b, u) => /\ settled'[b][u] <= settled[b][u] + ticks
                        /\ Kept(b, u) /\ Live(b) 

LEMMA AgeSettles ==
  ASSUME Typed, Counted, NEW ticks \in Nat, NEW disturbed, Age(ticks, disturbed),
         \A b \in Bindings : b \in disturbed \/ drb'[b] = drb[b] \/ ~Live(b)'
  PROVE  /\ settled' \in [Bindings -> [Users -> Nat]] /\ Ageing(ticks)
         /\ \A b \in disturbed \cap Bindings, u \in Users : ~Lasting(b, u)
<1> DEFINE after(b, u) ==
      IF "settled" \notin Tracked \/ b \in disturbed \/ Regrouped(b, u) THEN 0
      ELSE AtMost(Horizon, settled[b][u] + ticks)
<1>1. settled' = [b \in Bindings |-> [u \in Users |-> after(b, u)]]
  BY DEF Age
<1>2. ASSUME NEW b \in Bindings, NEW u \in Users
      PROVE  /\ after(b, u) \in Nat /\ settled[b][u] \in Nat
             /\ after(b, u) > 0 => /\ after(b, u) <= settled[b][u] + ticks
                                   /\ b \notin disturbed /\ ~Regrouped(b, u)
  <2>1. settled[b][u] \in Nat
    BY DEF Counted
  <2>2. AtMost(Horizon, settled[b][u] + ticks) \in Nat
        /\ AtMost(Horizon, settled[b][u] + ticks) <= settled[b][u] + ticks
    BY <2>1, TimesAssumption DEF AtMost
  <2> QED BY <2>1, <2>2
<1>3. ASSUME NEW b \in Bindings, NEW u \in Users PROVE settled'[b][u] = after(b, u)
  BY <1>1
<1> HIDE DEF after
<1>4. settled' \in [Bindings -> [Users -> Nat]]
  BY <1>1, <1>2
<1>5. ASSUME NEW b \in Bindings, NEW u \in Users, Lasting(b, u)
      PROVE  Kept(b, u) /\ Live(b)
  <2>1. drb'[b] = drb[b] /\ ~Regrouped(b, u) /\ Live(b)
    BY <1>2, <1>3, <1>5 DEF Lasting, Live
  <2>2. u \in drb[b].spec.users \/ \A g \in drb[b].spec.groups : u \in members'[g] <=> u \in members[g]
    BY <2>1 DEF Regrouped
  <2> QED BY <2>1, <2>2 DEF Kept, Resolved
<1> QED BY <1>2, <1>3, <1>4, <1>5 DEF Ageing, Lasting

\* Who is not settled anew is entitled to what they were.
LEMMA StillWrong ==
  ASSUME Ageing(0), NEW b \in Bindings, NEW u \in Users, Lasting(b, u), rb'[b] = rb[b], Wrong(b, u)'
  PROVE  Wrong(b, u)
<1>1. Kept(b, u) /\ Live(b)
  BY DEF Ageing
<1> QED BY <1>1 DEF Kept, Live, Wrong, Entitled

LEMMA CacheKeepsTime ==
  ASSUME Typed, Typed', Ageing(0), CacheInTime,
         \A g \in Groups :
           \/ cache'[g] = cache[g] \/ ~cache'[g].cached
           \/ \A b \in Bindings, u \in Users :
                Lasting(b, u) /\ EntryWrong(b, u, g)' => settled[b][u] <= MaxListing
  PROVE  CacheInTime'
<1> SUFFICES ASSUME NEW b \in Bindings, NEW u \in Users, NEW g \in Groups,
                    Live(b)', EntryWrong(b, u, g)'
             PROVE  settled'[b][u] <= cache'[g].age + MaxListing
  BY DEF CacheInTime
<1>1. cache'[g].age \in Nat /\ cache'[g].cached
  <2>1. cache'[g] \in Entry
    BY DEF Typed
  <2> QED BY <2>1, TimesAssumption DEF EntryWrong, Fresh, Entry, Ages
<1>2. CASE settled'[b][u] > 0
  <2>1. /\ settled'[b][u] <= settled[b][u] /\ settled'[b][u] \in Nat /\ settled[b][u] \in Nat
        /\ Kept(b, u) /\ Live(b) /\ Lasting(b, u)
    BY <1>2 DEF Ageing, Lasting
  <2>2. CASE cache'[g] = cache[g]
    <3>1. EntryWrong(b, u, g)
      BY <2>1, <2>2 DEF EntryWrong, Kept, Fresh
    <3>2. settled[b][u] <= cache[g].age + MaxListing
      BY <2>1, <3>1 DEF CacheInTime
    <3> QED BY <1>1, <2>1, <2>2, <3>2, TimesAssumption
  <2>3. CASE settled[b][u] <= MaxListing
    BY <1>1, <2>1, <2>3, TimesAssumption
  <2> QED BY <1>1, <2>1, <2>2, <2>3
<1>3. CASE ~(settled'[b][u] > 0)
  <2>1. settled'[b][u] \in Nat
    BY DEF Ageing
  <2> QED BY <1>1, <1>3, <2>1, TimesAssumption
<1> QED BY <1>2, <1>3

LEMMA ListingKeepsTime ==
  ASSUME Typed, Typed', Ageing(0), ListingSound, ListingInTime,
         \A g \in Groups : cache'[g] = cache[g] \/ ~cache'[g].cached,
         work'.pc = "list" => /\ work.pc = "list" /\ work'.group = work.group
                              /\ work'.token = work.token /\ work'.got = work.got
                              /\ work'.pages = work.pages /\ work'.spent = work.spent
  PROVE  ListingSound' /\ ListingInTime'
<1> SUFFICES ASSUME work'.pc = "list" PROVE ListingSound' /\ ListingInTime'
  BY DEF ListingSound, ListingInTime
<1>1. /\ work.pc = "list" /\ work'.group = work.group
      /\ work'.token = work.token /\ work'.got = work.got
      /\ work'.pages = work.pages /\ work'.spent = work.spent
  OBVIOUS
<1>2. work \in Listing /\ work.group \in Groups /\ work.spent \in Nat
  BY <1>1, WorkKinds DEF Typed, Listing
<1>3. ListingSound'
  <2>1. ~cache'[work.group].cached
    BY <1>1, <1>2 DEF ListingSound
  <2> QED BY <1>1, <2>1 DEF ListingSound, Used, UpTo
<1>4. ASSUME NEW b \in Bindings, NEW u \in Users, Live(b)', GotWrong(b, u)'
      PROVE  settled'[b][u] <= work'.spent
  <2>1. CASE settled'[b][u] > 0
    <3>1. /\ settled'[b][u] <= settled[b][u] /\ settled'[b][u] \in Nat /\ settled[b][u] \in Nat
          /\ Kept(b, u) /\ Live(b)
      BY <1>4, <2>1 DEF Ageing, Lasting
    <3>2. GotWrong(b, u)
      BY <1>1, <1>4, <3>1 DEF GotWrong, Kept
    <3>3. settled[b][u] <= work.spent
      BY <1>1, <3>1, <3>2 DEF ListingInTime
    <3> QED BY <1>1, <1>2, <3>1, <3>3
  <2>2. CASE ~(settled'[b][u] > 0)
    <3>1. settled'[b][u] \in Nat
      BY DEF Ageing
    <3> QED BY <1>1, <1>2, <2>2, <3>1
  <2> QED BY <2>1, <2>2
<1> QED BY <1>3, <1>4 DEF ListingInTime

LEMMA WorkKeepsTime ==
  ASSUME Typed, Typed', Ageing(0), NEW n \in Nat, NEW m \in Nat, n <= m,
         WorkSound, WorkInTime(n),
         Working' => /\ work'.pc = work.pc /\ work'.b = work.b /\ work'.out = work.out
                     /\ work'.todo = work.todo /\ work'.copy = work.copy
                     /\ work.pc = "list" => work'.group = work.group
                     /\ work'.current => work.current /\ rb'[work.b] = rb[work.b]
                     /\ \A b \in Bindings, u \in Users : b = work.b /\ Lasting(b, u) =>
                          work'.current = work.current /\ rb'[b] = rb[b]
  PROVE  WorkSound' /\ WorkInTime(m)'
<1> SUFFICES ASSUME Working' PROVE WorkSound' /\ WorkInTime(m)'
  BY DEF WorkSound, WorkInTime
<1>1. /\ work'.pc = work.pc /\ work'.b = work.b /\ work'.out = work.out
      /\ work'.todo = work.todo /\ work'.copy = work.copy
      /\ work.pc = "list" => work'.group = work.group
      /\ work'.current => work.current /\ rb'[work.b] = rb[work.b]
  OBVIOUS
<1>2. Working /\ work.b \in Bindings
  <2>1. Working
    BY <1>1 DEF Working
  <2> QED BY <2>1, WorkKinds DEF Typed, Working, Idle
<1>0. PICK b \in Bindings : b = work.b
  BY <1>2
<1>3. WorkSound'
  BY <1>1, <1>2 DEF WorkSound, Used
<1>4. ASSUME NEW u \in Users, Live(b)', ~OnCourse(u)' \/ (~work'.current /\ Wrong(b, u)')
      PROVE  settled'[b][u] <= m
  <2>1. CASE settled'[b][u] > 0
    <3>1. /\ settled'[b][u] <= settled[b][u] /\ settled'[b][u] \in Nat
          /\ settled[b][u] \in Nat
          /\ Kept(b, u) /\ Live(b) /\ Lasting(b, u)
      BY <1>4, <2>1 DEF Ageing, Lasting, Live
    <3>2. work'.current = work.current /\ rb'[b] = rb[b]
      BY <1>0, <3>1
    <3>3. Wrong(b, u)' => Wrong(b, u)
      BY <3>1, <3>2, StillWrong
    <3>4. ~OnCourse(u)' => ~OnCourse(u)
      BY <1>0, <1>1, <3>1 DEF OnCourse, Coming, Kept, Resolved
    <3>5. settled[b][u] <= n
      BY <1>0, <1>2, <1>4, <3>1, <3>2, <3>3, <3>4 DEF WorkInTime, Working
    <3> QED BY <1>1, <3>1, <3>5
  <2>2. CASE ~(settled'[b][u] > 0)
    <3>1. settled'[b][u] \in Nat
      BY <1>2 DEF Ageing
    <3> QED BY <1>1, <2>2, <3>1
  <2> QED BY <2>1, <2>2
<1>5. WorkInTime(m)'
  BY <1>0, <1>1, <1>4 DEF WorkInTime, Live, Wrong
<1> QED BY <1>3, <1>5

LEMMA SeenKeepsTime ==
  ASSUME Typed, Typed', Ageing(0), NEW n \in Nat, NEW m \in Nat, n <= m, SeenInTime(n),
         \A b \in Bindings : drbSeen'[b].spec \in {drbSeen[b].spec, drb'[b].spec},
         \A b \in Bindings, u \in Users :
           Lasting(b, u) /\ ~rbSeen'[b].current /\ rbSeen'[b].rb.exists /\ Wrong(b, u)'
             => \/ settled[b][u] <= n
                \/ ~rbSeen[b].current /\ rbSeen[b].rb.exists /\ rb'[b] = rb[b]
  PROVE  SeenInTime(m)'
<1> SUFFICES ASSUME NEW b \in Bindings, NEW u \in Users, Live(b)',
                    \/ drbSeen'[b].spec # drb'[b].spec
                    \/ ~rbSeen'[b].current /\ rbSeen'[b].rb.exists /\ Wrong(b, u)'
             PROVE  settled'[b][u] <= m
  BY DEF SeenInTime
<1>1. CASE settled'[b][u] > 0
  <2>1. /\ settled'[b][u] <= settled[b][u] /\ settled'[b][u] \in Nat /\ settled[b][u] \in Nat
        /\ Kept(b, u) /\ Live(b) /\ Lasting(b, u)
    BY <1>1 DEF Ageing, Lasting
  <2>2. CASE drbSeen'[b].spec # drb'[b].spec
    <3>1. drbSeen[b].spec # drb[b].spec
      BY <2>1, <2>2 DEF Kept
    <3> QED BY <2>1, <3>1 DEF SeenInTime
  <2>3. CASE ~rbSeen'[b].current /\ rbSeen'[b].rb.exists /\ Wrong(b, u)'
    <3>1. CASE settled[b][u] <= n
      BY <2>1, <3>1
    <3>2. CASE ~rbSeen[b].current /\ rbSeen[b].rb.exists /\ rb'[b] = rb[b]
      <4>1. Wrong(b, u)
        BY <2>1, <2>3, <3>2 DEF Wrong, Entitled, Kept, Live
      <4>2. settled[b][u] <= n
        BY <2>1, <3>2, <4>1 DEF SeenInTime
      <4> QED BY <2>1, <4>2
    <3> QED BY <2>1, <2>3, <3>1, <3>2
  <2> QED BY <2>2, <2>3
<1>2. CASE ~(settled'[b][u] > 0)
  <2>1. settled'[b][u] \in Nat
    BY DEF Ageing
  <2> QED BY <1>2, <2>1
<1> QED BY <1>1, <1>2

LEMMA TakenKeepsTime ==
  ASSUME Typed, Typed', Ageing(0), NEW n \in Nat, NEW m \in Nat, n <= m, TakenInTime(n),
         work'.pc \in {"get", "create"} =>
           work.pc \in {"get", "create"} /\ work'.b = work.b /\ work'.spec = work.spec
  PROVE  TakenInTime(m)'
<1> SUFFICES ASSUME work'.pc \in {"get", "create"}, drb'[work'.b].state = "live",
                    work'.spec # drb'[work'.b].spec,
                    NEW u \in Users
             PROVE  settled'[work'.b][u] <= m
  BY DEF TakenInTime, Live
<1>1. /\ work.pc \in {"get", "create"} /\ work'.b = work.b /\ work'.spec = work.spec
      /\ work.b \in Bindings
  BY WorkKinds DEF Typed, Idle
<1>2. CASE settled'[work.b][u] > 0
  <2>1. /\ settled'[work.b][u] <= settled[work.b][u] /\ settled'[work.b][u] \in Nat
        /\ settled[work.b][u] \in Nat /\ Kept(work.b, u) /\ Live(work.b)
    BY <1>1, <1>2 DEF Ageing, Lasting, Live
  <2>2. settled[work.b][u] <= n
    BY <1>1, <2>1 DEF TakenInTime, Kept
  <2> QED BY <1>1, <2>1, <2>2
<1>3. CASE ~(settled'[work.b][u] > 0)
  <2>1. settled'[work.b][u] \in Nat
    BY <1>1 DEF Ageing
  <2> QED BY <1>1, <1>3, <2>1
<1> QED BY <1>2, <1>3

LEMMA DueKeepsTime ==
  ASSUME Typed, Typed', Ageing(0), NEW base, NEW spent, NEW base2, NEW spent2,
         Onward(base, spent, base2, spent2), DueInTime(base, spent),
         \A b \in Bindings, u \in Users : Lasting(b, u) /\ Wrong(b, u)' =>
           \/ settled[b][u] <= base + spent
           \/ Wrong(b, u) /\ (timer'[b] = timer[b] \/ (timer[b] <= 0 /\ timer'[b] <= 0))
  PROVE  DueInTime(base2, spent2)'
<1> SUFFICES ASSUME NEW b \in Bindings, NEW u \in Users, Live(b)', Wrong(b, u)'
             PROVE  settled'[b][u] <= base2 + MaxListing + Refresh
                                        + (IF timer'[b] > 0 THEN -timer'[b] ELSE spent2)
  BY DEF DueInTime
<1>1. timer[b] \in Int /\ timer[b] <= Refresh /\ timer'[b] \in Int /\ timer'[b] <= Refresh
  BY TimesAssumption DEF Typed, Ticks
<1>2. CASE settled'[b][u] > 0
  <2>1. /\ settled'[b][u] <= settled[b][u] /\ settled'[b][u] \in Nat /\ settled[b][u] \in Nat
        /\ Kept(b, u) /\ Live(b) /\ Lasting(b, u)
    BY <1>2 DEF Ageing, Lasting
  <2>2. CASE settled[b][u] <= base + spent
    BY <1>1, <2>1, <2>2, TimesAssumption DEF Onward
  <2>3. CASE Wrong(b, u) /\ (timer'[b] = timer[b] \/ (timer[b] <= 0 /\ timer'[b] <= 0))
    <3>1. settled[b][u] <= base + MaxListing + Refresh + (IF timer[b] > 0 THEN -timer[b] ELSE spent)
      BY <2>1, <2>3 DEF DueInTime
    <3> QED BY <1>1, <2>1, <2>3, <3>1, TimesAssumption DEF Onward
  <2> QED BY <2>1, <2>2, <2>3
<1>3. CASE ~(settled'[b][u] > 0)
  <2>1. settled'[b][u] \in Nat
    BY DEF Ageing
  <2> QED BY <1>1, <1>3, <2>1, TimesAssumption DEF Onward
<1> QED BY <1>2, <1>3

-----------------------------------------------------------------------------
(* The steps that take no time *)

Instant(base, spent, base2, spent2) ==
  /\ Typed /\ Typed' /\ Ageing(0)
  /\ Onward(base, spent, base2, spent2) /\ InTime(base, spent)

LEMMA InstantBounds ==
  ASSUME NEW base, NEW spent, NEW base2, NEW spent2, Instant(base, spent, base2, spent2)
  PROVE  /\ base + spent \in Nat /\ base2 + spent2 \in Nat /\ base + spent <= base2 + spent2
         /\ Typed /\ Typed' /\ Ageing(0)
         /\ Onward(base, spent, base2, spent2) /\ InTime(base, spent)
BY DEF Instant, Onward

LEMMA LastingInTime ==
  ASSUME Ageing(0), NEW n \in Nat, NEW m \in Nat, n <= m, NEW b \in Bindings, NEW u \in Users,
         Live(b)', Lasting(b, u) => settled[b][u] <= n
  PROVE  settled'[b][u] <= m
<1>1. settled'[b][u] \in Nat /\ settled[b][u] \in Nat
  BY DEF Ageing
<1>2. CASE settled'[b][u] > 0
  <2>1. settled'[b][u] <= settled[b][u] /\ settled[b][u] <= n
    BY <1>2 DEF Ageing, Lasting
  <2> QED BY <1>1, <2>1
<1> QED BY <1>1, <1>2

LEMMA StartInTime ==
  ASSUME NEW base, NEW spent, NEW base2, NEW spent2, Instant(base, spent, base2, spent2),
         NEW b \in Bindings, Start(b)
  PROVE  InTime(base2, spent2)'
<1> DEFINE n == base + spent
           m == base2 + spent2
<1>1. /\ n \in Nat /\ m \in Nat /\ n <= m /\ Typed /\ Typed' /\ Ageing(0)
      /\ Onward(base, spent, base2, spent2) /\ InTime(base, spent)
  BY InstantBounds
<1> HIDE DEF n, m
<1>2. UNCHANGED <<members, drb, rb, drbSeen, rbSeen, timer, cache>>
  BY DEF Start, informers
<1>3. /\ work'.pc \in {"idle", "get"}
      /\ work'.pc = "get" => work'.b = b /\ work'.spec = drbSeen[b].spec
  BY DEF Start, Finish, Idle
<1>4. CacheInTime' /\ ListingSound' /\ ListingInTime' /\ WorkSound' /\ WorkInTime(m)'
  BY <1>1, <1>2, <1>3, CacheKeepsTime, ListingKeepsTime, WorkKeepsTime DEF InTime, Working, n
<1>5. SeenInTime(m)'
  BY <1>1, <1>2, SeenKeepsTime DEF InTime, n
<1>6. DueInTime(base2, spent2)'
  BY <1>1, <1>2, StillWrong, DueKeepsTime DEF InTime
<1>7. TakenInTime(m)'
  <2> SUFFICES ASSUME work'.pc = "get", Live(b)', drbSeen[b].spec # drb[b].spec, NEW u \in Users
               PROVE  settled'[b][u] <= m
    BY <1>2, <1>3 DEF TakenInTime, Live
  <2>1. settled[b][u] <= n
    BY <1>1, <1>2 DEF InTime, SeenInTime, Live, n
  <2> QED BY <1>1, <2>1, LastingInTime
<1> QED BY <1>4, <1>5, <1>6, <1>7 DEF InTime, m

\* The worker starts on course, unless it took an old version of the binding.
LEMMA ResolveInTime ==
  ASSUME NEW base, NEW spent, NEW base2, NEW spent2, Instant(base, spent, base2, spent2),
         work \in Getting, NEW b \in Bindings, work.b = b, NEW copy, NEW current, Resolve(copy, current),
         copy.exists, current => rb'[b] = copy, UNCHANGED <<members, drb>>,
         \A u \in Users : Lasting(b, u) /\ ~current /\ Wrong(b, u)'
           => settled[b][u] <= base + spent
  PROVE  WorkSound' /\ WorkInTime(base2 + spent2)'
<1> DEFINE n == base + spent
           m == base2 + spent2
           spec == work.spec
<1>1. /\ n \in Nat /\ m \in Nat /\ n <= m /\ Typed /\ Typed' /\ Ageing(0)
      /\ Onward(base, spent, base2, spent2) /\ InTime(base, spent)
  BY InstantBounds
<1> HIDE DEF n, m
<1>2. /\ work'.pc = "resolve" /\ work'.b = b /\ work'.copy = copy /\ work'.current = current
      /\ work'.todo = spec.groups /\ work'.out = spec.users
      /\ work.b = b /\ spec \in Specs /\ work.pc \in {"get", "create"}
  BY DEF Resolve, Getting
<1>3. WorkSound'
  BY <1>2 DEF WorkSound, Used
<1>4. ASSUME NEW u \in Users, Live(b)', ~OnCourse(u)' \/ (~work'.current /\ Wrong(b, u)')
      PROVE  settled'[b][u] <= m
  <2>1. ASSUME Lasting(b, u) PROVE settled[b][u] <= n
    <3>1. Live(b)
      BY <1>1, <1>2, <2>1 DEF Ageing
    <3>2. CASE spec # drb[b].spec
      BY <1>1, <1>2, <3>1, <3>2 DEF InTime, TakenInTime, n
    <3>3. CASE spec = drb[b].spec
      <4>1. OnCourse(u)'
        BY <1>2, <3>3 DEF OnCourse, Coming, Resolved
      <4> QED BY <1>2, <1>4, <2>1, <4>1 DEF n
    <3> QED BY <3>2, <3>3
  <2> QED BY <1>1, <1>2, <1>4, <2>1, LastingInTime
<1>5. WorkInTime(m)'
  BY <1>2, <1>4 DEF WorkInTime, Live, Wrong
<1> QED BY <1>3, <1>5 DEF m

LEMMA GetInTime ==
  ASSUME NEW base, NEW spent, NEW base2, NEW spent2, Instant(base, spent, base2, spent2),
         GetRoleBinding
  PROVE  InTime(base2, spent2)'
<1> DEFINE n == base + spent
           m == base2 + spent2
<1>1. /\ n \in Nat /\ m \in Nat /\ n <= m /\ Typed /\ Typed' /\ Ageing(0)
      /\ Onward(base, spent, base2, spent2) /\ InTime(base, spent)
  BY InstantBounds
<1>2. /\ UNCHANGED <<members, drb, rb, drbSeen, rbSeen, timer, cache>>
      /\ work \in Getting /\ work.b \in Bindings
  BY <1>1, WorkKinds DEF GetRoleBinding, informers, Typed, Getting
<1> HIDE DEF n, m
<1>3. /\ work'.pc \in {"resolve", "create"}
      /\ work'.pc = "create" => work'.b = work.b /\ work'.spec = work.spec
  BY <1>2 DEF GetRoleBinding, Resolve, Getting
<1>4. CacheInTime' /\ ListingSound' /\ ListingInTime'
  BY <1>1, <1>2, <1>3, CacheKeepsTime, ListingKeepsTime DEF InTime
<1>5. SeenInTime(m)' /\ TakenInTime(m)'
  <2>1. work'.pc \in {"get", "create"} =>
           work.pc \in {"get", "create"} /\ work'.b = work.b /\ work'.spec = work.spec
    BY <1>2, <1>3 DEF Getting
  <2> QED BY <1>1, <1>2, <2>1, SeenKeepsTime, TakenKeepsTime DEF InTime, n
<1>6. DueInTime(base2, spent2)'
  BY <1>1, <1>2, StillWrong, DueKeepsTime DEF InTime
<1>7. PICK b \in Bindings : b = work.b
  BY <1>2
<1>8. WorkSound' /\ WorkInTime(m)'
  <2>1. CASE rbSeen[b].rb.exists
    <3>1. Resolve(rbSeen[b].rb, rbSeen[b].current)
      BY <1>7, <2>1 DEF GetRoleBinding
    <3>2. ASSUME NEW u \in Users, Lasting(b, u), ~rbSeen[b].current, Wrong(b, u)'
          PROVE  settled[b][u] <= n
      <4>1. Live(b) /\ rb'[b] = rb[b]
        BY <1>1, <1>2, <3>2 DEF Ageing
      <4>2. Wrong(b, u)
        BY <1>1, <1>2, <3>2, <4>1, StillWrong
      <4> QED BY <1>1, <1>2, <2>1, <3>2, <4>1, <4>2 DEF InTime, SeenInTime, n
    <3>3. rbSeen[b].current => rb'[b] = rbSeen[b].rb
      BY <1>1, <1>2 DEF Typed
    <3> QED BY <1>2, <1>7, <2>1, <3>1, <3>2, <3>3, ResolveInTime DEF n, m
  <2>2. CASE ~rbSeen[b].rb.exists
    <3>1. work'.pc = "create"
      BY <1>2, <1>7, <2>2 DEF GetRoleBinding, Getting
    <3> QED BY <3>1 DEF WorkSound, WorkInTime, Working
  <2> QED BY <2>1, <2>2
<1> QED BY <1>4, <1>5, <1>6, <1>8 DEF InTime, m

\* The RoleBinding was missing before it is created.
LEMMA CreateInTime ==
  ASSUME NEW base, NEW spent, NEW base2, NEW spent2, Instant(base, spent, base2, spent2),
         CreateRoleBinding
  PROVE  InTime(base2, spent2)'
<1> DEFINE n == base + spent
           m == base2 + spent2
<1>1. /\ n \in Nat /\ m \in Nat /\ n <= m /\ Typed /\ Typed' /\ Ageing(0)
      /\ Onward(base, spent, base2, spent2) /\ InTime(base, spent)
  BY InstantBounds
<1>2. /\ UNCHANGED <<members, drb, drbSeen, timer, cache>>
      /\ work \in Getting /\ work.pc = "create" /\ work.b \in Bindings
  BY <1>1, WorkKinds DEF CreateRoleBinding, informers, Typed, Getting
<1> HIDE DEF n, m
<1>3. work'.pc \in {"idle", "resolve"}
  BY DEF CreateRoleBinding, Fail, Finish, Idle, Resolve
<1>4. CacheInTime' /\ ListingSound' /\ ListingInTime' /\ TakenInTime(m)'
  BY <1>1, <1>2, <1>3, CacheKeepsTime, ListingKeepsTime, TakenKeepsTime DEF InTime, n
<1>0. PICK b \in Bindings : b = work.b
  BY <1>2
<1>5. CASE rb[b].exists
  <2>1. rb' = rb /\ rbSeen' = rbSeen /\ work'.pc = "idle"
    BY <1>0, <1>5 DEF CreateRoleBinding, Fail, Finish, Idle
  <2>2. SeenInTime(m)'
    BY <1>1, <1>2, <2>1, SeenKeepsTime DEF InTime, n
  <2>3. DueInTime(base2, spent2)'
    BY <1>1, <1>2, <2>1, StillWrong, DueKeepsTime DEF InTime
  <2>4. WorkSound' /\ WorkInTime(m)'
    BY <2>1 DEF WorkSound, WorkInTime, Working
  <2> QED BY <1>4, <2>2, <2>3, <2>4 DEF InTime, m
<1>6. CASE ~rb[b].exists
  <2>1. /\ rb' = [rb EXCEPT ![b] = NewRoleBinding]
        /\ rbSeen' = [rbSeen EXCEPT ![b].current = FALSE]
        /\ Resolve(NewRoleBinding, TRUE) /\ NewRoleBinding.exists
    BY <1>0, <1>6 DEF CreateRoleBinding, Written, NewRoleBinding, RoleBinding
  <2>2. /\ rb'[b] = NewRoleBinding /\ rbSeen'[b].rb = rbSeen[b].rb
        /\ \A c \in Bindings \ {b} : rb'[c] = rb[c] /\ rbSeen'[c] = rbSeen[c]
    <3>1. rb \in [Bindings -> Bound] /\ rbSeen \in [Bindings -> Seen]
      BY <1>1 DEF Typed
    <3> QED BY <1>2, <2>1, <3>1 DEF Seen
  <2>3. \A u \in Users : Wrong(b, u)
    BY <1>6 DEF Wrong
  <2>4. WorkSound' /\ WorkInTime(m)'
    BY <1>0, <1>2, <2>1, <2>2, ResolveInTime DEF m
  <2>5. \A c \in Bindings, u \in Users : Lasting(c, u) /\ Wrong(c, u)' => Wrong(c, u)
    BY <1>1, <2>2, <2>3, StillWrong
  <2>6. DueInTime(base2, spent2)'
    BY <1>1, <1>2, <2>5, DueKeepsTime DEF InTime
  <2>7. ASSUME NEW u \in Users, Lasting(b, u), rbSeen'[b].rb.exists
        PROVE  settled[b][u] <= n
    <3>1. rbSeen[b].rb.exists /\ ~rbSeen[b].current
      BY <1>1, <1>2, <1>6, <2>2, <2>7 DEF Typed
    <3> QED BY <1>1, <1>2, <2>3, <2>7, <3>1 DEF InTime, SeenInTime, Ageing, n
  <2>8. SeenInTime(m)'
    BY <1>1, <1>2, <2>2, <2>7, SeenKeepsTime DEF InTime, n
  <2> QED BY <1>4, <2>4, <2>6, <2>8 DEF InTime, m
<1> QED BY <1>5, <1>6

\* A hit in the cache is at most a TTL old, and was at most a listing late when it was new.
LEMMA HitInTime ==
  ASSUME NEW base, NEW spent, NEW base2, NEW spent2, Instant(base, spent, base2, spent2),
         NEW g \in Groups, LookUp(g), Fresh(cache[g]), spent = MaxListing, TTL <= base + 1
  PROVE  WorkSound' /\ WorkInTime(base2 + spent2)'
<1> DEFINE n == base + spent
           m == base2 + spent2
<1>1. /\ n \in Nat /\ m \in Nat /\ n <= m /\ Typed /\ Typed' /\ Ageing(0)
      /\ Onward(base, spent, base2, spent2) /\ InTime(base, spent)
  BY InstantBounds
<1>2. /\ UNCHANGED <<members, drb, rb, cache>>
      /\ work \in Resolving /\ work.pc = "resolve" /\ work.b \in Bindings /\ g \in work.todo
  BY <1>1, WorkKinds DEF LookUp, informers, Typed, Resolving
<1>3. /\ work'.pc = "resolve" /\ work'.b = work.b /\ work'.copy = work.copy
      /\ work'.current = work.current
      /\ work'.todo = work.todo \ {g} /\ work'.out = work.out \cup cache[g].members
  BY <1>2 DEF LookUp, Resolving
<1>4. cache[g].age + MaxListing <= n
  <2>1. cache[g] \in Entry
    BY <1>1 DEF Typed
  <2>2. cache[g].age \in Nat /\ cache[g].age < TTL
    BY <2>1, TimesAssumption DEF Entry, Ages, Fresh
  <2> QED BY <2>2, TimesAssumption DEF Onward, Instant
<1> HIDE DEF n, m
<1>5. WorkSound'
  BY <1>1, <1>2, <1>3 DEF InTime, WorkSound, Working, Used
<1>0. PICK b \in Bindings : b = work.b
  BY <1>2
<1> DEFINE spec == drb[b].spec
<1>6. ASSUME NEW u \in Users, Live(b)', ~OnCourse(u)' \/ (~work'.current /\ Wrong(b, u)')
      PROVE  settled'[b][u] <= m
  <2>1. ASSUME Lasting(b, u) PROVE settled[b][u] <= n
    <3>1. Live(b) /\ Kept(b, u) /\ settled[b][u] \in Nat
      BY <1>0, <1>1, <1>2, <2>1 DEF Ageing
    <3>2. CASE ~OnCourse(u) \/ (~work.current /\ Wrong(b, u))
      BY <1>0, <1>1, <1>2, <3>1, <3>2 DEF InTime, WorkInTime, Working, n
    <3>3. CASE OnCourse(u) /\ ~(~work.current /\ Wrong(b, u))
      <4>1. ~(~work'.current /\ Wrong(b, u)')
        <5>1. rb'[b] = rb[b]
          BY <1>0, <1>2
        <5> QED BY <1>0, <1>1, <1>2, <1>3, <2>1, <3>3, <5>1, StillWrong
      <4>2. g \in spec.groups
        BY <1>0, <1>2, <3>3 DEF OnCourse, Coming
      <4>3. EntryWrong(b, u, g)
        <5>1. SUFFICES ASSUME u \in spec.users \/ (u \in cache[g].members <=> u \in members[g])
                       PROVE  OnCourse(u)'
          BY <1>0, <1>6, <4>1, <4>2 DEF EntryWrong
        <5>2. /\ Coming' = Coming \ {g} /\ Coming' = work.todo \ {g} /\ Coming = work.todo
              /\ drb' = drb /\ members' = members
          BY <1>0, <1>2, <1>3 DEF Coming
        <5>3. u \in cache[g].members => u \in Resolved(spec)
          BY <1>0, <4>2, <5>1 DEF Resolved
        <5>4. \A h \in spec.groups : u \in members[h] => u \in work'.out \/ h \in Coming'
          <6>1. u \in spec.users => u \in work.out
            BY <1>0, <3>3 DEF OnCourse
          <6> QED BY <1>0, <1>3, <3>3, <5>1, <5>2, <6>1 DEF OnCourse
        <5>5. Resolved(spec)' = Resolved(spec)
          BY <1>0, <1>2, <1>3, <5>2 DEF Resolved
        <5> QED BY <1>0, <1>3, <3>3, <5>2, <5>3, <5>4, <5>5 DEF OnCourse
      <4>4. settled[b][u] <= cache[g].age + MaxListing
        BY <1>0, <1>1, <1>2, <3>1, <4>3 DEF InTime, CacheInTime
      <4>5. cache[g].age \in Nat
        BY <1>0, <1>1, TimesAssumption DEF Typed, Entry, Ages
      <4> QED BY <1>0, <1>1, <1>4, <3>1, <4>4, <4>5, TimesAssumption
    <3> QED BY <3>2, <3>3
  <2> QED BY <1>0, <1>1, <1>2, <1>6, <2>1, LastingInTime
<1>7. WorkInTime(m)'
  BY <1>0, <1>3, <1>6 DEF WorkInTime, Live, Wrong
<1> QED BY <1>5, <1>7 DEF m

LEMMA LookUpInTime ==
  ASSUME NEW base, NEW spent, NEW base2, NEW spent2, Instant(base, spent, base2, spent2),
         NEW g \in Groups, LookUp(g), Fresh(cache[g]) => spent = MaxListing, TTL <= base + 1
  PROVE  InTime(base2, spent2)'
<1> DEFINE n == base + spent
           m == base2 + spent2
<1>1. /\ n \in Nat /\ m \in Nat /\ n <= m /\ Typed /\ Typed' /\ Ageing(0)
      /\ Onward(base, spent, base2, spent2) /\ InTime(base, spent)
  BY InstantBounds
<1>2. /\ UNCHANGED <<members, drb, rb, drbSeen, rbSeen, timer>>
      /\ work \in Resolving /\ work.pc = "resolve" /\ work.b \in Bindings /\ g \in work.todo
      /\ g \in Used
  BY <1>1, WorkKinds DEF LookUp, informers, Typed, Resolving, InTime, WorkSound, Working
<1> HIDE DEF n, m
<1>3. work'.pc \in {"resolve", "list"}
  <2>1. CASE Fresh(cache[g])
    BY <1>2, <2>1 DEF LookUp, Resolving
  <2>2. CASE ~Fresh(cache[g])
    BY <2>2 DEF LookUp
  <2> QED BY <2>1, <2>2
<1>4. \A h \in Groups : cache'[h] = cache[h] \/ ~cache'[h].cached
  BY <1>1 DEF LookUp, NotCached, Typed
<1>5. CacheInTime' /\ SeenInTime(m)' /\ TakenInTime(m)'
  BY <1>1, <1>2, <1>3, <1>4, CacheKeepsTime, SeenKeepsTime, TakenKeepsTime DEF InTime, n
<1>6. DueInTime(base2, spent2)'
  BY <1>1, <1>2, StillWrong, DueKeepsTime DEF InTime
<1>7. CASE Fresh(cache[g])
  <2>1. WorkSound' /\ WorkInTime(m)'
    BY <1>7, HitInTime DEF m
  <2>2. work'.pc = "resolve"
    BY <1>2, <1>7 DEF LookUp, Resolving
  <2>3. ListingSound' /\ ListingInTime'
    BY <2>2 DEF ListingSound, ListingInTime
  <2> QED BY <1>5, <1>6, <2>1, <2>3 DEF InTime, m
<1>8. CASE ~Fresh(cache[g])
  <2>1. /\ work'.pc = "list" /\ work'.b = work.b /\ work'.copy = work.copy
        /\ work'.current = work.current /\ work'.todo = work.todo \ {g} /\ work'.out = work.out
        /\ work'.group = g /\ work'.token = 0 /\ work'.got = {} /\ work'.pages = 0
        /\ work'.spent = 0 /\ ~cache'[g].cached
    BY <1>1, <1>8 DEF LookUp, NotCached, Typed
  <2>2. ListingSound' /\ ListingInTime'
    <3>1. 0 * PerPage <= Cardinality(UpTo(0))
      BY UpToFinite, PagesAssumption
    <3>2. \A u \in Users : ~(u <= 0)
      BY UsersAssumption
    <3>3. ListingSound'
      BY <1>2, <2>1, <3>1, TimesAssumption, PagesAssumption DEF ListingSound, Used, UpTo
    <3>4. ListingInTime'
      BY <2>1, <3>2 DEF ListingInTime, GotWrong
    <3> QED BY <3>3, <3>4
  <2>3. WorkSound'
    BY <1>1, <1>2, <2>1 DEF InTime, WorkSound, Working, Used
  <2>0. PICK b \in Bindings : b = work.b
    BY <1>2
  <2>4. ASSUME NEW u \in Users, Live(b)',
               ~OnCourse(u)' \/ (~work'.current /\ Wrong(b, u)')
        PROVE  settled'[b][u] <= m
    <3>1. ASSUME Lasting(b, u) PROVE settled[b][u] <= n
      <4>1. Live(b) /\ rb'[b] = rb[b]
        BY <2>0, <1>1, <1>2, <3>1 DEF Ageing
      <4>2. Wrong(b, u)' => Wrong(b, u)
        BY <2>0, <1>1, <1>2, <3>1, <4>1, StillWrong
      <4>3. Coming' = Coming
        BY <1>2, <2>1 DEF Coming
      <4>4. OnCourse(u)' = OnCourse(u)
        BY <2>0, <1>2, <2>1, <4>3 DEF OnCourse, Resolved
      <4> QED BY <2>0, <1>1, <1>2, <2>1, <2>4, <4>1, <4>2, <4>4
              DEF InTime, WorkInTime, Working, n
    <3> QED BY <2>0, <1>1, <1>2, <2>4, <3>1, LastingInTime
  <2>5. WorkInTime(m)'
    BY <2>0, <2>1, <2>4 DEF WorkInTime, Live, Wrong
  <2> QED BY <1>5, <1>6, <2>2, <2>3, <2>5 DEF InTime, m
<1> QED BY <1>7, <1>8

\* The pages so far are right but for changes since the listing began, and they are all of
\* the group when the last one is.
LEMMA ListPageInTime ==
  ASSUME NEW base, NEW spent, NEW base2, NEW spent2, Instant(base, spent, base2, spent2),
         ListPage, spent = work.spent, Cardinality(Users) <= PerPage * GoogleMaxPages
  PROVE  InTime(base2, spent2)'
<1> DEFINE n == base + spent
           m == base2 + spent2
<1>1. /\ n \in Nat /\ m \in Nat /\ n <= m /\ Typed /\ Typed' /\ Ageing(0)
      /\ Onward(base, spent, base2, spent2) /\ InTime(base, spent)
  BY InstantBounds
<1>2. /\ UNCHANGED <<members, drb, rb, drbSeen, rbSeen, timer>>
      /\ work \in Listing /\ work.pc = "list" /\ work.b \in Bindings /\ work.group \in Groups
      /\ work.got \subseteq Users /\ work.pages \in Nat /\ work.spent \in Nat
  BY <1>1, WorkKinds DEF ListPage, informers, Typed, Listing
<1>0. PICK g \in Groups : g = work.group
  BY <1>2
<1> DEFINE page == Page(g, work.token)
           got == work.got \cup page
<1>3. /\ g \in Used /\ ~cache[g].cached /\ work.spent <= MaxListing /\ work.token \in Nat
      /\ \A u \in work.got : u <= work.token
      /\ work.pages < GoogleMaxPages /\ work.pages * PerPage <= Cardinality(UpTo(work.token))
      /\ work.todo \subseteq Used /\ work.copy.exists
      /\ work.current => rb[work.b] = work.copy
  BY <1>0, <1>1, <1>2 DEF InTime, ListingSound, WorkSound, Working
<1>4. members[g] \subseteq Users /\ page \subseteq After(g, work.token)
      /\ After(g, work.token) \subseteq Users
      /\ \A u \in Users : u \in After(g, work.token) <=> u \in members[g] /\ u > work.token
  BY <1>0, <1>1, <1>2 DEF Typed, Page, After
<1>5. PICK b \in Bindings : b = work.b
  BY <1>0, <1>2
<1> HIDE DEF n, m
<1>6. ASSUME NEW u \in Users, Lasting(b, u), ~OnCourse(u) \/ (~work.current /\ Wrong(b, u))
      PROVE  settled[b][u] <= n
  BY <1>0, <1>1, <1>2, <1>5, <1>6 DEF InTime, WorkInTime, Working, Ageing, n
<1>7. work'.pc \in {"list", "resolve"}
  <2>1. CASE Listed(got)
    BY <2>1 DEF Listed
  <2>2. CASE ~Listed(got)
    BY <1>0, <1>2, <2>2 DEF ListPage, Listing
  <2> QED BY <2>1, <2>2
<1>8. SeenInTime(m)' /\ TakenInTime(m)'
  BY <1>0, <1>1, <1>2, <1>7, SeenKeepsTime, TakenKeepsTime DEF InTime, n
<1>9. DueInTime(base2, spent2)'
  BY <1>0, <1>1, <1>2, StillWrong, DueKeepsTime DEF InTime
<1>10. ASSUME NEW c \in Bindings, NEW u \in Users, Lasting(c, u),
              g \in drb[c].spec.groups, u \notin drb[c].spec.users,
              ~(u \in got <=> u \in members'[g]), u \in After(g, work.token) => u \in page
       PROVE  settled[c][u] <= work.spent
  <2>1. Live(c) /\ Kept(c, u)
    BY <1>1, <1>10 DEF Ageing
  <2>2. u \in Nat /\ ~(u \in got <=> u \in members[g])
    BY <1>0, <1>2, <1>10, UsersAssumption
  <2>3. u <= work.token
    BY <1>3, <1>4, <1>10, <2>2
  <2>4. u \notin page
    BY <1>3, <1>4, <2>2, <2>3
  <2>5. GotWrong(c, u)
    BY <1>0, <1>10, <2>2, <2>3, <2>4 DEF GotWrong
  <2> QED BY <1>0, <1>1, <1>2, <2>1, <2>5 DEF InTime, ListingInTime
<1> HIDE DEF page
<1>11. CASE page # After(g, work.token)
  <2>1. PICK t \in page :
           /\ t > work.token /\ \A v \in page : v <= t
           /\ \A v \in After(g, work.token) : v <= t => v \in page
           /\ Cardinality(UpTo(work.token)) + PerPage <= Cardinality(UpTo(t))
           /\ Cardinality(UpTo(t)) < Cardinality(Users)
    BY <1>3, <1>4, <1>11, FullPage DEF page
  <2>2. t \in Nat /\ \A v \in page : v \in Nat
    BY <1>4, UsersAssumption
  <2>3. /\ (work.pages + 1) * PerPage <= Cardinality(UpTo(t))
        /\ work.pages + 1 < GoogleMaxPages
    <3>1. /\ Cardinality(UpTo(work.token)) \in Nat /\ Cardinality(UpTo(t)) \in Nat
          /\ Cardinality(Users) \in Nat
      BY <1>3, <2>2, UpToFinite
    <3>2. (work.pages + 1) * PerPage = work.pages * PerPage + PerPage
          /\ work.pages * PerPage \in Nat
      BY <1>0, <1>2, PagesAssumption
    <3>3. (work.pages + 1) * PerPage <= Cardinality(UpTo(t))
      BY <1>3, <2>1, <3>1, <3>2, PagesAssumption
    <3>4. work.pages + 1 # GoogleMaxPages
      <4>1. SUFFICES ASSUME work.pages + 1 = GoogleMaxPages PROVE FALSE
        OBVIOUS
      <4>2. (work.pages + 1) * PerPage = PerPage * GoogleMaxPages
        BY <1>0, <1>2, <4>1, PagesAssumption
      <4>3. PerPage * GoogleMaxPages \in Nat
        BY PagesAssumption
      <4> QED BY <2>1, <3>1, <3>3, <4>2, <4>3
    <3> QED BY <1>0, <1>2, <1>3, <3>3, <3>4, PagesAssumption
  <2>4. /\ work' = [work EXCEPT !.got = got, !.pages = @ + 1,
                                 !.token = CHOOSE u \in page : \A v \in page : v <= u]
        /\ UNCHANGED cache
    BY <1>0, <1>2, <1>11, <2>3, PagesAssumption DEF ListPage, page
  <2>5. (CHOOSE u \in page : \A v \in page : v <= u) = t
    <3>1. \A u \in page : (\A v \in page : v <= u) => u = t
      BY <2>1, <2>2
    <3> QED BY <2>1, <3>1
  <2> HIDE DEF got
  <2>6. /\ work'.pc = "list" /\ work'.b = work.b /\ work'.copy = work.copy
        /\ work'.current = work.current /\ work'.todo = work.todo /\ work'.out = work.out
        /\ work'.group = g /\ work'.got = got /\ work'.pages = work.pages + 1
        /\ work'.token = t /\ work'.spent = work.spent
    BY <1>0, <1>2, <2>4, <2>5 DEF Listing
  <2>7. CacheInTime'
    BY <1>1, <2>4, CacheKeepsTime DEF InTime
  <2>8. ListingSound'
    <3>1. \A u \in got : u <= t
      <4>1. \A u \in work.got : u \in Nat
        BY <1>0, <1>2, UsersAssumption
      <4> QED
        <5> SUFFICES ASSUME NEW u \in got PROVE u <= t
          OBVIOUS
        <5>1. CASE u \in page
          BY <2>1, <5>1
        <5>2. CASE u \in work.got
          BY <1>3, <2>1, <2>2, <4>1, <5>2
        <5> QED BY <5>1, <5>2 DEF got
    <3> QED BY <1>3, <2>2, <2>3, <2>4, <2>6, <3>1 DEF ListingSound, Used, UpTo
  <2>9. ASSUME NEW c \in Bindings, NEW u \in Users, Live(c)', GotWrong(c, u)'
        PROVE  settled'[c][u] <= work.spent
    <3>1. ASSUME Lasting(c, u) PROVE settled[c][u] <= work.spent
      <4>1. /\ g \in drb[c].spec.groups /\ u \notin drb[c].spec.users
            /\ ~(u \in got <=> u \in members'[g]) /\ u <= t
        BY <1>0, <1>2, <2>6, <2>9 DEF GotWrong
      <4>2. u \in After(g, work.token) => u \in page
        BY <2>1, <4>1
      <4> QED BY <1>10, <3>1, <4>1, <4>2
    <3> QED BY <1>0, <1>1, <1>2, <2>9, <3>1, LastingInTime
  <2>10. ListingInTime'
    BY <2>6, <2>9 DEF ListingInTime
  <2>11. WorkSound' /\ WorkInTime(m)'
    BY <1>0, <1>1, <1>2, <2>6, WorkKeepsTime DEF InTime, Working, n
  <2> QED BY <1>8, <1>9, <2>7, <2>8, <2>10, <2>11 DEF InTime, m
<1>12. CASE page = After(g, work.token)
  <2>1. /\ cache' = [cache EXCEPT ![g] = Cached(got)]
        /\ work'.pc = "resolve" /\ work'.b = work.b /\ work'.copy = work.copy
        /\ work'.current = work.current /\ work'.todo = work.todo
        /\ work'.out = work.out \cup got
    BY <1>0, <1>2, <1>12 DEF ListPage, Listed, page
  <2> HIDE DEF got
  <2>2. cache'[g].members = got /\ \A h \in Groups \ {g} : cache'[h] = cache[h]
    BY <1>0, <1>1, <1>2, <2>1 DEF Typed, Cached
  <2>3. ASSUME NEW c \in Bindings, NEW u \in Users, Lasting(c, u), EntryWrong(c, u, g)'
        PROVE  settled[c][u] <= MaxListing
    <3>1. /\ g \in drb[c].spec.groups /\ u \notin drb[c].spec.users
          /\ ~(u \in got <=> u \in members'[g])
      BY <1>0, <1>2, <2>2, <2>3 DEF EntryWrong
    <3>2. settled[c][u] <= work.spent /\ settled[c][u] \in Nat
      BY <1>1, <1>10, <1>12, <2>3, <3>1 DEF Ageing
    <3> QED BY <1>0, <1>2, <1>3, <3>2, TimesAssumption
  <2>4. CacheInTime'
    <3>1. \A h \in Groups :
            \/ cache'[h] = cache[h]
            \/ \A c \in Bindings, u \in Users :
                 Lasting(c, u) /\ EntryWrong(c, u, h)' => settled[c][u] <= MaxListing
      BY <2>2, <2>3
    <3> QED BY <1>1, <3>1, CacheKeepsTime DEF InTime
  <2>5. ListingSound' /\ ListingInTime'
    BY <2>1 DEF ListingSound, ListingInTime
  <2>6. WorkSound'
    BY <1>0, <1>2, <1>3, <2>1 DEF WorkSound, Working, Used
  <2>7. ASSUME NEW u \in Users, Live(b)', ~OnCourse(u)' \/ (~work'.current /\ Wrong(b, u)')
        PROVE  settled'[b][u] <= m
    <3>1. ASSUME Lasting(b, u), OnCourse(u), ~(~work.current /\ Wrong(b, u))
          PROVE  settled[b][u] <= n
      <4>1. ~OnCourse(u)'
        BY <1>0, <1>1, <1>2, <2>1, <2>7, <3>1, StillWrong
      <4>2. Coming = work.todo \cup {g} /\ Coming' = work.todo /\ g \in drb[b].spec.groups
        BY <1>0, <1>2, <1>5, <2>1, <3>1 DEF Coming, OnCourse
      <4>3. u \notin drb[b].spec.users /\ ~(u \in got <=> u \in members'[g])
        <5> SUFFICES ASSUME u \in drb[b].spec.users \/ (u \in got <=> u \in members[g])
                     PROVE  OnCourse(u)'
          BY <1>0, <1>2, <4>1
        <5>1. Resolved(drb[b].spec)' = Resolved(drb[b].spec)
          BY <1>0, <1>2 DEF Resolved
        <5>2. u \in got => u \in Resolved(drb[b].spec)
          BY <4>2 DEF Resolved
        <5>3. \A h \in drb[b].spec.groups : u \in members[h] => u \in work'.out \/ h \in work.todo
          <6>1. u \in drb[b].spec.users => u \in work.out
            BY <1>5, <3>1 DEF OnCourse
          <6> QED BY <1>5, <2>1, <3>1, <4>2, <6>1 DEF OnCourse
        <5> QED BY <1>0, <1>2, <1>5, <2>1, <3>1, <4>2, <5>1, <5>2, <5>3 DEF OnCourse
      <4>4. settled[b][u] <= work.spent /\ settled[b][u] \in Nat
        BY <1>1, <1>10, <1>12, <3>1, <4>2, <4>3 DEF Ageing
      <4> QED BY <1>0, <1>1, <1>2, <4>4 DEF Onward, n
    <3> QED BY <1>1, <1>6, <2>7, <3>1, LastingInTime
  <2>8. WorkInTime(m)'
    BY <1>5, <2>1, <2>7 DEF WorkInTime, Live, Wrong
  <2> QED BY <1>8, <1>9, <2>4, <2>5, <2>6, <2>8 DEF InTime, m
<1> QED BY <1>11, <1>12

\* A reconciliation that ends without a change leaves everything as recent as it was.
LEMMA EndInTime ==
  ASSUME NEW base, NEW spent, NEW base2, NEW spent2, Instant(base, spent, base2, spent2),
         work' = Idle, UNCHANGED <<members, drb, rb, informers, timer, cache>>
  PROVE  InTime(base2, spent2)'
<1> DEFINE n == base + spent
           m == base2 + spent2
<1>1. /\ n \in Nat /\ m \in Nat /\ n <= m /\ Typed /\ Typed' /\ Ageing(0)
      /\ Onward(base, spent, base2, spent2) /\ InTime(base, spent)
  BY InstantBounds
<1> HIDE DEF n, m
<1>2. CacheInTime' /\ ListingSound' /\ ListingInTime'
  BY <1>1, CacheKeepsTime, ListingKeepsTime DEF InTime, Idle
<1>3. SeenInTime(m)' /\ TakenInTime(m)'
  BY <1>1, SeenKeepsTime, TakenKeepsTime DEF InTime, Idle, informers, n
<1>4. DueInTime(base2, spent2)'
  BY <1>1, StillWrong, DueKeepsTime DEF InTime
<1>5. WorkSound' /\ WorkInTime(m)'
  BY DEF WorkSound, WorkInTime, Working, Idle
<1> QED BY <1>2, <1>3, <1>4, <1>5 DEF InTime, m

\* What the worker leaves wrong, it was off course about, or it had an old RoleBinding.
LEMMA PutInTime ==
  ASSUME NEW base, NEW spent, NEW base2, NEW spent2, Instant(base, spent, base2, spent2),
         work \in Resolving, work.pc = "resolve", work.todo = {}, NEW b \in Bindings, b = work.b,
         work' = Idle, UNCHANGED <<members, drb, drbSeen, cache>>,
         \A c \in Bindings \ {b} : timer'[c] = timer[c],
         \/ work.out = work.copy.subjects /\ UNCHANGED <<rb, rbSeen>>
         \/ Written(b, [work.copy EXCEPT !.subjects = work.out])
  PROVE  InTime(base2, spent2)'
<1> DEFINE n == base + spent
           m == base2 + spent2
<1>1. /\ n \in Nat /\ m \in Nat /\ n <= m /\ Typed /\ Typed' /\ Ageing(0)
      /\ Onward(base, spent, base2, spent2) /\ InTime(base, spent)
  BY InstantBounds
<1>2. work.out \in SUBSET Users /\ work.copy \in Bound
  BY DEF Resolving
<1> HIDE DEF n, m
<1>3. work.copy.exists /\ (work.current => rb[b] = work.copy)
  BY <1>1 DEF InTime, WorkSound, Working
<1>4. /\ \A c \in Bindings \ {b} : rb'[c] = rb[c] /\ rbSeen'[c] = rbSeen[c]
      /\ \/ work.out = work.copy.subjects /\ rb'[b] = rb[b]
         \/ rb'[b].exists /\ rb'[b].subjects = work.out
  <2>1. CASE work.out = work.copy.subjects /\ UNCHANGED <<rb, rbSeen>>
    BY <2>1
  <2>2. CASE Written(b, [work.copy EXCEPT !.subjects = work.out])
    <3>1. /\ [work.copy EXCEPT !.subjects = work.out].subjects = work.out
          /\ [work.copy EXCEPT !.subjects = work.out].exists
      BY <1>2, <1>3 DEF Bound
    <3>2. rb \in [Bindings -> Bound] /\ rbSeen \in [Bindings -> Seen]
      BY <1>1 DEF Typed
    <3>3. rb'[b].exists /\ rb'[b].subjects = work.out
      BY <2>2, <3>1, <3>2 DEF Written
    <3> QED BY <2>2, <3>2, <3>3 DEF Written
  <2> QED BY <2>1, <2>2
<1>5. ASSUME NEW u \in Users, Lasting(b, u), Wrong(b, u)'
      PROVE  settled[b][u] <= n
  <2>1. Live(b) /\ Kept(b, u)
    BY <1>1, <1>5 DEF Ageing
  <2>2. OnCourse(u) => (u \in work.out <=> u \in Entitled(b))
    BY <2>1 DEF OnCourse, Coming, Entitled, Live, Resolved
  <2>3. CASE rb'[b].exists /\ rb'[b].subjects = work.out
    <3>1. ~(u \in work.out <=> u \in Entitled(b))
      BY <1>5, <2>1, <2>3 DEF Wrong, Entitled, Live, Kept, Resolved
    <3> QED BY <1>1, <2>1, <2>2, <3>1 DEF InTime, WorkInTime, Working, n
  <2>4. CASE rb'[b] = rb[b] /\ work.out = work.copy.subjects
    <3>1. Wrong(b, u)
      BY <1>1, <1>5, <2>4, StillWrong
    <3>2. work.current => ~(u \in work.out <=> u \in Entitled(b))
      BY <1>3, <2>4, <3>1 DEF Wrong
    <3> QED BY <1>1, <2>1, <2>2, <3>1, <3>2 DEF InTime, WorkInTime, Working, n
  <2> QED BY <1>4, <2>3, <2>4
<1>6. CacheInTime' /\ ListingSound' /\ ListingInTime' /\ TakenInTime(m)'
  BY <1>1, CacheKeepsTime, ListingKeepsTime, TakenKeepsTime DEF InTime, Idle, n
<1>7. SeenInTime(m)'
  BY <1>1, <1>4, <1>5, SeenKeepsTime DEF InTime, n
<1>8. DueInTime(base2, spent2)'
  BY <1>1, <1>4, <1>5, StillWrong, DueKeepsTime DEF InTime, n
<1>9. WorkSound' /\ WorkInTime(m)'
  BY DEF WorkSound, WorkInTime, Working, Idle
<1> QED BY <1>6, <1>7, <1>8, <1>9 DEF InTime, m

LEMMA UpdateInTime ==
  ASSUME NEW base, NEW spent, NEW base2, NEW spent2, Instant(base, spent, base2, spent2),
         UpdateRoleBinding
  PROVE  InTime(base2, spent2)'
<1>1. /\ UNCHANGED <<members, drb, drbSeen, cache>> /\ work' = Idle
      /\ work \in Resolving /\ work.pc = "resolve" /\ work.todo = {} /\ work.b \in Bindings
  BY InstantBounds, WorkKinds DEF UpdateRoleBinding, Fail, Finish, Typed, Resolving
<1>2. PICK b \in Bindings : b = work.b
  BY <1>1
<1>3. CASE UNCHANGED <<rb, rbSeen, timer>>
  BY <1>1, <1>3, EndInTime DEF informers
<1>4. CASE ~UNCHANGED <<rb, rbSeen, timer>>
  <2>1. Requeue(b)
    BY <1>2, <1>4 DEF UpdateRoleBinding
  <2>2. \/ work.out = work.copy.subjects /\ UNCHANGED <<rb, rbSeen>>
        \/ Written(b, [work.copy EXCEPT !.subjects = work.out])
    BY <1>2, <1>4 DEF UpdateRoleBinding
  <2>3. \A c \in Bindings \ {b} : timer'[c] = timer[c]
    BY <2>1, InstantBounds DEF Requeue, Typed
  <2> QED BY <1>1, <1>2, <2>2, <2>3, PutInTime
<1> QED BY <1>3, <1>4

\* A write that fails leaves everything as it was; one whose answer is lost is a write.
LEMMA WriteErrorInTime ==
  ASSUME NEW base, NEW spent, NEW base2, NEW spent2, Instant(base, spent, base2, spent2),
         WriteError
  PROVE  InTime(base2, spent2)'
<1> DEFINE n == base + spent
           m == base2 + spent2
<1>1. /\ n \in Nat /\ m \in Nat /\ n <= m /\ Typed /\ Typed' /\ Ageing(0)
      /\ Onward(base, spent, base2, spent2) /\ InTime(base, spent)
  BY InstantBounds
<1> HIDE DEF n, m
<1>2. UNCHANGED <<members, drb, drbSeen, timer, cache>> /\ work' = Idle /\ work.b \in Bindings
  BY <1>1, WorkKinds DEF WriteError, Fail, Finish, Typed, Getting, Resolving
<1>3. PICK b \in Bindings : b = work.b
  BY <1>2
<1>4. CASE UNCHANGED <<rb, rbSeen>>
  BY <1>2, <1>4, EndInTime DEF informers
<1>5. CASE /\ work.pc = "resolve" /\ work.todo = {}
           /\ Written(b, [work.copy EXCEPT !.subjects = work.out])
  BY <1>1, <1>2, <1>3, <1>5, WorkKinds, PutInTime DEF Typed
<1>6. CASE ~rb[b].exists /\ Written(b, NewRoleBinding)
  <2>1. \A c \in Bindings \ {b} : rb'[c] = rb[c] /\ rbSeen'[c] = rbSeen[c]
    BY <1>1, <1>6 DEF Written, Typed
  <2>2. rbSeen'[b].rb = rbSeen[b].rb
    BY <1>1, <1>6 DEF Written, Typed, Seen
  <2>3. \A u \in Users : Wrong(b, u)
    BY <1>6 DEF Wrong
  <2>4. ASSUME NEW u \in Users, Lasting(b, u), rbSeen'[b].rb.exists
        PROVE  settled[b][u] <= n
    <3>1. rbSeen[b].rb.exists /\ ~rbSeen[b].current
      BY <1>1, <1>6, <2>2, <2>4 DEF Typed
    <3> QED BY <1>1, <1>2, <2>3, <2>4, <3>1 DEF InTime, SeenInTime, Ageing, n
  <2>5. SeenInTime(m)'
    BY <1>1, <1>2, <2>1, <2>4, SeenKeepsTime DEF InTime, n
  <2>6. \A c \in Bindings, u \in Users : Lasting(c, u) /\ Wrong(c, u)' => Wrong(c, u)
    BY <1>1, <2>1, <2>3, StillWrong
  <2>7. DueInTime(base2, spent2)'
    BY <1>1, <1>2, <2>6, DueKeepsTime DEF InTime
  <2>8. CacheInTime' /\ ListingSound' /\ ListingInTime' /\ TakenInTime(m)'
    BY <1>1, <1>2, CacheKeepsTime, ListingKeepsTime, TakenKeepsTime DEF InTime, Idle, n
  <2>9. WorkSound' /\ WorkInTime(m)'
    BY <1>2 DEF WorkSound, WorkInTime, Working, Idle
  <2> QED BY <2>5, <2>7, <2>8, <2>9 DEF InTime, m
<1> QED BY <1>3, <1>4, <1>5, <1>6 DEF WriteError

LEMMA TriggerInTime ==
  ASSUME NEW base, NEW spent, NEW base2, NEW spent2, Instant(base, spent, base2, spent2),
         NEW b \in Bindings, Trigger(b)
  PROVE  InTime(base2, spent2)'
<1> DEFINE n == base + spent
           m == base2 + spent2
<1>1. /\ n \in Nat /\ m \in Nat /\ n <= m /\ Typed /\ Typed' /\ Ageing(0)
      /\ Onward(base, spent, base2, spent2) /\ InTime(base, spent)
  BY InstantBounds
<1>2. UNCHANGED <<members, drb, rb, cache, work>>
  BY DEF Trigger, SyncBinding, SyncRoleBinding, TimerFires
<1> HIDE DEF n, m
<1>3. /\ \A c \in Bindings : drbSeen'[c] \in {drbSeen[c], drb[c]}
      /\ \A c \in Bindings : rbSeen'[c] = rbSeen[c] \/ rbSeen'[c].current
      /\ \A c \in Bindings : timer'[c] = timer[c] \/ (timer[c] = 0 /\ timer'[c] = -1)
  BY <1>1 DEF Trigger, SyncBinding, SyncRoleBinding, TimerFires, informers, Typed
<1>4. CacheInTime' /\ ListingSound' /\ ListingInTime' /\ TakenInTime(m)'
  BY <1>1, <1>2, CacheKeepsTime, ListingKeepsTime, TakenKeepsTime DEF InTime, n
<1>5. WorkSound' /\ WorkInTime(m)'
  BY <1>1, <1>2, WorkKeepsTime DEF InTime, n
<1>6. SeenInTime(m)'
  BY <1>1, <1>2, <1>3, SeenKeepsTime DEF InTime, n
<1>7. DueInTime(base2, spent2)'
  BY <1>1, <1>2, <1>3, StillWrong, DueKeepsTime DEF InTime
<1> QED BY <1>4, <1>5, <1>6, <1>7 DEF InTime, m

LEMMA EnvironmentInTime ==
  ASSUME NEW base, NEW spent, NEW base2, NEW spent2, Instant(base, spent, base2, spent2),
         \/ \E g \in Groups : ChangeGroup(g)
         \/ \E b \in Bindings : BindingChanges(b)
  PROVE  InTime(base2, spent2)'
<1> DEFINE n == base + spent
           m == base2 + spent2
<1>1. /\ n \in Nat /\ m \in Nat /\ n <= m /\ Typed /\ Typed' /\ Ageing(0)
      /\ Onward(base, spent, base2, spent2) /\ InTime(base, spent)
  BY InstantBounds
<1>2. UNCHANGED <<drbSeen, rb, rbSeen, timer, cache, work>>
  BY DEF ChangeGroup, BindingChanges, CreateBinding, EditBinding, DeleteBinding, RemoveBinding,
         StoreBinding, informers
<1> HIDE DEF n, m
<1>3. CacheInTime' /\ ListingSound' /\ ListingInTime' /\ TakenInTime(m)'
  BY <1>1, <1>2, CacheKeepsTime, ListingKeepsTime, TakenKeepsTime DEF InTime, n
<1>4. WorkSound' /\ WorkInTime(m)'
  BY <1>1, <1>2, WorkKeepsTime DEF InTime, n
<1>5. SeenInTime(m)'
  BY <1>1, <1>2, SeenKeepsTime DEF InTime, n
<1>6. DueInTime(base2, spent2)'
  BY <1>1, <1>2, StillWrong, DueKeepsTime DEF InTime
<1> QED BY <1>3, <1>4, <1>5, <1>6 DEF InTime, m

\* Another writer unsettles the users of the binding whose RoleBinding it writes.
LEMMA OthersInTime ==
  ASSUME NEW base, NEW spent, NEW base2, NEW spent2, Instant(base, spent, base2, spent2),
         NEW b \in Bindings, Collect(b) \/ EditRoleBinding(b), \A u \in Users : ~Lasting(b, u)
  PROVE  InTime(base2, spent2)'
<1> DEFINE n == base + spent
           m == base2 + spent2
<1>1. /\ n \in Nat /\ m \in Nat /\ n <= m /\ Typed /\ Typed' /\ Ageing(0)
      /\ Onward(base, spent, base2, spent2) /\ InTime(base, spent)
  BY InstantBounds
<1>2. PICK new \in Bound : WrittenByOthers(b, new)
  BY <1>1, OthersWrite
<1>3. /\ UNCHANGED <<members, drb, drbSeen, timer, cache>>
      /\ rb' = [rb EXCEPT ![b] = new] /\ rbSeen' = [rbSeen EXCEPT ![b].current = FALSE]
  BY <1>1, <1>2, OthersWrite DEF WrittenByOthers, Written
<1>4. /\ \A c \in Bindings \ {b} : rb'[c] = rb[c] /\ rbSeen'[c] = rbSeen[c]
      /\ ~rbSeen'[b].current
  BY <1>1, <1>3 DEF Typed, Seen
<1> HIDE DEF n, m
<1>5. /\ work'.pc = work.pc
      /\ work.pc # "idle" => work'.b = work.b
      /\ work.pc \in {"get", "create"} => work'.spec = work.spec
      /\ Working => /\ work'.out = work.out /\ work'.todo = work.todo /\ work'.copy = work.copy
                    /\ work'.current => work.current /\ work.b # b
                    /\ work.b # b => work'.current = work.current
      /\ work.pc = "list" => /\ work'.group = work.group /\ work'.token = work.token
                             /\ work'.got = work.got /\ work'.pages = work.pages
                             /\ work'.spent = work.spent
  <2>1. CASE Working /\ work.b = b
    <3>1. work' = [work EXCEPT !.current = FALSE]
      BY <1>2, <2>1 DEF WrittenByOthers, Working
    <3>2. CASE work.pc = "resolve"
      BY <1>1, <2>1, <3>1, <3>2, WorkKinds DEF Typed, Resolving
    <3>3. CASE work.pc = "list"
      BY <1>1, <2>1, <3>1, <3>3, WorkKinds DEF Typed, Listing
    <3> QED BY <2>1, <3>2, <3>3 DEF Working
  <2>2. CASE ~(Working /\ work.b = b)
    <3>1. work' = work
      BY <1>2, <2>2 DEF WrittenByOthers, Working
    <3> QED BY <2>2, <3>1
  <2> QED BY <2>1, <2>2
<1>6. Working => work.b \in Bindings
  BY <1>1, WorkKinds DEF Typed, Working, Idle
<1>7. CacheInTime' /\ ListingSound' /\ ListingInTime'
  BY <1>1, <1>3, <1>5, CacheKeepsTime, ListingKeepsTime DEF InTime
<1>8. TakenInTime(m)'
  BY <1>1, <1>5, TakenKeepsTime DEF InTime, n
<1>9. WorkSound' /\ WorkInTime(m)'
  <2>1. Working' => Working
    BY <1>5 DEF Working
  <2>2. Working' => /\ work'.pc = work.pc /\ work'.b = work.b /\ work'.out = work.out
                    /\ work'.todo = work.todo /\ work'.copy = work.copy
                    /\ work.pc = "list" => work'.group = work.group
                    /\ work'.current => work.current /\ rb'[work.b] = rb[work.b]
                    /\ \A c \in Bindings, u \in Users : c = work.b /\ Lasting(c, u) =>
                         work'.current = work.current /\ rb'[c] = rb[c]
    BY <1>4, <1>5, <1>6, <2>1 DEF Working
  <2> QED BY <1>1, <2>2, WorkKeepsTime DEF InTime, n
<1>10. SeenInTime(m)'
  BY <1>1, <1>3, <1>4, SeenKeepsTime DEF InTime, n
<1>11. DueInTime(base2, spent2)'
  BY <1>1, <1>3, <1>4, StillWrong, DueKeepsTime DEF InTime
<1> QED BY <1>7, <1>8, <1>9, <1>10, <1>11 DEF InTime, m

-----------------------------------------------------------------------------
(* The passing of time *)

LEMMA AgedInTime ==
  ASSUME Ageing(1), NEW n \in Int, NEW m \in Nat, n + 1 <= m, NEW b \in Bindings, NEW u \in Users,
         Live(b)', Live(b) => settled[b][u] <= n
  PROVE  settled'[b][u] <= m
<1>1. settled'[b][u] \in Nat /\ settled[b][u] \in Nat
  BY DEF Ageing
<1>2. CASE settled'[b][u] > 0
  <2>1. settled'[b][u] <= settled[b][u] + 1 /\ settled[b][u] <= n
    BY <1>2 DEF Ageing, Lasting
  <2> QED BY <1>1, <2>1
<1> QED BY <1>1, <1>2

LEMMA TickCacheInTime ==
  ASSUME Typed, Typed', Ageing(1), Tick, CacheInTime
  PROVE  CacheInTime'
<1> SUFFICES ASSUME NEW b \in Bindings, NEW u \in Users, NEW g \in Groups,
                    Live(b)', EntryWrong(b, u, g)'
             PROVE  settled'[b][u] <= cache'[g].age + MaxListing
  BY DEF CacheInTime
<1>1. cache[g] \in Entry /\ cache[g].age \in Nat /\ members' = members /\ drb' = drb
  BY TimesAssumption DEF Typed, Entry, Ages, Tick
<1>2. cache'[g] = IF cache[g].cached THEN [cache[g] EXCEPT !.age = AtMost(TTL, @ + 1)] ELSE cache[g]
  BY DEF Tick
<1>3. cache'[g].cached /\ cache'[g].age < TTL
  BY DEF EntryWrong, Fresh
<1>4. /\ cache[g].cached /\ cache'[g].members = cache[g].members
      /\ cache'[g].age = AtMost(TTL, cache[g].age + 1)
  BY <1>1, <1>2, <1>3 DEF Entry
<1>5. cache'[g].age = cache[g].age + 1 /\ cache[g].age < TTL
  BY <1>1, <1>3, <1>4, TimesAssumption DEF AtMost
<1>6. EntryWrong(b, u, g) /\ Live(b)
  BY <1>1, <1>4, <1>5 DEF EntryWrong, Fresh, Live
<1>7. settled[b][u] <= cache[g].age + MaxListing
  BY <1>6 DEF CacheInTime
<1>8. settled'[b][u] <= cache[g].age + 1 + MaxListing
  <2>1. cache[g].age + MaxListing \in Nat /\ cache[g].age + 1 + MaxListing \in Nat
    BY <1>1, TimesAssumption
  <2> QED BY <1>1, <1>7, <2>1, AgedInTime, TimesAssumption
<1> QED BY <1>1, <1>5, <1>8, TimesAssumption

\* While the worker waits for the directory, the bounds move with the listing.
LEMMA ListingTickInTime ==
  ASSUME Typed, Typed', Ageing(1), NEW base \in Nat, NEW spent \in Nat, InTime(base, spent), Tick,
         work.pc = "list", work.spent = spent, spent < MaxListing
  PROVE  work'.spent = spent + 1 /\ InTime(base, spent + 1)'
<1> DEFINE n == base + spent
           m == base + (spent + 1)
<1>1. n \in Nat /\ m \in Nat /\ n + 1 <= m
  OBVIOUS
<1> HIDE DEF n, m
<1>2. UNCHANGED <<members, drb, drbSeen, rb, rbSeen>>
  BY DEF Tick, informers
<1>3. work \in Listing /\ work.b \in Bindings /\ work.group \in Groups
  BY WorkKinds DEF Typed, Listing
<1>4. /\ work'.pc = "list" /\ work'.b = work.b /\ work'.copy = work.copy
      /\ work'.current = work.current /\ work'.todo = work.todo /\ work'.out = work.out
      /\ work'.group = work.group /\ work'.got = work.got /\ work'.pages = work.pages
      /\ work'.token = work.token /\ work'.spent = spent + 1
  <2>1. work' = [work EXCEPT !.spent = AtMost(MaxListing, @ + 1)]
    BY DEF Tick
  <2>2. AtMost(MaxListing, spent + 1) = spent + 1
    BY TimesAssumption DEF AtMost
  <2> QED BY <1>3, <2>1, <2>2 DEF Listing
<1>5. CacheInTime'
  BY TickCacheInTime DEF InTime
<1>6. ListingSound' /\ ListingInTime'
  <2>1. ~cache'[work.group].cached
    BY <1>3 DEF Tick, InTime, ListingSound
  <2>2. ListingSound'
    BY <1>4, <2>1, TimesAssumption DEF InTime, ListingSound, Used, UpTo
  <2>3. ASSUME NEW b \in Bindings, NEW u \in Users, Live(b)', GotWrong(b, u)'
        PROVE  settled'[b][u] <= spent + 1
    <3>1. GotWrong(b, u)
      BY <1>2, <1>4, <2>3 DEF GotWrong
    <3>2. Live(b) => settled[b][u] <= spent
      BY <3>1 DEF InTime, ListingInTime
    <3> QED BY <2>3, <3>2, AgedInTime
  <2> QED BY <1>4, <2>2, <2>3 DEF ListingInTime
<1>7. WorkSound' /\ WorkInTime(m)'
  <2>1. PICK b \in Bindings : b = work.b
    BY <1>3
  <2>2. WorkSound'
    BY <1>2, <1>4 DEF InTime, WorkSound, Working, Used
  <2>3. ASSUME NEW u \in Users, Live(b)', ~OnCourse(u)' \/ (~work'.current /\ Wrong(b, u)')
        PROVE  settled'[b][u] <= m
    <3>1. OnCourse(u)' = OnCourse(u)
      BY <1>2, <1>4 DEF OnCourse, Coming, Resolved
    <3>2. Wrong(b, u)' = Wrong(b, u) /\ Live(b)' = Live(b)
      BY <1>2 DEF Wrong, Live, Entitled, Resolved
    <3>3. Live(b) => settled[b][u] <= n
      BY <1>4, <2>1, <2>3, <3>1, <3>2 DEF InTime, WorkInTime, Working, n
    <3> QED BY <1>1, <2>3, <3>3, AgedInTime
  <2>4. WorkInTime(m)'
    BY <1>4, <2>1, <2>3 DEF WorkInTime, Live, Wrong
  <2> QED BY <2>2, <2>4
<1>8. TakenInTime(m)'
  BY <1>4 DEF TakenInTime
<1>9. SeenInTime(m)'
  <2> SUFFICES ASSUME NEW b \in Bindings, NEW u \in Users, Live(b)',
                      \/ drbSeen'[b].spec # drb'[b].spec
                      \/ ~rbSeen'[b].current /\ rbSeen'[b].rb.exists /\ Wrong(b, u)'
               PROVE  settled'[b][u] <= m
    BY DEF SeenInTime
  <2>1. Wrong(b, u)' = Wrong(b, u)
    BY <1>2 DEF Wrong, Live, Entitled, Resolved
  <2>2. Live(b) => settled[b][u] <= n
    BY <1>2, <2>1 DEF InTime, SeenInTime, n
  <2> QED BY <1>1, <2>2, AgedInTime
<1>10. DueInTime(base, spent + 1)'
  <2> SUFFICES ASSUME NEW b \in Bindings, NEW u \in Users, Live(b)', Wrong(b, u)'
               PROVE  settled'[b][u] <= base + MaxListing + Refresh
                                          + (IF timer'[b] > 0 THEN -timer'[b] ELSE spent + 1)
    BY DEF DueInTime
  <2>1. Wrong(b, u)
    BY <1>2 DEF Wrong, Live, Entitled, Resolved
  <2>2. timer[b] \in Int /\ timer[b] <= Refresh
    BY TimesAssumption DEF Typed, Ticks
  <2>3. timer'[b] = IF timer[b] > 0 THEN timer[b] - 1 ELSE timer[b]
    BY DEF Tick
  <2> DEFINE k == base + MaxListing + Refresh + (IF timer[b] > 0 THEN -timer[b] ELSE spent)
             l == base + MaxListing + Refresh + (IF timer'[b] > 0 THEN -timer'[b] ELSE spent + 1)
  <2>4. k \in Int /\ l \in Nat /\ k + 1 <= l
    BY <2>2, <2>3, TimesAssumption
  <2>5. Live(b) => settled[b][u] <= k
    BY <2>1 DEF InTime, DueInTime
  <2>6. PICK k0 \in Int, l0 \in Nat : k0 = k /\ l0 = l
    BY <2>4
  <2> HIDE DEF k, l
  <2>7. settled'[b][u] <= l0
    BY <2>4, <2>5, <2>6, AgedInTime
  <2> QED BY <2>6, <2>7 DEF l
<1> QED BY <1>4, <1>5, <1>6, <1>7, <1>8, <1>9, <1>10 DEF InTime, m

\* While the system waits, only timers and listings grow old.
LEMMA WaitingTickInTime ==
  ASSUME Typed, Typed', Ageing(1), NEW base \in Nat, NEW spent \in Nat, InTime(base, spent),
         NEW spent2 \in Nat, Tick, Waiting, Scheduled
  PROVE  InTime(base, spent2)'
<1>1. /\ UNCHANGED <<members, drb, drbSeen, rb, rbSeen>> /\ work' = Idle
      /\ \A b \in Bindings : drbSeen'[b] = drb'[b] /\ rbSeen'[b].current
  BY DEF Tick, Waiting, informers, Idle
<1>2. CacheInTime'
  BY TickCacheInTime DEF InTime
<1>3. /\ ListingSound' /\ ListingInTime' /\ WorkSound' /\ WorkInTime(base + spent2)'
      /\ TakenInTime(base + spent2)' /\ SeenInTime(base + spent2)'
  BY <1>1 DEF ListingSound, ListingInTime, WorkSound, WorkInTime, Working, TakenInTime, SeenInTime,
              Idle
<1>4. DueInTime(base, spent2)'
  <2> SUFFICES ASSUME NEW b \in Bindings, NEW u \in Users, Live(b)', Wrong(b, u)'
               PROVE  settled'[b][u] <= base + MaxListing + Refresh
                                          + (IF timer'[b] > 0 THEN -timer'[b] ELSE spent2)
    BY DEF DueInTime
  <2>1. Wrong(b, u) /\ Live(b)
    BY <1>1 DEF Wrong, Live, Entitled, Resolved
  <2>2. timer[b] \in Int /\ timer[b] <= Refresh /\ timer[b] > 0
    <3>1. timer[b] \in Int /\ timer[b] <= Refresh
      BY TimesAssumption DEF Typed, Ticks
    <3>2. timer[b] >= 0
      BY <2>1 DEF Waiting, Scheduled
    <3>3. timer[b] # 0
      BY DEF Waiting
    <3> QED BY <3>1, <3>2, <3>3
  <2>3. timer'[b] = timer[b] - 1
    BY <2>2 DEF Tick
  <2> DEFINE k == base + MaxListing + Refresh - timer[b]
             l == base + MaxListing + Refresh + (IF timer'[b] > 0 THEN -timer'[b] ELSE spent2)
  <2>4. k \in Int /\ l \in Nat /\ k + 1 <= l
    BY <2>2, <2>3, TimesAssumption
  <2>5. settled[b][u] <= k
    <3>1. settled[b][u] <= base + MaxListing + Refresh + (IF timer[b] > 0 THEN -timer[b] ELSE spent)
      BY <2>1 DEF InTime, DueInTime
    <3> QED BY <2>2, <3>1, TimesAssumption
  <2>6. PICK k0 \in Int, l0 \in Nat : k0 = k /\ l0 = l
    BY <2>4
  <2> HIDE DEF k, l
  <2>7. settled'[b][u] <= l0
    BY <2>4, <2>5, <2>6, AgedInTime
  <2> QED BY <2>6, <2>7 DEF l
<1> QED BY <1>2, <1>3, <1>4 DEF InTime

LEMMA TickInTime ==
  ASSUME Prompt, Typed, Typed', Ageing(1), NEW base \in Nat, NEW spent \in Nat, InTime(base, spent),
         NEW spent2 \in Nat, Tick, Scheduled,
         work.pc = "list" => spent = work.spent, work'.pc = "list" => spent2 = work'.spent
  PROVE  InTime(base, spent2)'
<1>1. CASE Waiting
  BY <1>1, WaitingTickInTime
<1>2. CASE work.pc = "list" /\ work.spent < MaxListing
  <2>1. work'.spent = spent + 1 /\ InTime(base, spent + 1)'
    BY <1>2, ListingTickInTime
  <2>2. work'.pc = "list"
    BY <1>2, WorkKinds DEF Tick, Typed, Listing
  <2>3. spent2 = spent + 1
    BY <2>1, <2>2
  <2> QED BY <2>1, <2>3
<1> QED BY <1>1, <1>2 DEF Tick

-----------------------------------------------------------------------------
(* Every live binding is scheduled *)

LEMMA VersionsNext == ASSUME Typed, Typed', Versions, Next PROVE Versions'
<1>1. \A b \in Bindings : drb[b].uid \in Nat /\ drbSeen[b].uid \in Nat /\ drb[b] \in Stored
  BY BoundsAssumption DEF Typed, Stored, Uids
<1>2. CASE UNCHANGED drb /\ \A b \in Bindings : drbSeen'[b] \in {drbSeen[b], drb[b]}
  BY <1>1, <1>2 DEF Versions, Live
<1>3. ASSUME NEW b \in Bindings, BindingChanges(b) PROVE Versions'
  <2>1. drbSeen' = drbSeen /\ \A c \in Bindings \ {b} : drb'[c] = drb[c]
    BY <1>3 DEF BindingChanges, CreateBinding, EditBinding, DeleteBinding, RemoveBinding,
                StoreBinding, informers, Typed
  <2>2. \/ drb'[b].uid = drb[b].uid + 1
        \/ drb'[b].uid = drb[b].uid /\ (Live(b)' => Live(b))
    <3>1. CASE CreateBinding(b)
      BY <3>1 DEF CreateBinding, StoreBinding, Typed
    <3>2. CASE EditBinding(b)
      BY <1>1, <3>2 DEF EditBinding, StoreBinding, Typed, Live, Stored
    <3>3. CASE DeleteBinding(b)
      BY <1>1, <3>3 DEF DeleteBinding, StoreBinding, Typed, Live, Stored
    <3>4. CASE RemoveBinding(b)
      BY <1>1, <3>4 DEF RemoveBinding, StoreBinding, Typed, Live, Stored
    <3> QED BY <1>3, <3>1, <3>2, <3>3, <3>4 DEF BindingChanges
  <2>3. drb'[b].uid \in Nat
    BY <1>1, <2>2
  <2> QED BY <1>1, <2>1, <2>2, <2>3 DEF Versions, Live
<1>4. ASSUME NEW b \in Bindings, Reconcile(b) PROVE Versions'
  BY <1>2, <1>4 DEF Reconcile, Start, GetRoleBinding, CreateRoleBinding, LookUp, ListPage,
                    UpdateRoleBinding, informers
<1>5. ASSUME NEW b \in Bindings, Trigger(b) PROVE Versions'
  BY <1>2, <1>5 DEF Trigger, SyncBinding, SyncRoleBinding, TimerFires, informers, Typed
<1>6. ASSUME NEW b \in Bindings, Collect(b) \/ EditRoleBinding(b) PROVE Versions'
  BY <1>2, <1>6, OthersWrite
<1>7. CASE ListError \/ WriteError \/ Tick \/ Restart \/ \E g \in Groups : ChangeGroup(g)
  BY <1>2, <1>7 DEF ListError, WriteError, Tick, Restart, ChangeGroup, informers
<1> QED BY <1>3, <1>4, <1>5, <1>6, <1>7 DEF Next, Quietly, Passing, Disturbing, BindingChanges

LEMMA ReconcileSchedules ==
  ASSUME Typed, Typed', Versions, Scheduled, NEW b \in Bindings, Reconcile(b)
  PROVE  Scheduled'
<1> SUFFICES ASSUME NEW c \in Bindings, Live(c)'
             PROVE  \/ c \in queue' \/ timer'[c] >= 0 \/ drbSeen'[c].uid # drb'[c].uid
                    \/ work' # Idle /\ work'.b = c
  BY DEF Scheduled
<1>1. UNCHANGED <<drb, drbSeen>> /\ Live(c)
  BY DEF Reconcile, Start, GetRoleBinding, CreateRoleBinding, LookUp, ListPage,
         UpdateRoleBinding, informers, Live
<1>2. \/ c \in queue \/ timer[c] >= 0 \/ drbSeen[c].uid # drb[c].uid
      \/ work # Idle /\ work.b = c
  BY <1>1 DEF Scheduled
<1>3. CASE Start(b)
  <2>1. work = Idle /\ timer' = timer /\ queue' = queue \ {b}
    BY <1>3, WorkKinds DEF Start, Typed, Work, Idle, Getting, Resolving, Listing
  <2>2. CASE c = b
    <3>1. CASE drbSeen[b].state = "live"
      BY <1>3, <2>2, <3>1 DEF Start, Idle
    <3>2. CASE drbSeen[b].state # "live"
      BY <1>1, <2>2, <3>2 DEF Versions
    <3> QED BY <3>1, <3>2
  <2> QED BY <1>1, <1>2, <2>1, <2>2
<1>4. ASSUME work # Idle, work.b = b,
             work'.pc \in {"get", "create", "resolve", "list"}, work'.b = b,
             queue' = queue, timer' = timer
      PROVE  \/ c \in queue' \/ timer'[c] >= 0 \/ drbSeen'[c].uid # drb'[c].uid
             \/ work' # Idle /\ work'.b = c
  BY <1>1, <1>2, <1>4 DEF Idle
<1>5. ASSUME work # Idle, work.b = b, queue' = queue \cup {b}, timer' = timer
      PROVE  c \in queue' \/ timer'[c] >= 0 \/ drbSeen'[c].uid # drb'[c].uid
  BY <1>1, <1>2, <1>5
<1>6. CASE work # Idle /\ work.b = b /\ GetRoleBinding
  BY <1>4, <1>6, WorkKinds DEF GetRoleBinding, Resolve, Typed, Getting
<1>7. CASE work # Idle /\ work.b = b /\ CreateRoleBinding
  BY <1>4, <1>5, <1>7 DEF CreateRoleBinding, Resolve, Fail, Add
<1>8. ASSUME work # Idle, work.b = b, NEW g \in Groups, LookUp(g)
      PROVE  \/ c \in queue' \/ timer'[c] >= 0 \/ drbSeen'[c].uid # drb'[c].uid
             \/ work' # Idle /\ work'.b = c
  <2>1. work \in Resolving /\ queue' = queue /\ timer' = timer
    BY <1>8, WorkKinds DEF LookUp, Typed
  <2>2. work'.pc \in {"resolve", "list"} /\ work'.b = b
    <3>1. CASE Fresh(cache[g])
      BY <1>8, <2>1, <3>1 DEF LookUp, Resolving
    <3>2. CASE ~Fresh(cache[g])
      BY <1>8, <3>2 DEF LookUp
    <3> QED BY <3>1, <3>2
  <2> QED BY <1>4, <1>8, <2>1, <2>2
<1>9. CASE work # Idle /\ work.b = b /\ ListPage
  <2>1. work \in Listing /\ queue' = queue /\ timer' = timer
    BY <1>9, WorkKinds DEF ListPage, Typed
  <2>2. work'.pc \in {"resolve", "list"} /\ work'.b = b
    <3>1. CASE \E got : Listed(got)
      BY <1>9, <3>1 DEF Listed
    <3>2. CASE ~\E got : Listed(got)
      BY <1>9, <2>1, <3>2 DEF ListPage, Listing
    <3> QED BY <3>1, <3>2
  <2> QED BY <1>4, <1>9, <2>1, <2>2
<1>10. CASE work # Idle /\ work.b = b /\ UpdateRoleBinding
  <2>1. CASE Requeue(b) /\ UNCHANGED queue
    <3>1. timer[b] \in Int /\ timer[b] >= -1
      BY TimesAssumption DEF Typed, Ticks
    <3>2. timer'[b] >= 0 /\ \A d \in Bindings \ {b} : timer'[d] = timer[d]
      BY <2>1, <3>1, TimesAssumption DEF Requeue, AtMost, Typed
    <3> QED BY <1>1, <1>2, <1>10, <2>1, <3>2
  <2>2. CASE queue' = queue \cup {b} /\ timer' = timer
    BY <1>5, <1>10, <2>2
  <2> QED BY <1>10, <2>1, <2>2 DEF UpdateRoleBinding, Fail, Add
<1> QED BY <1>3, <1>6, <1>7, <1>8, <1>9, <1>10 DEF Reconcile

LEMMA BindingSchedules ==
  ASSUME Typed, Typed', Versions, Scheduled, NEW b \in Bindings, BindingChanges(b)
  PROVE  Scheduled'
<1>1. /\ UNCHANGED <<drbSeen, queue, timer, work>>
      /\ \A c \in Bindings \ {b} : drb'[c] = drb[c]
  BY DEF BindingChanges, CreateBinding, EditBinding, DeleteBinding, RemoveBinding,
         StoreBinding, informers, Typed
<1>2. \A c \in Bindings : drb[c].uid \in Nat /\ drbSeen[c].uid \in Nat /\ drb[c] \in Stored
  BY BoundsAssumption DEF Typed, Stored, Uids
<1>3. \/ ~Live(b)' \/ drb'[b].uid = drb[b].uid + 1
      \/ drb'[b].uid = drb[b].uid /\ Live(b)
  <2>1. CASE CreateBinding(b)
    BY <2>1 DEF CreateBinding, StoreBinding, Typed
  <2>2. CASE EditBinding(b)
    BY <1>2, <2>2 DEF EditBinding, StoreBinding, Typed, Live, Stored
  <2>3. CASE DeleteBinding(b)
    BY <1>2, <2>3 DEF DeleteBinding, StoreBinding, Typed, Live, Stored
  <2>4. CASE RemoveBinding(b)
    BY <1>2, <2>4 DEF RemoveBinding, StoreBinding, Typed, Live, Stored
  <2> QED BY <2>1, <2>2, <2>3, <2>4 DEF BindingChanges
<1>4. drb'[b].uid = drb[b].uid + 1 => drbSeen[b].uid # drb'[b].uid
  BY <1>2 DEF Versions
<1> QED BY <1>1, <1>3, <1>4 DEF Scheduled, Live

LEMMA ScheduledNext == ASSUME Typed, Typed', Versions, Scheduled, Next PROVE Scheduled'
<1>1. ASSUME NEW b \in Bindings, Trigger(b) PROVE Scheduled'
  <2>1. /\ UNCHANGED <<drb, work>> /\ queue \subseteq queue'
        /\ \A c \in Bindings : timer'[c] = timer[c] \/ c \in queue'
        /\ \A c \in Bindings : drbSeen'[c] = drbSeen[c] \/ c \in queue'
    BY <1>1 DEF Trigger, SyncBinding, SyncRoleBinding, TimerFires, informers, Add, Typed
  <2> QED BY <2>1 DEF Scheduled, Live
<1>2. ASSUME NEW b \in Bindings, Collect(b) \/ EditRoleBinding(b) PROVE Scheduled'
  <2>1. PICK new \in Bound : WrittenByOthers(b, new)
    BY <1>2, OthersWrite
  <2>2. UNCHANGED <<drb, drbSeen, queue, timer>>
    BY <2>1 DEF WrittenByOthers
  <2>3. work # Idle => work' # Idle /\ work'.b = work.b
    <3>1. CASE work.pc = "resolve"
      BY <2>1, <3>1, WorkKinds DEF WrittenByOthers, Typed, Resolving, Idle
    <3>2. CASE work.pc = "list"
      BY <2>1, <3>2, WorkKinds DEF WrittenByOthers, Typed, Listing, Idle
    <3>3. CASE work.pc \notin {"resolve", "list"}
      BY <2>1, <3>3 DEF WrittenByOthers
    <3> QED BY <3>1, <3>2, <3>3
  <2> QED BY <2>2, <2>3 DEF Scheduled, Live
<1>3. CASE ListError \/ WriteError
  <2>1. /\ UNCHANGED <<drb, drbSeen, timer>> /\ work.b \in Bindings
        /\ queue' = queue \cup {work.b}
    BY <1>3, WorkKinds DEF ListError, ListFails, WriteError, Fail, Add, informers, Typed, Idle,
                           Getting, Resolving
  <2> QED BY <2>1 DEF Scheduled, Live
<1>4. CASE Tick
  <2>1. /\ UNCHANGED <<drb, drbSeen, queue>>
        /\ \A c \in Bindings : timer[c] \in Int /\ (timer[c] >= 0 => timer'[c] >= 0)
    BY <1>4, TimesAssumption DEF Tick, informers, Typed, Ticks
  <2>2. work # Idle => work' # Idle /\ work'.b = work.b
    BY <1>4, WorkKinds DEF Tick, Typed, Listing, Idle
  <2> QED BY <2>1, <2>2 DEF Scheduled, Live
<1>5. CASE Restart
  BY <1>5 DEF Restart, Scheduled, Live
<1>6. CASE \E g \in Groups : ChangeGroup(g)
  BY <1>6 DEF ChangeGroup, Scheduled, Live, informers
<1>7. ASSUME NEW b \in Bindings, Reconcile(b) PROVE Scheduled'
  BY <1>7, ReconcileSchedules
<1>8. ASSUME NEW b \in Bindings, BindingChanges(b) PROVE Scheduled'
  BY <1>8, BindingSchedules
<1> QED BY <1>1, <1>2, <1>3, <1>4, <1>5, <1>6, <1>7, <1>8
        DEF Next, Quietly, Passing, Disturbing, BindingChanges

-----------------------------------------------------------------------------
(* The bounds, and what they come to *)

\* Listings take no time, or there is but one group for them to be of.
OneListing == MaxListing = 0 \/ \E g : Used \subseteq {g}

Swift ==
  /\ Prompt /\ TTL > 0 /\ OneListing
  /\ Cardinality(Users) <= PerPage * GoogleMaxPages

InTimeNow ==
  \A base \in Nat, spent \in Nat : base = Base /\ spent = Spent => InTime(base, spent)

SettleInv == Typed /\ Counted /\ Versions /\ Scheduled /\ InTimeNow

LEMMA BoundsTyped ==
  ASSUME Typed, Counted, TTL > 0
  PROVE  Base \in Nat /\ Base + 1 >= TTL /\ Spent \in Nat
<1>1. failures * MaxListing \in Nat
  BY BoundsAssumption, TimesAssumption DEF Counted
<1>2. Base \in Nat /\ Base + 1 >= TTL
  BY <1>1, TimesAssumption DEF Base
<1>3. Spent \in Nat
  <2>1. CASE work.pc = "list"
    BY <2>1, WorkKinds DEF Spent, Typed, Listing
  <2>2. CASE work.pc # "list"
    BY <2>2, TimesAssumption DEF Spent
  <2> QED BY <2>1, <2>2
<1> QED BY <1>2, <1>3

\* The steps that take no time, and unsettle whom another writer's disturb.
InstantStep ==
  \/ \E b \in Bindings :
       \/ Reconcile(b) \/ Trigger(b) \/ BindingChanges(b)
       \/ (Collect(b) \/ EditRoleBinding(b)) /\ \A u \in Users : ~Lasting(b, u)
  \/ ListError \/ WriteError
  \/ \E g \in Groups : ChangeGroup(g)

LEMMA BoundsNext ==
  ASSUME SettleInv, Typed', Counted', Swift, InstantStep,
         NEW base \in Nat, NEW spent \in Nat, base = Base, spent = Spent,
         NEW base2 \in Nat, NEW spent2 \in Nat, base2 = Base', spent2 = Spent'
  PROVE  Onward(base, spent, base2, spent2)
<1>0. InTime(base, spent)
  BY DEF SettleInv, InTimeNow
<1>1. spent <= MaxListing
  <2>1. work.pc = "list" => work.spent <= MaxListing
    BY <1>0 DEF InTime, ListingSound
  <2> QED BY <2>1, TimesAssumption DEF Spent
<1>2. failures * MaxListing \in Nat /\ failures \in Nat
  BY BoundsAssumption, TimesAssumption DEF SettleInv, Counted
<1>3. CASE /\ UNCHANGED <<failures, cache>> /\ (work.pc = "list" <=> work'.pc = "list")
           /\ work.pc = "list" => work'.spent = work.spent
  <2>1. base2 = base
    BY <1>3 DEF Base
  <2>2. spent2 = spent
    BY <1>3 DEF Spent, Fresh
  <2> QED BY <1>1, <2>1, <2>2 DEF Onward
<1>4. CASE ListError \/ WriteError
  <2>1. failures' = failures + 1 /\ work'.pc = "idle"
    BY <1>4 DEF ListError, ListFails, WriteError, Fail, Finish, Idle
  <2>2. base2 = base + MaxListing
    <3>1. (failures + 1) * MaxListing = failures * MaxListing + MaxListing
      BY <1>2, TimesAssumption
    <3> QED BY <1>2, <2>1, <3>1, TimesAssumption DEF Base
  <2>3. spent2 <= MaxListing
    BY <2>1, TimesAssumption DEF Spent
  <2>4. Onward(base, spent, base + MaxListing, spent2)
    BY <1>1, <2>3, TimesAssumption DEF Onward, Base, Spent
  <2> QED BY <2>2, <2>4
<1>5. ASSUME NEW g \in Groups, LookUp(g) PROVE Onward(base, spent, base2, spent2)
  <2>1. work \in Resolving /\ failures' = failures /\ work.pc = "resolve"
    BY <1>5, WorkKinds DEF LookUp, SettleInv, Typed, budgets
  <2>2. CASE Fresh(cache[g])
    <3>1. UNCHANGED cache /\ work'.pc = "resolve"
      BY <1>5, <2>1, <2>2 DEF LookUp, Resolving
    <3> QED BY <1>3, <2>1, <3>1
  <2>3. CASE ~Fresh(cache[g])
    <3>1. work'.pc = "list" /\ work'.spent = 0
      BY <1>5, <2>3 DEF LookUp
    <3>2. g \in Used
      BY <1>0, <1>5, <2>1 DEF LookUp, InTime, WorkSound, Working
    <3>3. spent = 0 /\ spent2 = 0
      BY <2>1, <2>3, <3>1, <3>2 DEF Spent
    <3>4. base2 = base
      BY <2>1 DEF Base
    <3> QED BY <3>3, <3>4, TimesAssumption DEF Onward
  <2> QED BY <2>2, <2>3
<1>6. CASE ListPage
  <2>1. work \in Listing /\ failures' = failures /\ work.pc = "list" /\ work.group \in Groups
    BY <1>6, WorkKinds DEF ListPage, SettleInv, Typed, budgets, Listing
  <2>2. CASE \E got : Listed(got)
    <3>1. /\ work'.pc = "resolve" /\ cache'[work.group].cached /\ cache'[work.group].age = 0
      BY <2>1, <2>2 DEF Listed, Cached, SettleInv, Typed
    <3>2. PICK g \in Groups : g = work.group
      BY <2>1
    <3>3. Fresh(cache'[g]) /\ g \in Used
      BY <1>0, <2>1, <3>1, <3>2, TimesAssumption DEF Fresh, InTime, ListingSound, Swift
    <3>4. MaxListing = 0 \/ Used \subseteq {g}
      BY <3>3 DEF Swift, OneListing
    <3>5. (\A h \in Used : Fresh(cache'[h])) \/ MaxListing = 0
      BY <3>3, <3>4
    <3>6. spent2 = MaxListing
      BY <3>1, <3>5 DEF Spent, Fresh, Used
    <3>7. base2 = base
      BY <2>1 DEF Base
    <3> QED BY <1>1, <3>6, <3>7, TimesAssumption DEF Onward
  <2>3. CASE ~\E got : Listed(got)
    <3>1. UNCHANGED cache /\ work'.pc = "list" /\ work'.spent = work.spent
      BY <1>6, <2>1, <2>3 DEF ListPage, Listing
    <3> QED BY <1>3, <2>1, <3>1
  <2> QED BY <2>2, <2>3
<1>7. ASSUME NEW b \in Bindings,
             Start(b) \/ GetRoleBinding \/ CreateRoleBinding \/ UpdateRoleBinding
      PROVE  Onward(base, spent, base2, spent2)
  <2>1. UNCHANGED <<failures, cache>> /\ work.pc # "list" /\ work'.pc # "list"
    <3>1. CASE Start(b)
      BY <3>1 DEF Start, Finish, Idle, budgets
    <3>2. CASE GetRoleBinding
      <4>1. work \in Getting
        BY <3>2, WorkKinds DEF GetRoleBinding, SettleInv, Typed
      <4> QED BY <3>2, <4>1 DEF GetRoleBinding, Resolve, Getting, budgets
    <3>3. CASE CreateRoleBinding
      BY <3>3 DEF CreateRoleBinding, Fail, Finish, Resolve, Idle, budgets
    <3>4. CASE UpdateRoleBinding
      BY <3>4 DEF UpdateRoleBinding, Fail, Finish, Idle, budgets
    <3> QED BY <1>7, <3>1, <3>2, <3>3, <3>4
  <2> QED BY <1>3, <2>1
<1>8. ASSUME NEW b \in Bindings, Trigger(b) \/ BindingChanges(b)
      PROVE  Onward(base, spent, base2, spent2)
  BY <1>3, <1>8 DEF Trigger, SyncBinding, SyncRoleBinding, TimerFires, BindingChanges, CreateBinding,
                    EditBinding, DeleteBinding, RemoveBinding, StoreBinding, Change, budgets
<1>9. ASSUME NEW g \in Groups, ChangeGroup(g) PROVE Onward(base, spent, base2, spent2)
  BY <1>3, <1>9 DEF ChangeGroup, Change
<1>10. ASSUME NEW b \in Bindings, Collect(b) \/ EditRoleBinding(b)
       PROVE  Onward(base, spent, base2, spent2)
  <2>1. PICK new \in Bound : WrittenByOthers(b, new)
    BY <1>10, OthersWrite DEF SettleInv
  <2>2. UNCHANGED <<failures, cache>>
    BY <1>10, <2>1 DEF Collect, EditRoleBinding, WrittenByOthers, Change, budgets
  <2>3. work'.pc = work.pc /\ (work.pc = "list" => work'.spent = work.spent)
    <3>1. CASE work.pc = "resolve"
      BY <2>1, <3>1, WorkKinds DEF WrittenByOthers, SettleInv, Typed, Resolving
    <3>2. CASE work.pc = "list"
      BY <2>1, <3>2, WorkKinds DEF WrittenByOthers, SettleInv, Typed, Listing
    <3>3. CASE work.pc \notin {"resolve", "list"}
      BY <2>1, <3>3 DEF WrittenByOthers
    <3> QED BY <3>1, <3>2, <3>3
  <2> QED BY <1>3, <2>2, <2>3
<1> QED BY <1>4, <1>5, <1>6, <1>7, <1>8, <1>9, <1>10
        DEF InstantStep, Reconcile

LEMMA InstantNext ==
  ASSUME SettleInv, Typed', Counted', Swift, InstantStep, Ageing(0)
  PROVE  InTimeNow'
<1> SUFFICES ASSUME NEW base2 \in Nat, NEW spent2 \in Nat, base2 = Base', spent2 = Spent'
             PROVE  InTime(base2, spent2)'
  BY DEF InTimeNow
<1>1. Base \in Nat /\ Spent \in Nat /\ Base + 1 >= TTL
  BY BoundsTyped DEF SettleInv, Swift
<1>2. PICK base \in Nat, spent \in Nat : base = Base /\ spent = Spent
  BY <1>1
<1>3. InTime(base, spent)
  BY <1>2 DEF SettleInv, InTimeNow
<1>4. Instant(base, spent, base2, spent2)
  BY <1>2, <1>3, BoundsNext DEF Instant, SettleInv
<1>5. ASSUME NEW b \in Bindings, Reconcile(b) PROVE InTime(base2, spent2)'
  <2>1. ASSUME NEW g \in Groups, LookUp(g) PROVE InTime(base2, spent2)'
    <3>1. Fresh(cache[g]) => spent = MaxListing
      <4>1. g \in Used /\ work.pc = "resolve"
        BY <1>3, <2>1 DEF LookUp, InTime, WorkSound, Working
      <4>2. MaxListing = 0 \/ Used \subseteq {g}
        BY <4>1 DEF Swift, OneListing
      <4> QED BY <1>2, <4>1, <4>2 DEF Spent
    <3>2. TTL <= base + 1
      BY <1>1, <1>2
    <3> QED BY <1>4, <2>1, <3>1, <3>2, LookUpInTime
  <2>2. CASE ListPage
    <3>1. spent = work.spent /\ Cardinality(Users) <= PerPage * GoogleMaxPages
      BY <1>2, <2>2 DEF ListPage, Spent, Swift
    <3> QED BY <1>4, <2>2, <3>1, ListPageInTime
  <2> QED BY <1>4, <1>5, <2>1, <2>2, StartInTime, GetInTime, CreateInTime, UpdateInTime
          DEF Reconcile
<1>6. CASE ListError \/ WriteError
  BY <1>4, <1>6, EndInTime, WriteErrorInTime DEF ListError, ListFails, Fail, Finish
<1>7. ASSUME NEW b \in Bindings, Collect(b) \/ EditRoleBinding(b), \A u \in Users : ~Lasting(b, u)
      PROVE  InTime(base2, spent2)'
  BY <1>4, <1>7, OthersInTime
<1>8. ASSUME NEW b \in Bindings, Trigger(b) PROVE InTime(base2, spent2)'
  BY <1>4, <1>8, TriggerInTime
<1>9. CASE (\E g \in Groups : ChangeGroup(g)) \/ \E b \in Bindings : BindingChanges(b)
  BY <1>4, <1>9, EnvironmentInTime
<1> QED BY <1>5, <1>6, <1>7, <1>8, <1>9
        DEF InstantStep

LEMMA TickNext ==
  ASSUME SettleInv, Typed', Counted', Swift, Tick, Ageing(1), UNCHANGED failures
  PROVE  InTimeNow'
<1> SUFFICES ASSUME NEW base2 \in Nat, NEW spent2 \in Nat, base2 = Base', spent2 = Spent'
             PROVE  InTime(base2, spent2)'
  BY DEF InTimeNow
<1>1. Base \in Nat /\ Spent \in Nat
  BY BoundsTyped DEF SettleInv, Swift
<1>2. PICK base \in Nat, spent \in Nat : base = Base /\ spent = Spent
  BY <1>1
<1>3. InTime(base, spent)
  BY <1>2 DEF SettleInv, InTimeNow
<1>4. base2 = base
  BY <1>2 DEF Base
<1>5. /\ work.pc = "list" => spent = work.spent
      /\ work'.pc = "list" => spent2 = work'.spent
  BY <1>2 DEF Spent
<1> QED BY <1>3, <1>4, <1>5, TickInTime DEF SettleInv, Swift

\* A restart unsettles everyone, as the start of the system does.
Unsettled ==
  /\ work = Idle /\ \A b \in Bindings, u \in Users : settled[b][u] = 0
  /\ \A b \in Bindings : timer[b] \in Int /\ timer[b] <= Refresh
  /\ \A g \in Groups : cache[g].age \in Nat

LEMMA UnsettledInTime == Unsettled => InTimeNow
<1> SUFFICES ASSUME Unsettled PROVE InTimeNow
  OBVIOUS
<1>1. ListingSound
  BY DEF Unsettled, ListingSound, Idle
<1>2. ASSUME NEW base \in Nat, NEW spent \in Nat PROVE InTime(base, spent)
  <2>1. CacheInTime
    BY TimesAssumption DEF Unsettled, CacheInTime
  <2>2. ListingInTime /\ WorkSound /\ WorkInTime(base + spent) /\ TakenInTime(base + spent)
    BY DEF Unsettled, ListingInTime, WorkSound, WorkInTime, TakenInTime, Working, Idle
  <2>3. SeenInTime(base + spent)
    BY DEF Unsettled, SeenInTime
  <2>4. DueInTime(base, spent)
    BY TimesAssumption DEF Unsettled, DueInTime
  <2> QED BY <1>1, <2>1, <2>2, <2>3, <2>4 DEF InTime
<1> QED BY <1>1, <1>2 DEF InTimeNow

LEMMA SettleInit == Init => SettleInv
<1> SUFFICES ASSUME Init PROVE SettleInv
  OBVIOUS
<1>1. Typed
  BY InitTyped
<1>2. Counted
  BY BoundsAssumption DEF Init, Counted
<1>3. Versions /\ Scheduled
  <2>1. \A b \in Bindings : drb[b].state = "live" /\ drb[b].uid = 1 /\ drbSeen[b] = drb[b]
    BY DEF Init
  <2> QED BY <2>1 DEF Init, Versions, Scheduled
<1>4. Unsettled
  BY TimesAssumption DEF Init, Unsettled, NotCached
<1> QED BY <1>1, <1>2, <1>3, <1>4, UnsettledInTime DEF SettleInv

LEMMA RestartUnsettles ==
  ASSUME Restart, \A b \in Bindings, u \in Users : settled'[b][u] = 0
  PROVE  InTimeNow'
<1>1. Unsettled'
  <2>1. \A b \in Bindings : timer'[b] = -1
    BY DEF Restart
  <2>2. \A g \in Groups : cache'[g].age = 0
    BY DEF Restart, NotCached
  <2> QED BY <2>1, <2>2, TimesAssumption DEF Unsettled, Restart, Finish
<1> QED BY <1>1, UnsettledInTime, PTL

LEMMA InstantKept ==
  ASSUME SettleInv, Typed', settled' \in [Bindings -> [Users -> Nat]], Swift, InstantStep, Ageing(0)
  PROVE  Counted' /\ InTimeNow'
<1>1. failures' = failures \/ (failures < MaxFailures /\ failures' = failures + 1)
  <2>1. ASSUME NEW b \in Bindings, Reconcile(b) \/ Trigger(b) \/ BindingChanges(b)
        PROVE  failures' = failures
    BY <2>1 DEF Reconcile, Start, GetRoleBinding, CreateRoleBinding, LookUp, ListPage,
                UpdateRoleBinding, Trigger, SyncBinding, SyncRoleBinding, TimerFires,
                BindingChanges, CreateBinding, EditBinding, DeleteBinding, RemoveBinding,
                Change, budgets
  <2>2. ASSUME NEW b \in Bindings, Collect(b) \/ EditRoleBinding(b)
        PROVE  failures' = failures
    BY <2>2 DEF Collect, EditRoleBinding, Change, budgets
  <2> QED BY <2>1, <2>2 DEF InstantStep, ListError, WriteError, ChangeGroup, Change
<1>2. failures' \in 0..MaxFailures
  BY <1>1, BoundsAssumption DEF SettleInv, Counted
<1>3. Counted'
  BY <1>2 DEF Counted
<1>4. InTimeNow'
  BY <1>3, InstantNext
<1> QED BY <1>3, <1>4

LEMMA SettleNext == ASSUME SettleInv, Swift, Next PROVE SettleInv'
<1>1. Typed' /\ Versions' /\ Scheduled'
  BY NextTyped, VersionsNext, ScheduledNext DEF SettleInv
<1>2. ASSUME NEW disturbed, Age(0, disturbed), InstantStep,
             \A b \in Bindings : b \in disturbed \/ drb'[b] = drb[b] \/ ~Live(b)'
      PROVE  SettleInv'
  BY <1>1, <1>2, AgeSettles, InstantKept DEF SettleInv
<1>3. ASSUME NEW b \in Bindings, Reconcile(b) \/ Trigger(b), Age(0, {}) PROVE SettleInv'
  <2>1. drb' = drb
    BY <1>3 DEF Reconcile, Start, GetRoleBinding, CreateRoleBinding, LookUp, ListPage,
                UpdateRoleBinding, Trigger, SyncBinding, SyncRoleBinding, TimerFires
  <2> QED BY <1>2, <1>3, <2>1 DEF InstantStep
<1>4. ASSUME NEW b \in Bindings, RemoveBinding(b), Age(0, {}) PROVE SettleInv'
  <2>1. ~Live(b)' /\ \A c \in Bindings \ {b} : drb'[c] = drb[c]
    BY <1>4 DEF RemoveBinding, StoreBinding, Live, SettleInv, Typed, Stored
  <2> QED BY <1>2, <1>4, <2>1 DEF InstantStep, BindingChanges
<1>5. ASSUME NEW b \in Bindings, CreateBinding(b) \/ EditBinding(b) \/ DeleteBinding(b), Age(0, {b})
      PROVE  SettleInv'
  <2>1. \A c \in Bindings \ {b} : drb'[c] = drb[c]
    BY <1>5 DEF CreateBinding, EditBinding, DeleteBinding, StoreBinding, SettleInv, Typed
  <2> QED BY <1>2, <1>5, <2>1 DEF InstantStep, BindingChanges
<1>6. ASSUME NEW b \in Bindings, Collect(b) \/ EditRoleBinding(b), Age(0, {b}) PROVE SettleInv'
  <2>1. drb' = drb
    BY <1>6, OthersWrite DEF SettleInv
  <2>2. \A u \in Users : ~Lasting(b, u)
    BY <1>6, <2>1, AgeSettles DEF SettleInv
  <2> QED BY <1>2, <1>6, <2>1, <2>2 DEF InstantStep
<1>7. CASE (ListError \/ WriteError \/ \E g \in Groups : ChangeGroup(g)) /\ Age(0, {})
  <2>1. drb' = drb
    BY <1>7 DEF ListError, WriteError, ChangeGroup
  <2> QED BY <1>2, <1>7, <2>1 DEF InstantStep
<1>8. CASE Passing
  <2>1. drb' = drb /\ failures' = failures
    BY <1>8 DEF Passing, Tick, budgets
  <2>2. settled' \in [Bindings -> [Users -> Nat]] /\ Ageing(1)
    BY <1>8, <2>1, AgeSettles DEF Passing, SettleInv
  <2>3. Counted'
    BY <2>1, <2>2 DEF SettleInv, Counted
  <2>4. InTimeNow'
    BY <1>1, <1>8, <2>1, <2>2, <2>3, TickNext DEF Passing
  <2> QED BY <1>1, <2>3, <2>4 DEF SettleInv
<1>9. CASE Restart /\ Age(0, Bindings)
  <2>1. settled' = [b \in Bindings |-> [u \in Users |-> 0]]
    BY <1>9 DEF Age
  <2>2. Counted'
    <3>1. failures' \in 0..MaxFailures
      BY <1>9, BoundsAssumption DEF Restart, SettleInv, Counted
    <3> QED BY <2>1, <3>1 DEF Counted
  <2>3. InTimeNow'
    BY <1>9, <2>1, RestartUnsettles
  <2> QED BY <1>1, <2>2, <2>3 DEF SettleInv
<1> QED BY <1>3, <1>4, <1>5, <1>6, <1>7, <1>8, <1>9 DEF Next, Quietly, Passing, Disturbing

LEMMA SettleStutters == SettleInv /\ UNCHANGED vars => SettleInv'
<1> SUFFICES ASSUME SettleInv, UNCHANGED vars PROVE SettleInv'
  OBVIOUS
<1>1. /\ UNCHANGED <<members, drb, drbSeen, rb, rbSeen, queue, timer, cache, work>>
      /\ UNCHANGED <<settled, failures>>
  BY DEF vars, informers, history, budgets
<1>2. Typed' /\ Counted' /\ Versions' /\ Scheduled'
  BY <1>1 DEF SettleInv, Typed, Counted, Versions, Scheduled, Live
<1>3. ASSUME NEW base \in Nat, NEW spent \in Nat, InTime(base, spent)
      PROVE  InTime(base, spent)'
  BY <1>1, <1>3 DEF InTime, CacheInTime, ListingInTime, ListingSound, WorkSound, WorkInTime,
                    SeenInTime, TakenInTime, DueInTime, EntryWrong, GotWrong, OnCourse, Coming,
                    Working, Wrong, Entitled, Resolved, Live, Fresh, UpTo
<1>4. Base' = Base /\ Spent' = Spent
  BY <1>1 DEF Base, Spent, Fresh
<1>5. InTimeNow'
  BY <1>3, <1>4 DEF SettleInv, InTimeNow
<1> QED BY <1>2, <1>5 DEF SettleInv

\* The longest that a change may take to show: a listing made before it lives for a TTL in the
\* cache, the timer that would have it replaced may have been set when it was read last, and
\* listings, one more for every failure, come before and in between.
Delay == TTL + Refresh + (2 + MaxFailures) * MaxListing

LEMMA SettledInTime ==
  ASSUME SettleInv, Swift, Horizon >= Delay
  PROVE  SettledAccess
<1> SUFFICES ASSUME NEW b \in Bindings, Live(b), NEW u \in Users, Wrong(b, u)
             PROVE  ~(settled[b][u] >= Horizon)
  BY DEF SettledAccess, Live, Wrong
<1>1. Base \in Nat /\ Spent \in Nat
  BY BoundsTyped DEF SettleInv, Swift
<1>2. InTime(Base, Spent)
  BY <1>1 DEF SettleInv, InTimeNow
<1>3. Spent <= MaxListing
  <2>1. work.pc = "list" => work.spent <= MaxListing
    BY <1>2 DEF InTime, ListingSound
  <2> QED BY <2>1, TimesAssumption DEF Spent
<1>4. settled[b][u] <= Base + MaxListing + Refresh + (IF timer[b] > 0 THEN -timer[b] ELSE Spent)
  BY <1>2 DEF InTime, DueInTime
<1>5. settled[b][u] \in Nat /\ timer[b] \in Int
  BY TimesAssumption DEF SettleInv, Counted, Typed, Ticks
<1>6. settled[b][u] <= Base + MaxListing + Refresh + MaxListing
  BY <1>1, <1>3, <1>4, <1>5, TimesAssumption
<1>7. failures * MaxListing <= MaxFailures * MaxListing
  <2>1. PICK k \in Nat : MaxFailures = failures + k
    BY BoundsAssumption DEF SettleInv, Counted
  <2>2. failures \in Nat
    BY BoundsAssumption DEF SettleInv, Counted
  <2>3. MaxFailures * MaxListing = failures * MaxListing + k * MaxListing
    BY <2>1, <2>2, TimesAssumption
  <2>4. k * MaxListing \in Nat /\ failures * MaxListing \in Nat
    BY <2>2, TimesAssumption
  <2> QED BY <2>3, <2>4
<1>8. Delay = TTL + Refresh + MaxListing + MaxListing + MaxFailures * MaxListing
      /\ MaxFailures * MaxListing \in Nat /\ failures * MaxListing \in Nat
  BY BoundsAssumption, TimesAssumption DEF Delay, SettleInv, Counted
<1> QED BY <1>5, <1>6, <1>7, <1>8, TimesAssumption DEF Base

\* When only the directory takes time, and there is time for every user of a group to be
\* listed, an access has come or gone Delay after the last change: nothing that was old when
\* it was read, in the cache, an informer or the worker, outlives it.
THEOREM AccessSettles ==
  ASSUME Swift, Horizon >= Delay
  PROVE  Spec => []SettledAccess
<1>1. SettleInv /\ [Next]_vars => SettleInv'
  BY SettleNext, SettleStutters
<1>2. SettleInv => SettledAccess
  BY SettledInTime
<1> QED BY <1>1, <1>2, SettleInit, PTL DEF Spec
-----------------------------------------------------------------------------
(* What the controller is told of *)

\* As far as the informer knows the binding lives, and no event of it waits.
Quiet(b) == b \notin queue /\ drbSeen[b].state = "live"

\* The RoleBinding is the binding's own, and the informer's copy is the stored one.
Owned(b) == rbSeen[b].current /\ rb[b].owner # 0

\* What the informer has of a binding fits its RoleBinding, unless the worker is on it: then
\* it is what the worker started from, and what is put together fits it so far.
LeftFitting(b) ==
  Quiet(b) /\ ~(work # Idle /\ work.b = b) /\ Owned(b) => Fits(drbSeen[b].spec, rb[b].subjects)

Begun == work.spec = drbSeen[work.b].spec

Underway ==
  /\ Fits(drbSeen[work.b].spec, work.out)
  /\ work.todo \subseteq drbSeen[work.b].spec.groups
  /\ Owned(work.b) => work.copy = rb[work.b]

WorkFitting ==
  work # Idle /\ Quiet(work.b) =>
    /\ work.pc \in {"get", "create"} => Begun
    /\ work.pc \in {"resolve", "list"} => Underway
    /\ work.pc = "list" => work.group \in drbSeen[work.b].spec.groups

Fitting == WorkFitting /\ \A b \in Bindings : LeftFitting(b)

NoticedInv == EntitledInv /\ Versions /\ Scheduled /\ Fitting

LEMMA FitsGrows ==
  ASSUME Grown, NEW spec \in Specs, NEW S, Fits(spec, S)
  PROVE  Fits(spec, S)'
BY SpecTypes DEF Grown, Fits

\* Members, past or present, of a group of the specification may be added.
LEMMA FitsMore ==
  ASSUME NEW spec \in Specs, NEW S, Fits(spec, S), NEW g \in spec.groups,
         NEW more, more \subseteq everIn[g]
  PROVE  Fits(spec, S \cup more)
BY DEF Fits

LEMMA FitsNamed == ASSUME NEW spec \in Specs PROVE Fits(spec, spec.users)
BY DEF Fits

\* A binding that the worker is not on, before and after a step, or that is woken by it.
LEMMA LeftStays ==
  ASSUME EntitledInv, Fitting, Grown, NEW b \in Bindings,
         \/ ~Quiet(b)' \/ ~Owned(b)' \/ (work' # Idle /\ work'.b = b)
         \/ /\ Quiet(b) /\ Owned(b) /\ ~(work # Idle /\ work.b = b)
            /\ drbSeen'[b] = drbSeen[b] /\ rb'[b] = rb[b]
  PROVE  LeftFitting(b)'
<1>1. drbSeen[b].spec \in Specs
  BY DEF EntitledInv, Typed, Stored
<1> QED BY <1>1, FitsGrows DEF Fitting, LeftFitting

\* The worker goes on with a binding that others leave alone, or that they wake it for.
LEMMA WorkStaysFitting ==
  ASSUME EntitledInv, Fitting, Grown, NEW b \in Bindings, work # Idle, work.b = b,
         work' # Idle, work'.b = b, work'.pc = work.pc,
         work.pc \in {"get", "create"} => work'.spec = work.spec,
         work.pc \in {"resolve", "list"} =>
           work'.out = work.out /\ work'.todo = work.todo /\ work'.copy = work.copy,
         work.pc = "list" => work'.group = work.group,
         \/ ~Quiet(b)'
         \/ /\ Quiet(b) /\ drbSeen'[b] = drbSeen[b]
            /\ Owned(b)' => Owned(b) /\ rb'[b] = rb[b]
  PROVE  WorkFitting'
<1> SUFFICES ASSUME Quiet(b)' PROVE WorkFitting'
  BY DEF WorkFitting
<1>1. Quiet(b) /\ drbSeen'[b] = drbSeen[b] /\ (Owned(b)' => Owned(b) /\ rb'[b] = rb[b])
  OBVIOUS
<1>2. drbSeen[b].spec \in Specs
  BY DEF EntitledInv, Typed, Stored
<1>3. work.pc \in {"get", "create"} => Begun'
  BY <1>1 DEF Fitting, WorkFitting, Begun
<1>4. work.pc \in {"resolve", "list"} => Underway'
  <2> SUFFICES ASSUME work.pc \in {"resolve", "list"} PROVE Underway'
    OBVIOUS
  <2>1. Underway
    BY <1>1 DEF Fitting, WorkFitting
  <2>2. Fits(drbSeen[b].spec, work.out)'
    <3>1. Fits(drbSeen[b].spec, work.out)
      BY <2>1 DEF Underway
    <3>2. PICK spec, S : spec \in Specs /\ spec = drbSeen[b].spec /\ S = work.out
      BY <1>2
    <3>3. Fits(spec, S)'
      BY <3>1, <3>2, FitsGrows
    <3> QED BY <1>1, <3>2, <3>3
  <2> QED BY <1>1, <2>1, <2>2 DEF Underway
<1>5. work.pc = "list" => work'.group \in drbSeen'[b].spec.groups
  BY <1>1 DEF Fitting, WorkFitting
<1> QED BY <1>3, <1>4, <1>5 DEF WorkFitting

\* The worker touches no binding but the one that it is on.
LEMMA OthersLeft ==
  ASSUME EntitledInv, Fitting, Grown, NEW b \in Bindings, LeftFitting(b)',
         drbSeen' = drbSeen, queue \subseteq queue' \cup {b},
         \A c \in Bindings \ {b} : rb'[c] = rb[c] /\ rbSeen'[c] = rbSeen[c],
         work # Idle => work.b = b
  PROVE  \A c \in Bindings : LeftFitting(c)'
<1> SUFFICES ASSUME NEW c \in Bindings \ {b} PROVE LeftFitting(c)'
  OBVIOUS
<1>1. Quiet(c)' => Quiet(c)
  BY DEF Quiet
<1>2. Owned(c)' => Owned(c)
  BY DEF Owned
<1> QED BY <1>1, <1>2, LeftStays

LEMMA StartFits ==
  ASSUME EntitledInv, Fitting, Grown, NEW b \in Bindings, Start(b)
  PROVE  Fitting'
<1>1. work = Idle /\ drbSeen' = drbSeen /\ queue' = queue \ {b} /\ UNCHANGED <<rb, rbSeen>>
  BY WorkKinds DEF Start, informers, EntitledInv, Typed, Work, Idle, Getting, Resolving, Listing
<1>2. CASE drbSeen[b].state = "live"
  <2>1. work'.pc = "get" /\ work'.b = b /\ work'.spec = drbSeen[b].spec
    BY <1>2 DEF Start
  <2>2. work' # Idle
    BY <2>1 DEF Idle
  <2>3. WorkFitting'
    BY <1>1, <2>1 DEF WorkFitting, Begun
  <2>4. LeftFitting(b)'
    BY <2>1, <2>2 DEF LeftFitting
  <2> QED BY <1>1, <2>3, <2>4, OthersLeft DEF Fitting
<1>3. CASE drbSeen[b].state # "live"
  <2>1. work' = Idle
    BY <1>3 DEF Start, Finish
  <2>2. LeftFitting(b)'
    BY <1>1, <1>3 DEF LeftFitting, Quiet
  <2> QED BY <1>1, <2>1, <2>2, OthersLeft DEF Fitting, WorkFitting
<1> QED BY <1>2, <1>3

\* What the worker has begun to put together.
LEMMA ResolveFits ==
  ASSUME EntitledInv, Fitting, work \in Getting, NEW copy, NEW current, Resolve(copy, current),
         queue' = queue, drbSeen' = drbSeen,
         Owned(work.b)' => copy = rb'[work.b]
  PROVE  WorkFitting'
<1>1. /\ work # Idle /\ work.pc \in {"get", "create"} /\ work.b \in Bindings
      /\ work.spec \in Specs
  BY DEF Getting, Idle
<1>2. /\ work'.pc = "resolve" /\ work'.b = work.b /\ work'.copy = copy
      /\ work'.todo = work.spec.groups /\ work'.out = work.spec.users
  BY DEF Resolve
<1> SUFFICES ASSUME Quiet(work.b)' PROVE Underway'
  BY <1>2 DEF WorkFitting
<1>3. Quiet(work.b)
  BY <1>2 DEF Quiet
<1>4. work.spec = drbSeen[work.b].spec
  BY <1>1, <1>3 DEF Fitting, WorkFitting, Begun
<1>5. PICK spec \in Specs : spec = work.spec
  BY <1>1
<1>6. Fits(spec, spec.users)'
  BY FitsNamed DEF Fits
<1>7. Fits(drbSeen[work.b].spec, work.out)'
  BY <1>2, <1>4, <1>5, <1>6
<1> QED BY <1>2, <1>4, <1>7 DEF Underway

LEMMA GetFits ==
  ASSUME EntitledInv, Fitting, Grown, GetRoleBinding
  PROVE  Fitting'
<1>1. /\ work \in Getting /\ work # Idle /\ work.b \in Bindings /\ work.pc = "get"
      /\ UNCHANGED <<rb, rbSeen, drbSeen, queue>>
  BY WorkKinds DEF EntitledInv, Typed, GetRoleBinding, informers, Getting, Idle
<1>2. work' # Idle /\ work'.b = work.b
  BY <1>1 DEF GetRoleBinding, Resolve, Getting, Idle
<1>3. PICK b \in Bindings : b = work.b
  BY <1>1
<1>5. LeftFitting(b)'
  BY <1>2, <1>3 DEF LeftFitting
<1>4. WorkFitting'
  <2>1. CASE rbSeen[work.b].rb.exists
    <3>1. Resolve(rbSeen[work.b].rb, rbSeen[work.b].current)
      BY <2>1 DEF GetRoleBinding
    <3>2. Owned(work.b)' => rbSeen[work.b].rb = rb'[work.b]
      BY <1>1, <1>2 DEF Owned, EntitledInv, Typed
    <3> QED BY <1>1, <3>1, <3>2, ResolveFits
  <2>2. CASE ~rbSeen[work.b].rb.exists
    <3>1. work'.pc = "create" /\ work'.spec = work.spec
      BY <1>1, <2>2 DEF GetRoleBinding, Getting
    <3>2. Quiet(work.b)' => Begun'
      BY <1>1, <1>2, <3>1 DEF Quiet, Fitting, WorkFitting, Begun
    <3> QED BY <1>2, <3>1, <3>2 DEF WorkFitting
  <2> QED BY <2>1, <2>2
<1> QED BY <1>1, <1>3, <1>4, <1>5, OthersLeft DEF Fitting

\* A reconciliation that ends in an error is tried again.
LEMMA FailFits ==
  ASSUME EntitledInv, Fitting, Grown, work # Idle, Fail, UNCHANGED <<rb, rbSeen, drbSeen>>
  PROVE  Fitting'
<1>1. work.b \in Bindings /\ work' = Idle /\ queue' = queue \cup {work.b}
  BY WorkKinds DEF EntitledInv, Typed, Fail, Finish, Add
<1>2. PICK b \in Bindings : b = work.b
  BY <1>1
<1>3. LeftFitting(b)'
  BY <1>1, <1>2 DEF LeftFitting, Quiet
<1> QED BY <1>1, <1>2, <1>3, OthersLeft DEF Fitting, WorkFitting

LEMMA CreateFits ==
  ASSUME EntitledInv, Fitting, Grown, CreateRoleBinding
  PROVE  Fitting'
<1>1. work \in Getting /\ work # Idle /\ work.b \in Bindings /\ drbSeen' = drbSeen
  BY WorkKinds DEF EntitledInv, Typed, CreateRoleBinding, Getting, Idle
<1>2. CASE rb[work.b].exists
  BY <1>1, <1>2, FailFits DEF CreateRoleBinding
<1>3. CASE ~rb[work.b].exists
  <2>1. Written(work.b, NewRoleBinding) /\ Resolve(NewRoleBinding, TRUE) /\ queue' = queue
    BY <1>3 DEF CreateRoleBinding
  <2>2. /\ work' # Idle /\ work'.b = work.b
    BY <2>1 DEF Resolve, Idle
  <2>3. /\ rb'[work.b] = NewRoleBinding
        /\ \A c \in Bindings \ {work.b} : rb'[c] = rb[c] /\ rbSeen'[c] = rbSeen[c]
    BY <1>1, <2>1 DEF Written, EntitledInv, Typed
  <2>4. Owned(work.b)' => NewRoleBinding = rb'[work.b]
    BY <2>3
  <2>5. WorkFitting'
    BY <1>1, <2>1, <2>4, ResolveFits
  <2>6. PICK b \in Bindings : b = work.b
    BY <1>1
  <2>7. LeftFitting(b)'
    BY <2>2, <2>6 DEF LeftFitting
  <2> QED BY <1>1, <2>1, <2>3, <2>5, <2>6, <2>7, OthersLeft DEF Fitting
<1> QED BY <1>2, <1>3

\* The worker has added members of a group that it was to add.
LEMMA AddedFits ==
  ASSUME EntitledInv, Fitting, Grown, work.pc \in {"resolve", "list"}, Quiet(work.b),
         work # Idle, drbSeen' = drbSeen, NEW more \in SUBSET Users,
         more # {} => \E g \in drbSeen[work.b].spec.groups : more \subseteq everIn[g],
         work'.b = work.b, work'.out = work.out \cup more, work'.todo \subseteq work.todo,
         work'.copy = work.copy, UNCHANGED <<rb, rbSeen>>
  PROVE  Underway'
<1>1. Underway /\ work.b \in Bindings
  BY WorkKinds DEF Fitting, WorkFitting, EntitledInv, Typed
<1>2. PICK spec, S : spec \in Specs /\ spec = drbSeen[work.b].spec /\ S = work.out
  BY <1>1 DEF EntitledInv, Typed, Stored
<1>3. Fits(spec, S \cup more)
  <2>1. Fits(spec, S)
    BY <1>1, <1>2 DEF Underway
  <2>2. CASE more = {}
    <3>1. S \cup more = S
      BY <2>2
    <3> QED BY <2>1, <3>1
  <2>3. CASE more # {}
    BY <1>2, <2>1, <2>3, FitsMore
  <2> QED BY <2>2, <2>3
<1>4. PICK T : T = S \cup more
  OBVIOUS
<1>5. Fits(spec, T)'
  <2>1. Fits(spec, T)
    BY <1>3, <1>4
  <2> QED BY <1>2, <2>1, FitsGrows
<1>6. Fits(drbSeen[work.b].spec, work.out)'
  BY <1>2, <1>4, <1>5
<1>7. Owned(work.b)' => work'.copy = rb'[work.b]
  BY <1>1 DEF Owned, Underway
<1> QED BY <1>1, <1>6, <1>7 DEF Underway

\* It stays on its binding and changes nothing that is stored.
LEMMA GoingOnFits ==
  ASSUME EntitledInv, Fitting, Grown, work # Idle, work' # Idle, work'.b = work.b,
         UNCHANGED <<drbSeen, rb, rbSeen, queue>>, WorkFitting'
  PROVE  Fitting'
<1>1. PICK b \in Bindings : b = work.b
  BY WorkKinds DEF EntitledInv, Typed
<1>2. LeftFitting(b)'
  BY <1>1 DEF LeftFitting
<1> QED BY <1>1, <1>2, OthersLeft DEF Fitting

LEMMA LookUpFits ==
  ASSUME EntitledInv, Fitting, Grown, NEW g \in Groups, LookUp(g)
  PROVE  Fitting'
<1>1. /\ work \in Resolving /\ work # Idle /\ work.pc = "resolve" /\ g \in work.todo
      /\ UNCHANGED <<drbSeen, rb, rbSeen, queue>>
  BY WorkKinds DEF EntitledInv, Typed, LookUp, informers, Resolving, Idle
<1>2. Quiet(work.b) => g \in drbSeen[work.b].spec.groups
  BY <1>1 DEF Fitting, WorkFitting, Underway
<1>3. CASE Fresh(cache[g])
  <2>1. /\ work'.pc = "resolve" /\ work'.b = work.b /\ work'.copy = work.copy
        /\ work'.todo = work.todo \ {g} /\ work'.out = work.out \cup cache[g].members
    BY <1>1, <1>3 DEF LookUp, Resolving
  <2>2. work' # Idle
    BY <2>1 DEF Idle
  <2>3. cache[g].members \in SUBSET Users /\ cache[g].members \subseteq everIn[g]
    BY DEF EntitledInv, Typed, Entry, StoredEntitled
  <2>4. Quiet(work.b)' => Underway'
    BY <1>1, <1>2, <2>1, <2>3, AddedFits DEF Quiet
  <2>5. WorkFitting'
    BY <2>1, <2>4 DEF WorkFitting
  <2> QED BY <1>1, <2>1, <2>2, <2>5, GoingOnFits
<1>4. CASE ~Fresh(cache[g])
  <2>1. /\ work'.pc = "list" /\ work'.b = work.b /\ work'.copy = work.copy /\ work'.group = g
        /\ work'.todo = work.todo \ {g} /\ work'.out = work.out
    BY <1>4 DEF LookUp
  <2>2. PICK none \in SUBSET Users : none = {}
    OBVIOUS
  <2>3. work' # Idle /\ work'.out = work.out \cup none
    BY <2>1, <2>2 DEF Idle
  <2>4. Quiet(work.b)' => Underway'
    BY <1>1, <2>1, <2>2, <2>3, AddedFits DEF Quiet
  <2>5. WorkFitting'
    BY <1>1, <1>2, <2>1, <2>4 DEF WorkFitting, Quiet
  <2> QED BY <1>1, <2>1, <2>3, <2>5, GoingOnFits
<1> QED BY <1>3, <1>4

LEMMA ListPageFits ==
  ASSUME EntitledInv, Fitting, Grown, ListPage
  PROVE  Fitting'
<1> DEFINE got == work.got \cup Page(work.group, work.token)
<1>1. /\ work \in Listing /\ work # Idle /\ work.pc = "list" /\ work.group \in Groups
      /\ UNCHANGED <<drbSeen, rb, rbSeen, queue>>
  BY WorkKinds DEF EntitledInv, Typed, ListPage, informers, Listing, Idle
<1>2. got \in SUBSET Users /\ got \subseteq everIn[work.group]
  <2>1. Page(work.group, work.token) \subseteq members[work.group]
    BY PageOfGroup
  <2> QED BY <1>1, <2>1 DEF EntitledInv, WorkEntitled, StoredEntitled, Typed, Listing
<1>3. Quiet(work.b) => work.group \in drbSeen[work.b].spec.groups
  BY <1>1 DEF Fitting, WorkFitting
<1> HIDE DEF got
<1>4. CASE Listed(got)
  <2>1. /\ work'.pc = "resolve" /\ work'.b = work.b /\ work'.copy = work.copy
        /\ work'.todo = work.todo /\ work'.out = work.out \cup got
    BY <1>4 DEF Listed
  <2>2. work' # Idle
    BY <2>1 DEF Idle
  <2>3. Quiet(work.b)' => Underway'
    BY <1>1, <1>2, <1>3, <2>1, AddedFits DEF Quiet
  <2>4. WorkFitting'
    BY <2>1, <2>3 DEF WorkFitting
  <2> QED BY <1>1, <2>1, <2>2, <2>4, GoingOnFits
<1>5. CASE ~Listed(got)
  <2>1. /\ work'.pc = "list" /\ work'.b = work.b /\ work'.copy = work.copy
        /\ work'.group = work.group /\ work'.todo = work.todo /\ work'.out = work.out
    BY <1>1, <1>5 DEF ListPage, Listing, got
  <2>2. PICK none \in SUBSET Users : none = {}
    OBVIOUS
  <2>3. work' # Idle /\ work'.out = work.out \cup none
    BY <2>1, <2>2 DEF Idle
  <2>4. Quiet(work.b)' => Underway'
    BY <1>1, <2>1, <2>2, <2>3, AddedFits DEF Quiet
  <2>5. WorkFitting'
    BY <1>1, <1>3, <2>1, <2>4 DEF WorkFitting, Quiet
  <2> QED BY <1>1, <2>1, <2>3, <2>5, GoingOnFits
<1> QED BY <1>4, <1>5

\* What is written, or found to be there already, is what was put together.
LEMMA UpdateFits ==
  ASSUME EntitledInv, Fitting, Grown, UpdateRoleBinding
  PROVE  Fitting'
<1>1. /\ work \in Resolving /\ work # Idle /\ work.pc = "resolve" /\ work.b \in Bindings
      /\ drbSeen' = drbSeen
  BY WorkKinds DEF EntitledInv, Typed, UpdateRoleBinding, Resolving, Idle
<1>2. PICK b \in Bindings : b = work.b
  BY <1>1
<1>3. CASE work.out = work.copy.subjects /\ Finish /\ UNCHANGED <<rb, rbSeen, queue>>
  <2>1. work' = Idle
    BY <1>3 DEF Finish
  <2>2. LeftFitting(b)'
    <3> SUFFICES ASSUME Quiet(b)', Owned(b)' PROVE Fits(drbSeen[b].spec, rb[b].subjects)'
      BY DEF LeftFitting
    <3>1. Quiet(b) /\ Owned(b)
      BY <1>1, <1>3 DEF Quiet, Owned
    <3>2. Underway
      BY <1>1, <1>2, <3>1 DEF Fitting, WorkFitting
    <3>3. PICK spec, S : spec \in Specs /\ spec = drbSeen[b].spec /\ S = work.out
      BY DEF EntitledInv, Typed, Stored
    <3>4. Fits(spec, S) /\ S = rb[b].subjects
      BY <1>2, <1>3, <3>1, <3>2, <3>3 DEF Underway
    <3>5. Fits(spec, S)'
      <4>1. Fits(spec, S)
        BY <3>4
      <4> QED BY <3>3, <4>1, FitsGrows
    <3> QED BY <1>1, <1>3, <3>3, <3>4, <3>5
  <2> QED BY <1>1, <1>2, <1>3, <2>1, <2>2, OthersLeft DEF Fitting, WorkFitting
<1>4. ASSUME NEW new, Written(work.b, new), Finish, UNCHANGED queue
      PROVE  Fitting'
  <2>1. work' = Idle
    BY <1>4 DEF Finish
  <2>2. /\ ~rbSeen'[b].current
        /\ \A c \in Bindings \ {b} : rb'[c] = rb[c] /\ rbSeen'[c] = rbSeen[c]
    BY <1>2, <1>4 DEF Written, EntitledInv, Typed, Seen
  <2>3. LeftFitting(b)'
    BY <2>2 DEF LeftFitting, Owned
  <2> QED BY <1>1, <1>2, <1>4, <2>1, <2>2, <2>3, OthersLeft DEF Fitting, WorkFitting
<1>5. CASE Fail /\ UNCHANGED <<rb, rbSeen>>
  BY <1>1, <1>5, FailFits
<1> QED BY <1>3, <1>4, <1>5 DEF UpdateRoleBinding

LEMMA WriteErrorFits ==
  ASSUME EntitledInv, Fitting, Grown, WriteError
  PROVE  Fitting'
<1>1. work # Idle /\ work.b \in Bindings /\ drbSeen' = drbSeen /\ Fail
  BY WorkKinds DEF WriteError, EntitledInv, Typed, Getting, Resolving, Idle
<1>2. PICK b \in Bindings : b = work.b
  BY <1>1
<1>3. work' = Idle /\ queue' = queue \cup {b}
  BY <1>1, <1>2 DEF Fail, Finish, Add
<1>4. \A c \in Bindings \ {b} : rb'[c] = rb[c] /\ rbSeen'[c] = rbSeen[c]
  BY <1>2 DEF WriteError, Written, EntitledInv, Typed
<1>5. LeftFitting(b)'
  BY <1>3 DEF LeftFitting, Quiet
<1> QED BY <1>1, <1>2, <1>3, <1>4, <1>5, OthersLeft DEF Fitting, WorkFitting

-----------------------------------------------------------------------------
(* Whoever changes what the controller goes by wakes it *)

\* A step of others leaves the worker with what it has, but for the version it would write.
WorkKept ==
  /\ work = Idle <=> work' = Idle
  /\ work # Idle =>
       /\ work'.b = work.b /\ work'.pc = work.pc
       /\ work.pc \in {"get", "create"} => work'.spec = work.spec
       /\ work.pc \in {"resolve", "list"} =>
            work'.out = work.out /\ work'.todo = work.todo /\ work'.copy = work.copy
       /\ work.pc = "list" => work'.group = work.group

LEMMA KeptFits ==
  ASSUME EntitledInv, Fitting, Grown, WorkKept,
         \A b \in Bindings :
           \/ ~Quiet(b)'
           \/ /\ Quiet(b) /\ drbSeen'[b] = drbSeen[b]
              /\ Owned(b)' => Owned(b) /\ rb'[b] = rb[b]
  PROVE  Fitting'
<1>1. ASSUME NEW b \in Bindings PROVE LeftFitting(b)'
  BY LeftStays DEF WorkKept
<1>2. WorkFitting'
  <2>1. CASE work = Idle
    BY <2>1 DEF WorkKept, WorkFitting
  <2>2. CASE work # Idle
    <3>1. PICK b \in Bindings : b = work.b
      BY <2>2, WorkKinds DEF EntitledInv, Typed
    <3> QED BY <2>2, <3>1, WorkStaysFitting DEF WorkKept
  <2> QED BY <2>1, <2>2
<1> QED BY <1>1, <1>2 DEF Fitting

LEMMA TriggerFits ==
  ASSUME EntitledInv, Fitting, Grown, NEW b \in Bindings, Trigger(b)
  PROVE  Fitting'
<1>1. work' = work /\ rb' = rb /\ queue \subseteq queue'
  BY DEF Trigger, SyncBinding, SyncRoleBinding, TimerFires, Add
<1>2. WorkKept
  BY <1>1 DEF WorkKept
<1>3. \A c \in Bindings \ {b} : drbSeen'[c] = drbSeen[c] /\ rbSeen'[c] = rbSeen[c]
  BY DEF Trigger, SyncBinding, SyncRoleBinding, TimerFires, informers, EntitledInv, Typed
<1>4. \/ b \in queue'
      \/ drbSeen' = drbSeen /\ rb[b].owner = 0
  BY DEF Trigger, SyncBinding, SyncRoleBinding, TimerFires, Add
<1> QED BY <1>1, <1>2, <1>3, <1>4, KeptFits DEF Quiet, Owned

LEMMA TickFits ==
  ASSUME EntitledInv, Fitting, Grown, Tick
  PROVE  Fitting'
<1>1. UNCHANGED <<drbSeen, rb, rbSeen, queue>>
  BY DEF Tick, informers
<1>2. WorkKept
  BY WorkKinds DEF Tick, EntitledInv, Typed, Listing, Idle, WorkKept
<1> QED BY <1>1, <1>2, KeptFits DEF Quiet, Owned

LEMMA OthersFit ==
  ASSUME EntitledInv, Fitting, Grown, NEW b \in Bindings, Collect(b) \/ EditRoleBinding(b)
  PROVE  Fitting'
<1>1. PICK new \in Bound : WrittenByOthers(b, new)
  BY OthersWrite DEF EntitledInv
<1>2. /\ UNCHANGED <<drbSeen, queue>> /\ ~rbSeen'[b].current
      /\ \A c \in Bindings \ {b} : rb'[c] = rb[c] /\ rbSeen'[c] = rbSeen[c]
  BY <1>1 DEF WrittenByOthers, Written, EntitledInv, Typed, Seen
<1>3. WorkKept
  <2>1. CASE work.pc = "resolve"
    BY <1>1, <2>1, WorkKinds DEF WrittenByOthers, EntitledInv, Typed, Resolving, Idle, WorkKept
  <2>2. CASE work.pc = "list"
    BY <1>1, <2>2, WorkKinds DEF WrittenByOthers, EntitledInv, Typed, Listing, Idle, WorkKept
  <2>3. CASE work.pc \notin {"resolve", "list"}
    BY <1>1, <2>3 DEF WrittenByOthers, WorkKept
  <2> QED BY <2>1, <2>2, <2>3
<1> QED BY <1>2, <1>3, KeptFits DEF Quiet, Owned

LEMMA RestartFits == ASSUME Restart PROVE Fitting'
<1>1. work' = Idle /\ \A b \in Bindings : ~Quiet(b)'
  BY DEF Restart, Finish, Quiet
<1> QED BY <1>1 DEF Fitting, WorkFitting, LeftFitting

LEMMA NoticedNext ==
  ASSUME NoticedInv, Next, "ever" \in Tracked
  PROVE  NoticedInv'
<1>1. EntitledInv' /\ Versions' /\ Scheduled'
  <2>1. EntitledInv /\ Versions /\ Scheduled /\ Typed
    BY DEF NoticedInv, EntitledInv
  <2>2. EntitledInv' /\ Typed'
    BY <2>1, EntitledNext, NextTyped
  <2> QED BY <2>1, <2>2, VersionsNext, ScheduledNext
<1>2. Remember
  BY DEF Next, Quietly, Passing, Disturbing
<1>3. EntitledInv /\ Fitting /\ Grown
  BY <1>1, <1>2, Growth DEF NoticedInv, EntitledInv
<1>4. ASSUME NEW b \in Bindings, Reconcile(b) PROVE Fitting'
  BY <1>3, <1>4, StartFits, GetFits, CreateFits, LookUpFits, ListPageFits, UpdateFits
     DEF Reconcile
<1>5. ASSUME NEW b \in Bindings, Trigger(b) \/ Collect(b) \/ EditRoleBinding(b) PROVE Fitting'
  BY <1>3, <1>5, TriggerFits, OthersFit
<1>6. ASSUME ListError \/ WriteError PROVE Fitting'
  BY <1>3, <1>6, FailFits, WriteErrorFits DEF ListError, ListFails, informers, Idle
<1>7. ASSUME (\E g \in Groups : ChangeGroup(g)) \/ \E b \in Bindings : BindingChanges(b)
      PROVE  Fitting'
  <2>1. drbSeen' = drbSeen /\ rb' = rb /\ rbSeen' = rbSeen /\ queue' = queue /\ work' = work
    BY <1>7 DEF ChangeGroup, BindingChanges, CreateBinding, EditBinding, DeleteBinding,
                RemoveBinding, StoreBinding, informers
  <2> QED BY <1>3, <2>1, KeptFits DEF WorkKept, Quiet, Owned
<1>8. ASSUME Tick \/ Restart PROVE Fitting'
  BY <1>3, <1>8, TickFits, RestartFits
<1>9. Fitting'
  BY <1>4, <1>5, <1>6, <1>7, <1>8 DEF Next, Quietly, Passing, Disturbing, BindingChanges
<1> QED BY <1>1, <1>9 DEF NoticedInv

LEMMA NoticedStutters == NoticedInv /\ UNCHANGED vars => NoticedInv'
<1> SUFFICES ASSUME NoticedInv, UNCHANGED vars PROVE NoticedInv'
  OBVIOUS
<1>1. UNCHANGED <<drb, drbSeen, rb, rbSeen, queue, timer, work, everIn>>
  BY DEF vars, informers, history
<1>2. EntitledInv' /\ Versions' /\ Scheduled'
  BY <1>1, EntitledStutters DEF NoticedInv, Versions, Scheduled, Live
<1>3. Fitting'
  BY <1>1 DEF NoticedInv, Fitting, WorkFitting, LeftFitting, Underway, Begun, Quiet, Owned, Fits
<1> QED BY <1>2, <1>3 DEF NoticedInv

LEMMA NoticedInit == Init => NoticedInv
<1> SUFFICES ASSUME Init PROVE NoticedInv
  OBVIOUS
<1>1. Versions /\ Scheduled
  <2>1. \A b \in Bindings : drb[b].state = "live" /\ drb[b].uid = 1 /\ drbSeen[b] = drb[b]
    BY DEF Init
  <2> QED BY <2>1 DEF Init, Versions, Scheduled
<1>2. Fitting
  BY DEF Init, Fitting, WorkFitting, LeftFitting, Quiet
<1> QED BY <1>1, <1>2, EntitledInit DEF NoticedInv

\* At any moment, however long the directory takes and whatever is edited or fails meanwhile,
\* a binding that is neither queued nor being worked on has a timer running, and its
\* RoleBinding is what its present specification asks for, up to the age of the groups'
\* members: no event is lost between the informers, the queue and the worker.
THEOREM NothingIsMissed ==
  ASSUME "ever" \in Tracked
  PROVE  Spec => []NothingUnnoticed
<1>1. NoticedInv /\ [Next]_vars => NoticedInv'
  BY NoticedNext, NoticedStutters
<1>2. NoticedInv => NothingUnnoticed
  <2> SUFFICES ASSUME NoticedInv, NEW b \in Bindings, drb[b].state = "live", AtRest(b)
               PROVE  timer[b] >= 0 /\ (rb[b].owner # 0 => Fits(drb[b].spec, rb[b].subjects))
    BY DEF NothingUnnoticed
  <2>1. Quiet(b) /\ drbSeen[b] = drb[b] /\ ~(work # Idle /\ work.b = b) /\ rbSeen[b].current
    BY DEF AtRest, Quiet
  <2>2. timer[b] >= 0
    BY <2>1 DEF NoticedInv, Scheduled, Live, Quiet
  <2> QED BY <2>1, <2>2 DEF NoticedInv, Fitting, LeftFitting, Owned
<1> QED BY <1>1, <1>2, NoticedInit, PTL DEF Spec
=============================================================================
