-------------------------- MODULE ConsoleAuthorisation --------------------------
(***************************************************************************)
(* The ConsoleAuthorisation of one console: users update it through the    *)
(* API server, which asks the admission webhook about every update before  *)
(* it stores it.                                                           *)
(*                                                                         *)
(* The API server calls the webhook on the object it has just read, stores *)
(* the update only if that object is still the stored one, and otherwise   *)
(* starts again (a patch) or reports a conflict (an update, which carries  *)
(* the resourceVersion its sender read).  The webhook reads the console    *)
(* from a cache and records the authorisation before it is stored.         *)
(***************************************************************************)
EXTENDS Integers, Sequences, FiniteSets, Functions

CONSTANTS
  Users,          \* everybody who may update the object, its console's owner too
  Namespaces,     \* what else a subject says of itself besides its name
  Consoles,       \* consoles the object may refer to
  Owner,          \* the user each console belongs to (spec.user)
  Kinds,          \* the kinds of update that users send
  MaxList         \* bound on the length of an update's list

ASSUME OwnerAssumption == Owner \in [Consoles -> Users]
ASSUME KindsAssumption == Kinds \subseteq {"append", "merge", "put"}
ASSUME MaxListAssumption == MaxList \in Nat

Subject == [name : Users, namespace : Namespaces]
Authorisation == [ref : Consoles, list : Seq(Subject)]

\* The lists that users send: TLC cannot enumerate Seq(Subject).
Lists == UNION {[1..n -> Subject] : n \in 0..MaxList}

VARIABLES
  auth,      \* the stored object
  cached,    \* the consoles in the webhook's cache
  requests,  \* the request that each user has under way
  events,    \* users with an authorise event
  missed,    \* users for whom publishing an authorise event has failed
  thanked    \* subjects whose addition has been confirmed to them

vars == <<auth, cached, requests, events, missed, thanked>>

\* append: the JSON patch of the CLI, which adds the list it carries to whatever is
\* stored; merge: a patch that replaces the list; put: an update under a
\* resourceVersion.  current: the object it goes by is still the stored one.
Idle == [stage |-> "idle"]
Request ==
  [stage : {"submitted", "admitted"}, kind : Kinds, update : Authorisation,
   current : BOOLEAN]

-----------------------------------------------------------------------------
(* pkg/rbac/subjects.go *)

IncludesSubject(list, s) == s \in Range(list)

\* The places of s1 that hold a subject s2 does not have.
Diff(s1, s2) == {i \in DOMAIN s1 : ~IncludesSubject(s2, s1[i])}

-----------------------------------------------------------------------------
(* The webhook: console_authorisation_webhook.go *)

Validate_AnyConsole(existing, updated, user, owner) ==                  \* mutant
  LET add == Diff(updated.list, existing.list)
      remove == Diff(existing.list, updated.list)
  IN  /\ Cardinality(add) <= 1 /\ remove = {}
      /\ \A i \in add : updated.list[i].name \notin {owner} \cup (Users \ {user})

Validate_AnyRemoval(existing, updated, user, owner) ==                  \* mutant
  LET add == Diff(updated.list, existing.list)
  IN  /\ updated.ref = existing.ref
      /\ Cardinality(add) <= 1
      /\ \A i \in add : updated.list[i].name = user /\ user # owner

Validate_AnyUser(existing, updated, user, owner) ==                     \* mutant
  LET add == Diff(updated.list, existing.list)
      remove == Diff(existing.list, updated.list)
  IN  /\ updated.ref = existing.ref
      /\ Cardinality(add) <= 1 /\ remove = {}
      /\ \A i \in add : updated.list[i].name # owner

Validate(existing, updated, user, owner) ==
  LET add == Diff(updated.list, existing.list)
      remove == Diff(existing.list, updated.list)
  IN  /\ updated.ref = existing.ref
      /\ Cardinality(add) <= 1 /\ remove = {}
      /\ \A i \in add : updated.list[i].name = user
      /\ \A i \in add : updated.list[i].name # owner

-----------------------------------------------------------------------------
\* The controller creates the object with an empty list.
Init ==
  /\ auth \in [ref : Consoles, list : {<<>>}]
  /\ cached \in SUBSET Consoles
  /\ requests = [u \in Users |-> Idle]
  /\ events = {} /\ missed = {} /\ thanked = {}

Finish(user) == [requests EXCEPT ![user] = Idle]

Updated_NameOnly(r) ==                                                  \* mutant
  IF r.kind = "append" THEN [auth EXCEPT !.list = Append(@, [name |-> r.update.list[1].name])]
  ELSE r.update

\* What a request makes of the object that is stored now.
Updated(r) ==
  IF r.kind = "append" THEN [auth EXCEPT !.list = @ \o r.update.list] ELSE r.update

\* A user sends an update: Runner.Authorise adds the user who runs it.
Submit(user) ==
  /\ requests[user] = Idle
  /\ \E kind \in Kinds, ref \in Consoles, list \in Lists :
       /\ kind = "append" => /\ ref = auth.ref
                             /\ \E s \in Subject : s.name = user /\ list = <<s>>
                             /\ Len(auth.list) < MaxList
       /\ requests' = [requests EXCEPT ![user] =
            [stage |-> "submitted", kind |-> kind, current |-> TRUE,
             update |-> [ref |-> ref, list |-> list]]]
  /\ UNCHANGED <<auth, cached, events, missed, thanked>>

\* An update under an older resourceVersion is refused before admission.
Conflict(user) ==
  /\ requests[user] # Idle /\ requests[user].kind = "put" /\ ~requests[user].current
  /\ requests' = Finish(user)
  /\ UNCHANGED <<auth, cached, events, missed, thanked>>

\* Handle: the console, the checks, the event, the answer.  That the event cannot be
\* published is only logged: the update is admitted all the same.
Handle(user) ==
  LET r == requests[user]
  IN  /\ r # Idle /\ r.stage = "submitted" /\ (r.kind = "put" => r.current)
      /\ IF auth.ref \in cached /\ Validate(auth, Updated(r), user, Owner[auth.ref])
         THEN /\ requests' = [requests EXCEPT
                   ![user].stage = "admitted", ![user].current = TRUE]
              /\ \/ events' = events \cup {user} /\ UNCHANGED missed
                 \/ missed' = missed \cup {user} /\ UNCHANGED events
         ELSE requests' = Finish(user) /\ UNCHANGED <<events, missed>>
  /\ UNCHANGED <<auth, cached, thanked>>

\* The API server stores what was admitted over the object it was admitted for.
Persist(user) ==
  LET r == requests[user]
  IN  /\ r # Idle /\ r.stage = "admitted" /\ r.current
      /\ auth' = Updated(r)
      /\ thanked' \in {thanked, thanked \cup (Range(auth'.list) \ Range(auth.list))}
      /\ requests' = [v \in Users |->
           IF v = user \/ requests[v] = Idle THEN Idle
           ELSE [requests[v] EXCEPT !.current = @ /\ auth' = auth]]
  /\ UNCHANGED <<cached, events, missed>>

\* The object has changed since: a patch is applied to it anew and admitted again.
Retry(user) ==
  LET r == requests[user]
  IN  /\ r # Idle /\ r.stage = "admitted" /\ ~r.current /\ r.kind # "put"
      /\ requests' = [requests EXCEPT ![user].stage = "submitted"]
  /\ UNCHANGED <<auth, cached, events, missed, thanked>>

\* The request is given up at any stage: a timeout, or too many retries.
Abandon(user) ==
  /\ requests[user] # Idle
  /\ requests' = Finish(user)
  /\ UNCHANGED <<auth, cached, events, missed, thanked>>

\* The cache learns of consoles, and of their deletion.
SyncConsoles ==
  /\ cached' \in SUBSET Consoles \ {cached}
  /\ UNCHANGED <<auth, requests, events, missed, thanked>>

Next ==
  \/ \E u \in Users : \/ Submit(u) \/ Conflict(u) \/ Handle(u) \/ Persist(u)
                      \/ Retry(u) \/ Abandon(u)
  \/ SyncConsoles

Spec == Init /\ [][Next]_vars

-----------------------------------------------------------------------------
(* Properties *)

TypeOK ==
  /\ auth \in Authorisation /\ cached \subseteq Consoles
  /\ requests \in [Users -> {Idle} \cup Request]
  /\ events \subseteq Users /\ missed \subseteq Users /\ thanked \subseteq Subject

\* Nobody authorises a console of their own: whichever updates race, and whatever
\* they say the object refers to, the owner of its console is never on the list.
OwnerNeverListed == \A s \in Range(auth.list) : s.name # Owner[auth.ref]

\* Every authorisation on the list was given by the user it names: the webhook has
\* passed an update of theirs, and they have its authorise event unless publishing
\* one has failed, which the webhook lets pass (console_authorisation_webhook.go:81-86).
RecordedApprovals == \A s \in Range(auth.list) : s.name \in events \cup missed

\* An authorisation that has been confirmed to its author is never lost, to an older
\* update written over it or to another user's list.
ConfirmedApprovals == thanked \subseteq Range(auth.list)

\* What the webhook says of any update: the list "can only be appended to (with one
\* subject) per update" (console_authorisation_webhook.go:116).
AppendOnly ==
  [][auth' # auth => \/ auth'.list = auth.list
                     \/ \E s \in Subject : auth'.list = Append(auth.list, s)]_vars

\* "sideEffects: None" (config/base/webhooks/workloads.yaml:64): a call of the webhook
\* leaves no trace of an authorisation that is not made.
EventsAreApprovals ==
  \A u \in events : \/ \E s \in Range(auth.list) : s.name = u
                    \/ requests[u] # Idle
=============================================================================
