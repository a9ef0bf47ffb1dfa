----------------------- MODULE ConsoleAuthorisationProofs -----------------------
(***************************************************************************)
(* Theorems about ConsoleAuthorisation, for any users, consoles and lists. *)
(*                                                                         *)
(* The inductive invariant says what an answer of the webhook is worth     *)
(* while its request waits to be stored: as long as the object has not     *)
(* changed, the update it admitted is still a valid one, and its author    *)
(* has an event or has had one fail.  Everything said of the list follows  *)
(* when it is stored.                                                      *)
(***************************************************************************)
EXTENDS ConsoleAuthorisation, TLAPS

Ready(u) ==
  requests[u] # Idle /\ requests[u].stage = "admitted" /\ requests[u].current

\* No event, and no failure to publish one, is forgotten.
Remembered == events \subseteq events' /\ missed \subseteq missed'

AdmittedIsValid ==
  \A u \in Users : Ready(u) =>
    /\ u \in events \cup missed
    /\ Validate(auth, Updated(requests[u]), u, Owner[auth.ref])

Approvals == OwnerNeverListed /\ RecordedApprovals /\ ConfirmedApprovals

Inv == TypeOK /\ AdmittedIsValid /\ Approvals

-----------------------------------------------------------------------------
LEMMA RequestFields ==
  ASSUME NEW r \in {Idle} \cup Request, r # Idle
  PROVE  /\ r.stage \in {"submitted", "admitted"} /\ r.kind \in Kinds
         /\ r.update \in Authorisation /\ r.current \in BOOLEAN
BY DEF Request

LEMMA UpdatedType ==
  ASSUME auth \in Authorisation, NEW r \in Request
  PROVE  Updated(r) \in Authorisation
<1>1. r.update \in Authorisation
  BY DEF Request
<1>2. auth.list \o r.update.list \in Seq(Subject)
  BY <1>1 DEF Authorisation
<1> QED BY <1>1, <1>2 DEF Updated, Authorisation

\* What a valid update does to the list: it keeps every subject, and those it adds are
\* its author, who does not own the console.
LEMMA ValidUpdate ==
  ASSUME NEW old \in Authorisation, NEW new \in Authorisation, NEW u \in Users,
         NEW owner \in Users, Validate(old, new, u, owner)
  PROVE  /\ new.ref = old.ref
         /\ Range(old.list) \subseteq Range(new.list)
         /\ \A s \in Range(new.list) \ Range(old.list) : s.name = u /\ s.name # owner
<1>1. new.ref = old.ref
  BY DEF Validate
<1>2. Range(old.list) \subseteq Range(new.list)
  <2>1. \A i \in DOMAIN old.list : old.list[i] \in Range(new.list)
    BY DEF Validate, Diff, IncludesSubject
  <2> QED BY <2>1 DEF Range
<1>3. ASSUME NEW s \in Range(new.list) \ Range(old.list)
      PROVE  s.name = u /\ s.name # owner
  <2>1. PICK i \in DOMAIN new.list : new.list[i] = s
    BY DEF Range
  <2>2. i \in Diff(new.list, old.list)
    BY <2>1 DEF Diff, IncludesSubject
  <2> QED BY <2>1, <2>2 DEF Validate
<1> QED BY <1>1, <1>2, <1>3

-----------------------------------------------------------------------------
LEMMA TypeStep == TypeOK /\ [Next]_vars => TypeOK'
<1> SUFFICES ASSUME TypeOK, [Next]_vars PROVE TypeOK'
  OBVIOUS
<1> USE DEF TypeOK
<1>1. ASSUME NEW u \in Users, Submit(u) PROVE TypeOK'
  <2>1. PICK kind \in Kinds, ref \in Consoles, list \in Lists :
          requests' = [requests EXCEPT ![u] =
            [stage |-> "submitted", kind |-> kind, current |-> TRUE,
             update |-> [ref |-> ref, list |-> list]]]
    BY <1>1 DEF Submit
  <2>2. list \in Seq(Subject)
    BY MaxListAssumption DEF Lists
  <2>3. [stage |-> "submitted", kind |-> kind, current |-> TRUE,
         update |-> [ref |-> ref, list |-> list]] \in Request
    BY <2>2 DEF Request, Authorisation
  <2> QED BY <1>1, <2>1, <2>3 DEF Submit
<1>2. ASSUME NEW u \in Users, Conflict(u) \/ Abandon(u) PROVE TypeOK'
  BY <1>2 DEF Conflict, Abandon, Finish
<1>3. ASSUME NEW u \in Users, Handle(u) PROVE TypeOK'
  <2>1. requests[u] \in Request
    BY <1>3 DEF Handle
  <2>2. [requests[u] EXCEPT !.stage = "admitted", !.current = TRUE] \in Request
    BY <2>1 DEF Request
  <2>3. requests' \in [Users -> {Idle} \cup Request]
    BY <1>3, <2>2 DEF Handle, Finish
  <2> QED BY <1>3, <2>3 DEF Handle
<1>4. ASSUME NEW u \in Users, Persist(u) PROVE TypeOK'
  <2>1. requests[u] \in Request
    BY <1>4 DEF Persist
  <2>2. auth' \in Authorisation
    BY <1>4, <2>1, UpdatedType DEF Persist
  <2>3. Range(auth'.list) \subseteq Subject
    BY <2>2 DEF Range, Authorisation
  <2>4. ASSUME NEW v \in Users PROVE requests'[v] \in {Idle} \cup Request
    <3>1. CASE v = u \/ requests[v] = Idle
      BY <1>4, <3>1 DEF Persist
    <3>2. CASE ~(v = u \/ requests[v] = Idle)
      <4>1. requests[v] \in Request
        BY <3>2
      <4>2. requests'[v] = [requests[v] EXCEPT !.current = @ /\ auth' = auth]
        BY <1>4, <3>2 DEF Persist
      <4> QED BY <4>1, <4>2 DEF Request
    <3> QED BY <3>1, <3>2
  <2> QED BY <1>4, <2>2, <2>3, <2>4 DEF Persist
<1>5. ASSUME NEW u \in Users, Retry(u) PROVE TypeOK'
  <2>1. requests[u] \in Request
    BY <1>5 DEF Retry
  <2>2. [requests[u] EXCEPT !.stage = "submitted"] \in Request
    BY <2>1 DEF Request
  <2> QED BY <1>5, <2>2 DEF Retry
<1>6. CASE SyncConsoles
  BY <1>6 DEF SyncConsoles
<1>7. CASE UNCHANGED vars
  BY <1>7 DEF vars
<1> QED BY <1>1, <1>2, <1>3, <1>4, <1>5, <1>6, <1>7 DEF Next

\* An admitted request stays valid while the object stands, and its author's event is
\* never taken back.
LEMMA AdmittedStep == TypeOK /\ AdmittedIsValid /\ [Next]_vars => AdmittedIsValid'
<1> SUFFICES ASSUME TypeOK, AdmittedIsValid, [Next]_vars, NEW u \in Users, Ready(u)'
             PROVE  (u \in events \cup missed /\ Validate(auth, Updated(requests[u]), u, Owner[auth.ref]))'
  BY DEF AdmittedIsValid
<1> USE DEF TypeOK, Remembered
<1>1. ASSUME requests'[u] = requests[u], auth' = auth, Remembered
      PROVE  (u \in events \cup missed /\ Validate(auth, Updated(requests[u]), u, Owner[auth.ref]))'
  BY <1>1 DEF AdmittedIsValid, Ready, Updated
<1>2. ASSUME NEW v \in Users, Submit(v) \/ Conflict(v) \/ Abandon(v) \/ Retry(v)
      PROVE  requests'[u] = requests[u] /\ auth' = auth /\ Remembered
  <2>1. auth' = auth /\ events' = events /\ missed' = missed
    BY <1>2 DEF Submit, Conflict, Abandon, Retry
  <2>2. CASE u # v
    <3>1. requests'[u] = requests[u]
      BY <1>2, <2>2 DEF Submit, Conflict, Abandon, Retry, Finish
    <3> QED BY <2>1, <3>1
  <2>3. CASE u = v
    <3>1. CASE Submit(u)
      BY <3>1 DEF Submit, Ready
    <3>2. CASE Conflict(u) \/ Abandon(u)
      BY <3>2 DEF Conflict, Abandon, Finish, Ready
    <3>3. CASE Retry(u)
      <4>1. requests[u] \in Request
        BY <3>3 DEF Retry
      <4>2. requests'[u].stage = "submitted"
        BY <3>3, <4>1 DEF Retry, Request
      <4> QED BY <4>2 DEF Ready
    <3> QED BY <1>2, <2>3, <3>1, <3>2, <3>3
  <2> QED BY <2>2, <2>3
<1>3. ASSUME NEW v \in Users, Handle(v)
      PROVE  (u \in events \cup missed /\ Validate(auth, Updated(requests[u]), u, Owner[auth.ref]))'
  <2>1. CASE u # v
    <3>1. requests'[u] = requests[u] /\ auth' = auth /\ Remembered
      BY <1>3, <2>1 DEF Handle, Finish
    <3> QED BY <1>1, <3>1
  <2>2. CASE u = v
    <3>1. /\ Validate(auth, Updated(requests[u]), u, Owner[auth.ref])
          /\ u \in events' \cup missed' /\ auth' = auth
          /\ requests'[u] = [requests[u] EXCEPT !.stage = "admitted", !.current = TRUE]
      BY <1>3, <2>2 DEF Handle, Finish, Ready
    <3>2. Updated(requests[u])' = Updated(requests[u])
      <4>1. requests[u] \in Request
        BY <1>3, <2>2 DEF Handle
      <4>2. /\ requests'[u].kind = requests[u].kind
            /\ requests'[u].update = requests[u].update
        BY <3>1, <4>1 DEF Request
      <4> QED BY <3>1, <4>2 DEF Updated
    <3> QED BY <3>1, <3>2
  <2> QED BY <2>1, <2>2
<1>4. ASSUME NEW v \in Users, Persist(v)
      PROVE  requests'[u] = requests[u] /\ auth' = auth /\ Remembered
  <2>1. u # v /\ requests[u] \in Request
    BY <1>4 DEF Persist, Ready
  <2>2. requests'[u] = [requests[u] EXCEPT !.current = @ /\ auth' = auth]
    BY <1>4, <2>1 DEF Persist, Ready
  <2>3. requests[u].current = TRUE /\ auth' = auth
    BY <2>1, <2>2 DEF Ready, Request
  <2> QED BY <1>4, <2>1, <2>2, <2>3 DEF Persist, Request
<1>5. ASSUME SyncConsoles \/ UNCHANGED vars
      PROVE  requests'[u] = requests[u] /\ auth' = auth /\ Remembered
  BY <1>5 DEF SyncConsoles, vars
<1> QED BY <1>1, <1>2, <1>3, <1>4, <1>5 DEF Next

\* Only Persist changes the list, and by an update that was admitted for it.
LEMMA ApprovalsStep == Inv /\ [Next]_vars => Approvals'
<1> SUFFICES ASSUME Inv, [Next]_vars PROVE Approvals'
  OBVIOUS
<1> USE DEF Inv, TypeOK, Remembered
<1>1. ASSUME auth' = auth, thanked' = thanked, Remembered
      PROVE  Approvals'
  BY <1>1 DEF Approvals, OwnerNeverListed, RecordedApprovals, ConfirmedApprovals
<1>2. ASSUME NEW u \in Users, Submit(u) \/ Conflict(u) \/ Abandon(u) \/ Retry(u) \/ Handle(u)
      PROVE  auth' = auth /\ thanked' = thanked /\ Remembered
  BY <1>2 DEF Submit, Conflict, Abandon, Retry, Handle
<1>3. ASSUME NEW u \in Users, Persist(u) PROVE Approvals'
  <2>1. u \in events \cup missed /\ Validate(auth, auth', u, Owner[auth.ref])
    BY <1>3 DEF Persist, AdmittedIsValid, Ready
  <2>2. auth' \in Authorisation
    BY TypeStep
  <2>3. Owner[auth.ref] \in Users
    BY OwnerAssumption DEF Authorisation
  <2>4. /\ auth'.ref = auth.ref
        /\ Range(auth.list) \subseteq Range(auth'.list)
        /\ \A s \in Range(auth'.list) \ Range(auth.list) :
             s.name = u /\ s.name # Owner[auth.ref]
    BY <2>1, <2>2, <2>3, ValidUpdate
  <2>5. events' = events /\ missed' = missed /\ thanked' \subseteq thanked \cup Range(auth'.list)
    BY <1>3 DEF Persist
  <2> QED BY <2>1, <2>4, <2>5 DEF Approvals, OwnerNeverListed, RecordedApprovals,
             ConfirmedApprovals
<1>4. ASSUME SyncConsoles \/ UNCHANGED vars
      PROVE  auth' = auth /\ thanked' = thanked /\ Remembered
  BY <1>4 DEF SyncConsoles, vars
<1> QED BY <1>1, <1>2, <1>3, <1>4 DEF Next

LEMMA InitInv == Init => Inv
<1> SUFFICES ASSUME Init PROVE Inv
  OBVIOUS
<1>1. auth \in Authorisation /\ auth.list = <<>>
  <2>1. auth \in [ref : Consoles, list : {<<>>}]
    BY DEF Init
  <2>2. PICK c \in Consoles : auth = [ref |-> c, list |-> <<>>]
    BY <2>1
  <2>3. <<>> \in Seq(Subject)
    OBVIOUS
  <2> QED BY <2>2, <2>3 DEF Authorisation
<1>2. TypeOK
  BY <1>1 DEF Init, TypeOK
<1>3. AdmittedIsValid
  BY DEF Init, AdmittedIsValid, Ready
<1>4. Range(auth.list) = {}
  <2>1. DOMAIN auth.list = {}
    BY <1>1
  <2> QED BY <2>1 DEF Range
<1> QED BY <1>2, <1>3, <1>4 DEF Inv, Approvals, OwnerNeverListed, RecordedApprovals,
     ConfirmedApprovals, Init

LEMMA Invariance == Spec => []Inv
<1>1. Inv /\ [Next]_vars => Inv'
  BY TypeStep, AdmittedStep, ApprovalsStep DEF Inv
<1> QED BY InitInv, <1>1, PTL DEF Spec

\* The object stays a well-formed authorisation of one console.
THEOREM TypeCorrect == Spec => []TypeOK
<1>1. Inv => TypeOK
  BY DEF Inv
<1> QED BY Invariance, <1>1, PTL

\* The owner of a console is never among its authorisers, however updates race.
THEOREM OwnersDoNotAuthorise == Spec => []OwnerNeverListed
<1>1. Inv => OwnerNeverListed
  BY DEF Inv, Approvals
<1> QED BY Invariance, <1>1, PTL

\* Every authorisation on the list was passed by the webhook for the user it names, who
\* has its event unless publishing one has failed.
THEOREM ApprovalsAreRecorded == Spec => []RecordedApprovals
<1>1. Inv => RecordedApprovals
  BY DEF Inv, Approvals
<1> QED BY Invariance, <1>1, PTL

\* An authorisation once confirmed stays on the list.
THEOREM ApprovalsStand == Spec => []ConfirmedApprovals
<1>1. Inv => ConfirmedApprovals
  BY DEF Inv, Approvals
<1> QED BY Invariance, <1>1, PTL
=============================================================================
