--------------------------- MODULE ConsoleLifecycle ---------------------------
(***************************************************************************)
(* What the console controller promises about one console, free of caches, *)
(* conflicts and retries: it is launched, and its user given access to a   *)
(* pod, only once it is authorised, its authorisations are never lost, and *)
(* nothing of it is left once it is deleted.                               *)
(*                                                                         *)
(* It does not promise that a console only goes forward, nor that it is    *)
(* stored as running while access is given.  Its template may come to ask  *)
(* for more than it was launched with, and a reconciliation that started   *)
(* from an old copy writes that copy's status over a newer one, or finds   *)
(* nothing to write where there is.                                        *)
(***************************************************************************)
EXTENDS Integers

CONSTANTS
  Pods, NoPod,  \* the pods a user may be given access to
  Rules         \* the authorisations the template may ask for, -1 for no rule

VARIABLES
  phase,        \* a console phase, or "Deleted"
  approvals,    \* authorisations so far, -1 before they can be given
  pod           \* the pod the user has access to

lifecycle == <<phase, approvals, pod>>

Waiting == {"Creating", "PendingAuthorisation"}
Launched == {"Pending", "Running", "Stopped", "Destroyed"}

Authorised == \E rule \in Rules : rule = -1 \/ (approvals # -1 /\ approvals >= rule)

LifecycleInit == phase = "Creating" /\ approvals = -1 /\ pod = NoPod

Approve ==
  /\ phase # "Deleted"
  /\ approvals' = approvals + 1
  /\ UNCHANGED <<phase, pod>>

\* Its job, once launched, and its user's access are left as they are.
AwaitApproval ==
  /\ phase # "Deleted" /\ phase' \in Waiting
  /\ UNCHANGED <<approvals, pod>>

\* The console is launched, or seen in another state of the job it was launched with.
Launch ==
  /\ phase # "Deleted" /\ Authorised
  /\ phase' \in Launched
  /\ UNCHANGED <<approvals, pod>>

\* The first pod, or one that a copy from before the first is followed by.
GrantAccess ==
  /\ phase # "Deleted" /\ Authorised
  /\ pod' \in Pods
  /\ UNCHANGED <<phase, approvals>>

Delete ==
  /\ phase # "Deleted"
  /\ phase' = "Deleted" /\ approvals' = -1 /\ pod' = NoPod

LifecycleNext == Approve \/ AwaitApproval \/ Launch \/ GrantAccess \/ Delete

LifecycleSpec == LifecycleInit /\ [][LifecycleNext]_lifecycle
=============================================================================
