--------------------------- MODULE ConsoleRefinement ---------------------------
(* The controller implements the lifecycle of ConsoleLifecycle. *)
EXTENDS ConsoleController

Lifecycle == INSTANCE ConsoleLifecycle WITH
  phase <- IF Orphaned THEN "Deleted" ELSE apiCsl.phase,
  approvals <- IF Orphaned THEN NoAuthorisation ELSE apiAuth,
  pod <- IF Orphaned \/ binding = NoBinding THEN NoPod ELSE role

\* Seen through the stored console, the authorisation object and the user's role
\* and binding, every step of the cluster is a step of the lifecycle or none, however old
\* the copies that it goes by: no status past the gate is stored, and no access given,
\* that the authorisations as they are stored do not allow.
ImplementsLifecycle == Lifecycle!LifecycleSpec
=============================================================================
