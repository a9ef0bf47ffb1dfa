------------------------ MODULE SecretsInjectionProofs ------------------------
(***************************************************************************)
(* Safety of SecretsInjection, for any pods, containers, secrets and       *)
(* bounds: an application that the annotation names only runs with its own *)
(* secrets, no older than its process, and one version of each.            *)
(***************************************************************************)
EXTENDS SecretsInjection, TLAPS

Files(c) == OfKind(c, {"file"})
References(c) == OfKind(c, {"vault", "file"})

-----------------------------------------------------------------------------
(* The environment *)

LEMMA PodTyped == TypeOK => IsPod(pod)
  BY PodsAssumption DEF TypeOK

\* What exec takes the environment to be is what its reader expects.
LEMMA EnvironmentIsDeclared ==
  ASSUME TypeOK, NEW c \in Containers, HasConfig(c)
  PROVE  environment(c) = Declared(c)
<1>1. CASE ConfigFile(c)
  BY <1>1 DEF environment, Declared, Overridden
<1>2. CASE ~ConfigFile(c)
  <2>1. pod.env[c] \in [DOMAIN pod.env[c] -> Value]
    BY PodTyped DEF IsPod, IsEnvironment
  <2>2. environment(c) = pod.env[c]
    BY <1>2 DEF environment
  <2>3. Declared(c) = [v \in DOMAIN pod.env[c] |-> pod.env[c][v]]
    BY <1>2 DEF Declared
  <2> QED
    BY <2>1, <2>2, <2>3
<1> QED
  BY <1>1, <1>2

LEMMA EnvironmentType ==
  ASSUME TypeOK, NEW c \in Containers, HasConfig(c)
  PROVE  IsEnvironment(environment(c))
<1>1. IsEnvironment(pod.env[c]) /\ (ConfigFile(c) => IsEnvironment(pod.config[c]))
  BY PodTyped DEF IsPod, HasConfig
<1> QED
  BY <1>1 DEF environment, Overridden, IsEnvironment

LEMMA ReferenceType ==
  ASSUME TypeOK, NEW c \in Containers, HasConfig(c), NEW v \in References(c)
  PROVE  /\ v \in Variables /\ KeyOf(c, v) \in Keys
         /\ Location(c, v) \in Locations
  BY EnvironmentType
     DEF References, OfKind, KeyOf, Location, Locations, IsEnvironment, Value

\* A secret's file is nobody else's.
LEMMA FileLocations ==
  ASSUME TypeOK, NEW c \in Containers, HasConfig(c),
         NEW v \in Files(c) \cap Secrets(c), NEW w \in Files(c) \ {v}
  PROVE  Location(c, v) # Location(c, w)
<1>1. IsEnvironment(environment(c)) /\ environment(c) = Declared(c)
  BY EnvironmentType, EnvironmentIsDeclared
<1>2. environment(c)[v].path # NoPath => environment(c)[w].path # environment(c)[v].path
  BY <1>1 DEF Secrets, Files, OfKind
<1>3. /\ v \in Variables /\ w \in Variables
      /\ environment(c)[v].path \in Paths \cup {NoPath}
      /\ environment(c)[w].path \in Paths \cup {NoPath}
  BY <1>1 DEF Files, OfKind, IsEnvironment, Value
<1> QED
  BY <1>2, <1>3, NamesAssumption DEF Location

\* All of this is fixed with the pod.
LEMMA PodFixed ==
  ASSUME pod' = pod, NEW c \in Containers
  PROVE  /\ Files(c)' = Files(c) /\ References(c)' = References(c)
         /\ Secrets(c)' = Secrets(c) /\ (Loadable(c)' <=> Loadable(c))
         /\ \A v : KeyOf(c, v)' = KeyOf(c, v) /\ Location(c, v)' = Location(c, v)
<1>1. environment(c)' = environment(c)
  BY DEF environment, Overridden, ConfigFile, Entries, Annotation
<1>2. Declared(c)' = Declared(c)
  BY DEF Declared, ConfigFile, Entries, Annotation
<1>3. HasConfig(c)' <=> HasConfig(c)
  BY DEF HasConfig, ConfigFile, Entries, Annotation
<1> QED
  BY <1>1, <1>2, <1>3 DEF Files, References, OfKind, Secrets, Loadable, KeyOf, Location

-----------------------------------------------------------------------------
(* The inductive invariant *)

\* Nothing runs before the webhook has wrapped what the annotation lists.
Wrapping ==
  /\ step = "submitted" => \A c \in Containers : proc[c] = Exited
  /\ step # "submitted" /\ Annotated => wrapped = Inject
  /\ \A c \in Containers : proc[c].pc \in {"login", "load", "resolve"} => c \in wrapped

\* Vault has what it had when a process started, or something newer.
SinceStart ==
  \A k \in Keys : /\ vault[k] > 0
                  /\ \A c \in Containers : proc[c].since[k] <= vault[k]

Pending(c) == proc[c].pc \in {"resolve", "running"} /\ c \in wrapped

\* A process writes its files after it has read every key, and runs after it has
\* written every file; at most the file it is writing is open.
Progress(c) ==
  /\ Loadable(c)
  /\ proc[c].vaultFiles \subseteq Files(c) /\ proc[c].writing \subseteq proc[c].vaultFiles
  /\ proc[c].keysToFetch # {} => proc[c].vaultFiles = Files(c) /\ proc[c].writing = {}
  /\ proc[c].pc = "running" => proc[c].keysToFetch = {} /\ proc[c].vaultFiles = {}

\* What is no longer to be fetched is held, as of some time after the start.
Fetched(c) ==
  \A v \in References(c) :
    \/ KeyOf(c, v) \in proc[c].keysToFetch
    \/ /\ proc[c].secretEnv[KeyOf(c, v)] > 0
       /\ proc[c].since[KeyOf(c, v)] <= proc[c].secretEnv[KeyOf(c, v)]

\* What is no longer to be written is in its file.
FilesWritten(c) ==
  \A v \in (Files(c) \cap Secrets(c)) \ proc[c].vaultFiles :
    files[c][Location(c, v)] = Written(c, v)

\* A process that has not loaded its configuration has opened no file.
Idle(c) == proc[c].pc \in {"exited", "login", "load"} => proc[c].writing = {}

Resolved(c) == Pending(c) => Progress(c) /\ Fetched(c) /\ FilesWritten(c)

IInv == /\ TypeOK /\ Wrapping /\ SinceStart
        /\ \A c \in Containers : Idle(c) /\ Resolved(c)

LEMMA InitIInv == Init => IInv
<1> SUFFICES ASSUME Init PROVE IInv
  OBVIOUS
<1>1. NoVersions \in [Keys -> Versions] /\ Exited \in Process /\ Empty \in Contents
  BY BoundsAssumption DEF NoVersions, Versions, Exited, Process, Empty, Contents
<1>2. TypeOK
  BY <1>1, BoundsAssumption DEF Init, TypeOK, Versions
<1>3. Wrapping /\ SinceStart
  BY DEF Init, Wrapping, SinceStart, Exited, NoVersions
<1> QED
  BY <1>2, <1>3 DEF IInv, Init, Idle, Resolved, Pending, Exited

-----------------------------------------------------------------------------
(* Type correctness *)

\* Before a variable's file is written, it is a reference of a listed container.
LEMMA WritingType ==
  ASSUME IInv, NEW c \in Containers, proc[c].pc = "resolve", NEW v \in Variables,
         v \in proc[c].vaultFiles
  PROVE  /\ HasConfig(c) /\ v \in Files(c) /\ v \in References(c)
         /\ KeyOf(c, v) \in Keys /\ Location(c, v) \in Locations
<1>1. HasConfig(c) /\ v \in Files(c)
  BY DEF IInv, Wrapping, Resolved, Pending, Progress, Loadable
<1>2. v \in References(c)
  BY <1>1 DEF Files, References, OfKind
<1> QED
  BY <1>1, <1>2, ReferenceType DEF IInv

LEMMA TypeStep == IInv /\ [Next]_vars => TypeOK'
<1> SUFFICES ASSUME IInv, [Next]_vars PROVE TypeOK'
  OBVIOUS
<1> USE DEF kube, store
<1>0. TypeOK
  BY DEF IInv
<1>1. NoVersions \in [Keys -> Versions] /\ Exited \in Process /\ Empty \in Contents
  BY BoundsAssumption DEF NoVersions, Versions, Exited, Process, Empty, Contents
<1>2. CASE Admit
  BY <1>0, <1>2 DEF Admit, Inject, TypeOK
<1>3. CASE Refuse
  BY <1>0, <1>3, BoundsAssumption DEF Refuse, RefusedPod, TypeOK
<1>4. CASE Install
  BY <1>0, <1>4 DEF Install, InstallCreate, InstallRefused, InstallCopy, InstallChmod,
                    vars, TypeOK
<1>5. CASE InstallFails
  BY <1>0, <1>5, BoundsAssumption DEF InstallFails, TypeOK
<1>6. CASE RecreateSandbox
  BY <1>0, <1>1, <1>6, BoundsAssumption DEF RecreateSandbox, TypeOK
<1>7. ASSUME NEW c \in Containers, Start(c) PROVE TypeOK'
  <2>1. [Exited EXCEPT !.pc = IF c \notin wrapped THEN "running"
                              ELSE IF pod.token THEN "load" ELSE "login",
                       !.since = vault] \in Process
    BY <1>0, <1>1 DEF Process, TypeOK
  <2> QED
    BY <1>0, <1>7, <2>1 DEF Start, Become, TypeOK
<1>8. ASSUME NEW c \in Containers, ExecStep(c) PROVE TypeOK'
  <2>1. proc[c] \in Process
    BY <1>0 DEF TypeOK
  <2>2. CASE Login(c)
    BY <1>0, <2>1, <2>2 DEF Login, Become, TypeOK, Process
  <2>3. CASE Load(c)
    <3>1. CASE ~Loadable(c)
      BY <1>0, <1>1, <2>3, <3>1 DEF Load, Become, TypeOK
    <3>2. CASE Loadable(c)
      <4>1. HasConfig(c)
        BY <3>2 DEF Loadable
      <4>2. \A v \in References(c) : v \in Variables /\ KeyOf(c, v) \in Keys
        BY <1>0, <4>1, ReferenceType
      <4>3. {KeyOf(c, v) : v \in OfKind(c, {"vault", "file"})} \subseteq Keys
        BY <4>2 DEF References
      <4>4. OfKind(c, {"file"}) \subseteq Variables
        BY <4>2 DEF References, OfKind
      <4>5. [proc[c] EXCEPT
              !.pc = "resolve",
              !.keysToFetch = {KeyOf(c, v) : v \in OfKind(c, {"vault", "file"})},
              !.vaultFiles = OfKind(c, {"file"})] \in Process
        BY <2>1, <4>3, <4>4 DEF Process
      <4> QED
        BY <1>0, <2>3, <3>2, <4>5 DEF Load, Become, TypeOK
    <3> QED
      BY <3>1, <3>2
  <2>4. CASE Fetch(c)
    <3>1. PICK k \in proc[c].keysToFetch :
            Become(c, IF live[k]
                      THEN [proc[c] EXCEPT !.keysToFetch = @ \ {k},
                                           !.secretEnv[k] = vault[k]]
                      ELSE Exited)
      BY <2>4 DEF Fetch
    <3>2. [proc[c] EXCEPT !.keysToFetch = @ \ {k}, !.secretEnv[k] = vault[k]] \in Process
      BY <1>0, <2>1 DEF TypeOK, Process
    <3> QED
      BY <1>0, <1>1, <2>4, <3>1, <3>2 DEF Fetch, Become, TypeOK
  <2>5. CASE OpenFile(c)
    <3>1. PICK v \in proc[c].vaultFiles :
            /\ Become(c, [proc[c] EXCEPT !.writing = {v}])
            /\ files' = [files EXCEPT ![c][Location(c, v)] = Empty]
      BY <2>5 DEF OpenFile
    <3>2. [proc[c] EXCEPT !.writing = {v}] \in Process
      BY <2>1 DEF Process
    <3> QED
      BY <1>0, <1>1, <2>5, <3>1, <3>2 DEF OpenFile, Become, TypeOK
  <2>6. CASE WriteFile(c)
    <3>1. PICK v \in proc[c].writing :
            /\ Become(c, [proc[c] EXCEPT !.writing = {}, !.vaultFiles = @ \ {v}])
            /\ files' = [files EXCEPT ![c][Location(c, v)] = Written(c, v)]
      BY <2>6 DEF WriteFile
    <3>2. [proc[c] EXCEPT !.writing = {}, !.vaultFiles = @ \ {v}] \in Process
      BY <2>1 DEF Process
    <3>3. v \in Variables /\ v \in proc[c].vaultFiles
      BY <2>1, <2>6 DEF WriteFile, IInv, Wrapping, Resolved, Pending, Progress, Process
    <3>4. KeyOf(c, v) \in Keys
      BY <2>6, <3>3, WritingType DEF WriteFile
    <3>5. Written(c, v) \in Contents
      BY <2>1, <3>4 DEF Written, Contents, Process
    <3> QED
      BY <1>0, <2>6, <3>1, <3>2, <3>5 DEF WriteFile, Become, TypeOK
  <2>7. CASE Exec(c)
    BY <1>0, <2>1, <2>7 DEF Exec, Become, TypeOK, Process
  <2> QED
    BY <1>8, <2>2, <2>3, <2>4, <2>5, <2>6, <2>7 DEF ExecStep
<1>9. ASSUME NEW c \in Containers, ExecFails(c) \/ ExitApplication(c) PROVE TypeOK'
  BY <1>0, <1>1, <1>9, BoundsAssumption DEF ExecFails, ExitApplication, Become, TypeOK
<1>10. ASSUME NEW k \in Keys, Rotate(k) \/ Delete(k) PROVE TypeOK'
  <2>1. vault' \in [Keys -> Versions]
    BY <1>0, <1>10, BoundsAssumption DEF Rotate, Delete, TypeOK, Versions
  <2>2. live' \in [Keys -> BOOLEAN]
    BY <1>0, <1>10 DEF Rotate, Delete, TypeOK
  <2>3. UNCHANGED <<kube, proc, files, failures>>
    BY <1>10 DEF Rotate, Delete
  <2> QED
    BY <1>0, <2>1, <2>2, <2>3 DEF TypeOK
<1>11. CASE UNCHANGED vars
  BY <1>0, <1>11 DEF vars, TypeOK
<1> QED
  BY <1>2, <1>3, <1>4, <1>5, <1>6, <1>7, <1>8, <1>9, <1>10, <1>11 DEF Next

-----------------------------------------------------------------------------
(* Wrapping and versions *)

LEMMA WrappingStep == IInv /\ [Next]_vars => Wrapping'
<1> SUFFICES ASSUME IInv, [Next]_vars PROVE Wrapping'
  OBVIOUS
<1> USE DEF kube, store, Annotated, Inject, Entries, Annotation
<1>0. TypeOK /\ Wrapping
  BY DEF IInv
<1>1. CASE Admit
  BY <1>0, <1>1 DEF Admit, Wrapping, Exited
<1>2. CASE Refuse \/ Install \/ InstallFails
  BY <1>0, <1>2 DEF Refuse, RefusedPod, Install, InstallCreate, InstallRefused,
                    InstallCopy, InstallChmod, InstallFails, vars, Wrapping
<1>3. CASE RecreateSandbox
  BY <1>0, <1>3 DEF RecreateSandbox, Wrapping, Exited
<1>4. ASSUME NEW c \in Containers,
             Start(c) \/ ExecStep(c) \/ ExecFails(c) \/ ExitApplication(c)
      PROVE  Wrapping'
  <2>1. proc[c] \in Process
    BY <1>0 DEF TypeOK
  <2>2. step # "submitted"
    <3>1. step = "submitted" => proc[c].pc = "exited"
      BY <1>0 DEF Wrapping, Exited
    <3>2. CASE Start(c)
      BY <3>2 DEF Start
    <3>3. CASE ExecStep(c)
      BY <3>1, <3>3 DEF ExecStep, Login, Load, Fetch, OpenFile, WriteFile, Exec
    <3>4. CASE ExecFails(c) \/ ExitApplication(c)
      BY <3>1, <3>4 DEF ExecFails, ExitApplication
    <3> QED
      BY <1>4, <3>2, <3>3, <3>4
  <2>3. UNCHANGED kube
    BY <1>4 DEF Start, ExecStep, Login, Load, Fetch, OpenFile, WriteFile, Exec,
                ExecFails, ExitApplication, Become
  <2>4. \A d \in Containers \ {c} : proc'[d] = proc[d]
    BY <1>0, <1>4 DEF Start, ExecStep, Login, Load, Fetch, OpenFile, WriteFile, Exec,
                      ExecFails, ExitApplication, Become, TypeOK
  <2>5. proc'[c].pc \in {"login", "load", "resolve"} => c \in wrapped
    <3>1. CASE Start(c)
      BY <1>0, <3>1 DEF Start, Become, TypeOK, Exited
    <3>2. CASE Login(c) \/ Load(c) \/ Fetch(c) \/ OpenFile(c) \/ WriteFile(c) \/ Exec(c)
      BY <1>0, <3>2 DEF Login, Load, Fetch, OpenFile, WriteFile, Exec, Wrapping
    <3>3. CASE ExecFails(c) \/ ExitApplication(c)
      BY <1>0, <3>3 DEF ExecFails, ExitApplication, Become, TypeOK, Exited
    <3> QED
      BY <1>4, <3>1, <3>2, <3>3 DEF ExecStep
  <2> QED
    BY <1>0, <2>2, <2>3, <2>4, <2>5 DEF Wrapping
<1>5. CASE (\E k \in Keys : Rotate(k) \/ Delete(k)) \/ UNCHANGED vars
  BY <1>0, <1>5 DEF Rotate, Delete, vars, Wrapping
<1> QED
  BY <1>1, <1>2, <1>3, <1>4, <1>5 DEF Next

\* A process remembers what Vault held when it started, until it has exited.
LEMMA SinceFixed ==
  ASSUME TypeOK, NEW c \in Containers,
         ExecStep(c) \/ ExecFails(c) \/ ExitApplication(c)
  PROVE  proc'[c].since \in {proc[c].since, NoVersions}
<1>1. proc[c] \in Process /\ DOMAIN proc = Containers
  BY DEF TypeOK
<1>2. Exited.since = NoVersions
  BY DEF Exited
<1>3. CASE Login(c) \/ Exec(c)
  <2>1. \A pc : [proc[c] EXCEPT !.pc = pc].since = proc[c].since
    BY <1>1 DEF Process
  <2> QED
    BY <1>1, <1>3, <2>1 DEF Login, Exec, Become
<1>4. CASE Load(c)
  <2>1. \A pc, K, V : [proc[c] EXCEPT !.pc = pc, !.keysToFetch = K, !.vaultFiles = V].since
                     = proc[c].since
    BY <1>1 DEF Process
  <2> QED
    BY <1>1, <1>2, <1>4, <2>1 DEF Load, Become
<1>5. CASE Fetch(c)
  BY <1>1, <1>2, <1>5 DEF Fetch, Become, Process, TypeOK
<1>6. CASE OpenFile(c)
  <2>1. \A V : [proc[c] EXCEPT !.writing = V].since = proc[c].since
    BY <1>1 DEF Process
  <2> QED
    BY <1>1, <1>6, <2>1 DEF OpenFile, Become
<1>7. CASE WriteFile(c)
  <2>1. \A V, W : [proc[c] EXCEPT !.writing = W, !.vaultFiles = V].since = proc[c].since
    BY <1>1 DEF Process
  <2> QED
    BY <1>1, <1>7, <2>1 DEF WriteFile, Become
<1>8. CASE ExecFails(c) \/ ExitApplication(c)
  BY <1>1, <1>2, <1>8 DEF ExecFails, ExitApplication, Become, TypeOK
<1> QED
  BY <1>3, <1>4, <1>5, <1>6, <1>7, <1>8 DEF ExecStep

LEMMA SinceStep == IInv /\ [Next]_vars => SinceStart'
<1> SUFFICES ASSUME IInv, [Next]_vars PROVE SinceStart'
  OBVIOUS
<1> USE DEF kube, store
<1>0. TypeOK /\ SinceStart
  BY DEF IInv
<1>1. CASE Admit \/ Refuse \/ Install \/ InstallFails \/ UNCHANGED vars
  BY <1>0, <1>1 DEF Admit, Refuse, Install, InstallCreate, InstallRefused, InstallCopy,
                    InstallChmod, InstallFails, vars, SinceStart
<1>2. CASE RecreateSandbox
  BY <1>0, <1>2 DEF RecreateSandbox, SinceStart, Exited, NoVersions, TypeOK, Versions
<1>3. ASSUME NEW c \in Containers,
             Start(c) \/ ExecStep(c) \/ ExecFails(c) \/ ExitApplication(c)
      PROVE  SinceStart'
  <2>1. UNCHANGED vault /\ \A d \in Containers \ {c} : proc'[d] = proc[d]
    BY <1>0, <1>3 DEF Start, ExecStep, Login, Load, Fetch, OpenFile, WriteFile, Exec,
                      ExecFails, ExitApplication, Become, TypeOK
  <2>2. proc'[c].since \in {proc[c].since, NoVersions, vault}
    <3>1. CASE Start(c)
      BY <1>0, <3>1 DEF Start, Become, TypeOK, Exited
    <3> QED
      BY <1>0, <1>3, <3>1, SinceFixed
  <2>3. \A k \in Keys : NoVersions[k] <= vault[k] /\ vault[k] <= vault[k]
    BY <1>0 DEF NoVersions, TypeOK, Versions
  <2>4. \A k \in Keys : proc'[c].since[k] <= vault[k]
    BY <1>0, <2>2, <2>3 DEF SinceStart
  <2> QED
    BY <1>0, <2>1, <2>4 DEF SinceStart
<1>4. ASSUME NEW k \in Keys, Rotate(k) \/ Delete(k) PROVE SinceStart'
  <2>1. UNCHANGED proc /\ vault \in [Keys -> Nat] /\ \A j \in Keys : vault[j] <= vault'[j]
    BY <1>0, <1>4, BoundsAssumption DEF Rotate, Delete, TypeOK, Versions
  <2>2. \A c \in Containers, j \in Keys : proc[c].since[j] \in Nat
    BY <1>0, BoundsAssumption DEF TypeOK, Process, Versions
  <2>3. vault' \in [Keys -> Nat]
    BY <1>4, <2>1 DEF Rotate, Delete
  <2> QED
    BY <1>0, <2>1, <2>2, <2>3 DEF SinceStart
<1> QED
  BY <1>1, <1>2, <1>3, <1>4 DEF Next

-----------------------------------------------------------------------------
(* Resolution *)

\* A container keeps what is proved of it while its process and files are left alone.
LEMMA Unaffected ==
  ASSUME NEW c \in Containers, Resolved(c),
         pod' = pod, wrapped' = wrapped, proc'[c] = proc[c], files'[c] = files[c]
  PROVE  Resolved(c)'
<1>1. Pending(c)' <=> Pending(c)
  BY DEF Pending
<1>2. Progress(c)' <=> Progress(c)
  BY PodFixed DEF Progress
<1>3. Fetched(c)' <=> Fetched(c)
  BY PodFixed DEF Fetched
<1>4. FilesWritten(c)' <=> FilesWritten(c)
  BY PodFixed DEF FilesWritten, Written
<1> QED
  BY <1>1, <1>2, <1>3, <1>4 DEF Resolved

LEMMA LoadResolves ==
  ASSUME IInv, NEW c \in Containers, Load(c)
  PROVE  Resolved(c)'
<1>1. CASE ~Loadable(c)
  BY <1>1 DEF Load, Become, IInv, TypeOK, Resolved, Pending, Exited
<1>2. CASE Loadable(c)
  <2> DEFINE p == [proc[c] EXCEPT
                    !.pc = "resolve",
                    !.keysToFetch = {KeyOf(c, v) : v \in References(c)},
                    !.vaultFiles = Files(c)]
  <2>1. proc'[c] = p /\ pod' = pod /\ proc[c] \in Process /\ proc[c].pc = "load"
    BY <1>2 DEF Load, Become, IInv, TypeOK, References, Files, kube
  <2>2. proc[c].writing = {}
    BY <2>1 DEF IInv, Idle
  <2>3. /\ p.pc = "resolve" /\ p.vaultFiles = Files(c) /\ p.writing = {}
        /\ p.keysToFetch = {KeyOf(c, v) : v \in References(c)}
    BY <2>1, <2>2 DEF Process
  <2> HIDE DEF p
  <2>4. Progress(c)'
    BY <1>2, <2>1, <2>3, PodFixed DEF Progress
  <2>5. Fetched(c)'
    BY <2>1, <2>3, PodFixed DEF Fetched
  <2>6. FilesWritten(c)'
    BY <2>1, <2>3, PodFixed DEF FilesWritten
  <2> QED
    BY <2>4, <2>5, <2>6 DEF Resolved
<1> QED
  BY <1>1, <1>2

LEMMA FetchResolves ==
  ASSUME IInv, NEW c \in Containers, Fetch(c)
  PROVE  Resolved(c)'
<1>1. PICK k \in proc[c].keysToFetch :
        Become(c, IF live[k]
                  THEN [proc[c] EXCEPT !.keysToFetch = @ \ {k}, !.secretEnv[k] = vault[k]]
                  ELSE Exited)
  BY DEF Fetch
<1>2. CASE ~live[k]
  BY <1>1, <1>2 DEF Become, IInv, TypeOK, Resolved, Pending, Exited
<1>3. CASE live[k]
  <2> DEFINE p == [proc[c] EXCEPT !.keysToFetch = @ \ {k}, !.secretEnv[k] = vault[k]]
  <2>1. proc'[c] = p /\ pod' = pod /\ wrapped' = wrapped /\ proc[c] \in Process
    BY <1>1, <1>3 DEF Become, IInv, TypeOK, kube
  <2>2. k \in Keys /\ vault[k] \in Versions
    BY <2>1 DEF Process, IInv, TypeOK
  <2>3. /\ p.pc = proc[c].pc /\ p.keysToFetch = proc[c].keysToFetch \ {k}
        /\ p.vaultFiles = proc[c].vaultFiles /\ p.writing = proc[c].writing
        /\ p.since = proc[c].since
        /\ p.secretEnv = [proc[c].secretEnv EXCEPT ![k] = vault[k]]
    BY <2>1 DEF Process
  <2>4. proc[c].pc = "resolve" /\ Progress(c) /\ Fetched(c)
    BY DEF Fetch, IInv, Wrapping, Resolved, Pending
  <2>5. /\ p.secretEnv[k] = vault[k]
        /\ \A j \in Keys \ {k} : p.secretEnv[j] = proc[c].secretEnv[j]
    BY <2>1, <2>2, <2>3 DEF Process
  <2>6. vault[k] > 0 /\ proc[c].since[k] <= vault[k]
    BY <2>2 DEF IInv, SinceStart
  <2> HIDE DEF p
  <2>7. Progress(c)'
    BY <1>1, <2>1, <2>3, <2>4, PodFixed DEF Progress
  <2>8. Fetched(c)'
    <3>1. \A v \in References(c) : KeyOf(c, v) \in Keys
      BY <2>4, ReferenceType DEF IInv, Progress, Loadable
    <3>2. ASSUME NEW v \in References(c)
          PROVE  \/ KeyOf(c, v) \in p.keysToFetch
                 \/ /\ p.secretEnv[KeyOf(c, v)] > 0
                    /\ p.since[KeyOf(c, v)] <= p.secretEnv[KeyOf(c, v)]
      BY <2>3, <2>4, <2>5, <2>6, <3>1 DEF Fetched
    <3> QED
      BY <2>1, <3>2, PodFixed DEF Fetched
  <2>9. FilesWritten(c)'
    BY <1>1, <2>1, <2>3, <2>4, PodFixed DEF FilesWritten, Progress
  <2> QED
    BY <2>7, <2>8, <2>9 DEF Resolved
<1> QED
  BY <1>2, <1>3

LEMMA OpenFileResolves ==
  ASSUME IInv, NEW c \in Containers, OpenFile(c)
  PROVE  Resolved(c)'
<1>1. PICK v \in proc[c].vaultFiles :
        /\ Become(c, [proc[c] EXCEPT !.writing = {v}])
        /\ files' = [files EXCEPT ![c][Location(c, v)] = Empty]
  BY DEF OpenFile
<1> DEFINE p == [proc[c] EXCEPT !.writing = {v}]
<1>2. proc'[c] = p /\ pod' = pod /\ proc[c] \in Process
  BY <1>1 DEF Become, IInv, TypeOK, kube
<1>3. /\ p.pc = proc[c].pc /\ p.keysToFetch = proc[c].keysToFetch
      /\ p.vaultFiles = proc[c].vaultFiles /\ p.writing = {v}
      /\ p.since = proc[c].since /\ p.secretEnv = proc[c].secretEnv
  BY <1>2 DEF Process
<1>4. /\ proc[c].pc = "resolve" /\ proc[c].keysToFetch = {}
      /\ Progress(c) /\ Fetched(c) /\ FilesWritten(c)
  BY DEF OpenFile, IInv, Wrapping, Resolved, Pending
<1> HIDE DEF p
<1>5. Progress(c)'
  BY <1>1, <1>2, <1>3, <1>4, PodFixed DEF Progress
<1>6. Fetched(c)'
  BY <1>2, <1>3, <1>4, PodFixed DEF Fetched
<1>7. FilesWritten(c)'
  <2>1. ASSUME NEW u \in (Files(c) \cap Secrets(c)) \ proc[c].vaultFiles
        PROVE  files'[c][Location(c, u)] = files[c][Location(c, u)]
    <3>1. Location(c, u) # Location(c, v)
      BY <1>4, FileLocations DEF IInv, Progress, Loadable
    <3> QED
      BY <1>1, <3>1 DEF IInv, TypeOK
  <2> QED
    BY <1>2, <1>3, <1>4, <2>1, PodFixed DEF FilesWritten, Written
<1> QED
  BY <1>5, <1>6, <1>7 DEF Resolved

LEMMA WriteFileResolves ==
  ASSUME IInv, NEW c \in Containers, WriteFile(c)
  PROVE  Resolved(c)'
<1>1. PICK v \in proc[c].writing :
        /\ Become(c, [proc[c] EXCEPT !.writing = {}, !.vaultFiles = @ \ {v}])
        /\ files' = [files EXCEPT ![c][Location(c, v)] = Written(c, v)]
  BY DEF WriteFile
<1> DEFINE p == [proc[c] EXCEPT !.writing = {}, !.vaultFiles = @ \ {v}]
<1>2. proc'[c] = p /\ pod' = pod /\ proc[c] \in Process
  BY <1>1 DEF Become, IInv, TypeOK, kube
<1>3. /\ p.pc = proc[c].pc /\ p.keysToFetch = proc[c].keysToFetch
      /\ p.vaultFiles = proc[c].vaultFiles \ {v} /\ p.writing = {}
      /\ p.since = proc[c].since /\ p.secretEnv = proc[c].secretEnv
  BY <1>2 DEF Process
<1>4. proc[c].pc = "resolve" /\ Progress(c) /\ Fetched(c) /\ FilesWritten(c)
  BY DEF WriteFile, IInv, Wrapping, Resolved, Pending
<1>5. proc[c].keysToFetch = {} /\ HasConfig(c) /\ v \in Files(c)
  BY <1>1, <1>4 DEF Progress, Loadable
<1> HIDE DEF p
<1>6. Progress(c)'
  BY <1>2, <1>3, <1>4, <1>5, PodFixed DEF Progress
<1>7. Fetched(c)'
  BY <1>2, <1>3, <1>4, PodFixed DEF Fetched
<1>8. FilesWritten(c)'
  <2>1. ASSUME NEW u \in (Files(c) \cap Secrets(c)) \ p.vaultFiles
        PROVE  files'[c][Location(c, u)] = Written(c, u)
    <3>1. files[c] \in [Locations -> Contents] /\ c \in DOMAIN files
      BY DEF IInv, TypeOK
    <3>2. CASE u = v
      <4>1. Location(c, v) \in Locations
        BY <1>5, ReferenceType DEF IInv, Files, References, OfKind
      <4> QED
        BY <1>1, <3>1, <3>2, <4>1
    <3>3. CASE u # v
      <4>1. Location(c, u) # Location(c, v)
        BY <1>5, <3>3, FileLocations DEF IInv
      <4> QED
        BY <1>1, <1>3, <1>4, <3>1, <3>3, <4>1 DEF FilesWritten
    <3> QED
      BY <3>2, <3>3
  <2> QED
    BY <1>2, <1>3, <2>1, PodFixed DEF FilesWritten, Written
<1> QED
  BY <1>6, <1>7, <1>8 DEF Resolved

LEMMA ExecResolves ==
  ASSUME IInv, NEW c \in Containers, Exec(c)
  PROVE  Resolved(c)'
<1> DEFINE p == [proc[c] EXCEPT !.pc = "running"]
<1>1. proc'[c] = p /\ pod' = pod /\ files' = files /\ proc[c] \in Process
  BY DEF Exec, Become, IInv, TypeOK, kube
<1>2. /\ p.pc = "running" /\ p.keysToFetch = proc[c].keysToFetch
      /\ p.vaultFiles = proc[c].vaultFiles /\ p.writing = proc[c].writing
      /\ p.since = proc[c].since /\ p.secretEnv = proc[c].secretEnv
  BY <1>1 DEF Process
<1>3. /\ proc[c].keysToFetch = {} /\ proc[c].vaultFiles = {}
      /\ Progress(c) /\ Fetched(c) /\ FilesWritten(c)
  BY DEF Exec, IInv, Wrapping, Resolved, Pending
<1> HIDE DEF p
<1>4. Progress(c)' /\ Fetched(c)' /\ FilesWritten(c)'
  BY <1>1, <1>2, <1>3, PodFixed DEF Progress, Fetched, FilesWritten, Written
<1> QED
  BY <1>4 DEF Resolved

\* The remaining steps of a container: it has not loaded its configuration, or exits.
LEMMA UnpendingResolves ==
  ASSUME IInv, NEW c \in Containers,
         Start(c) \/ Login(c) \/ ExecFails(c) \/ ExitApplication(c)
  PROVE  Resolved(c)'
<1>1. CASE Start(c)
  BY <1>1 DEF Start, Become, IInv, TypeOK, kube, Resolved, Pending, Exited
<1>2. CASE Login(c)
  <2>1. [proc[c] EXCEPT !.pc = "load"].pc = "load"
    BY <1>2 DEF IInv, TypeOK, Process
  <2> QED
    BY <1>2, <2>1 DEF Login, Become, IInv, TypeOK, Resolved, Pending
<1>3. CASE ExecFails(c) \/ ExitApplication(c)
  BY <1>3 DEF ExecFails, ExitApplication, Become, IInv, TypeOK, Resolved, Pending, Exited
<1> QED
  BY <1>1, <1>2, <1>3

LEMMA IdleStep ==
  ASSUME IInv, NEW c \in Containers,
         Start(c) \/ ExecStep(c) \/ ExecFails(c) \/ ExitApplication(c)
  PROVE  Idle(c)'
<1>1. proc[c] \in Process /\ Exited.writing = {} /\ DOMAIN proc = Containers
  BY DEF IInv, TypeOK, Exited
<1>2. CASE Start(c)
  BY <1>1, <1>2 DEF Start, Become, Idle, Exited
<1>3. CASE Login(c) \/ Load(c)
  BY <1>1, <1>3 DEF Login, Load, Become, Idle, IInv, Process
<1>4. CASE Fetch(c)
  BY <1>1, <1>4 DEF Fetch, Become, Idle, Process
<1>5. CASE OpenFile(c) \/ WriteFile(c) \/ Exec(c)
  BY <1>1, <1>5 DEF OpenFile, WriteFile, Exec, Become, Idle, Process
<1>6. CASE ExecFails(c) \/ ExitApplication(c)
  BY <1>1, <1>6 DEF ExecFails, ExitApplication, Become, Idle
<1> QED
  BY <1>2, <1>3, <1>4, <1>5, <1>6 DEF ExecStep

LEMMA ResolvedStep ==
  ASSUME IInv, [Next]_vars, NEW d \in Containers
  PROVE  Idle(d)' /\ Resolved(d)'
<1> USE DEF kube, store
<1>0. TypeOK /\ Wrapping /\ Idle(d) /\ Resolved(d)
  BY DEF IInv
<1>1. CASE Admit
  <2>1. proc'[d] = Exited
    BY <1>0, <1>1 DEF Admit, Wrapping
  <2> QED
    BY <2>1 DEF Idle, Resolved, Pending, Exited
<1>2. CASE RecreateSandbox
  BY <1>2 DEF RecreateSandbox, Idle, Resolved, Pending, Exited
<1>3. CASE \/ Refuse \/ Install \/ InstallFails \/ UNCHANGED vars
           \/ \E k \in Keys : Rotate(k) \/ Delete(k)
  <2>1. UNCHANGED <<pod, wrapped, proc, files>>
    BY <1>3 DEF Refuse, Install, InstallCreate, InstallRefused, InstallCopy,
                InstallChmod, InstallFails, Rotate, Delete, vars
  <2> QED
    BY <1>0, <2>1, Unaffected DEF Idle
<1>4. ASSUME NEW c \in Containers, c # d,
             Start(c) \/ ExecStep(c) \/ ExecFails(c) \/ ExitApplication(c)
      PROVE  Idle(d)' /\ Resolved(d)'
  <2>1. pod' = pod /\ wrapped' = wrapped /\ proc'[d] = proc[d] /\ files'[d] = files[d]
    BY <1>0, <1>4 DEF Start, ExecStep, Login, Load, Fetch, OpenFile, WriteFile, Exec,
                      ExecFails, ExitApplication, Become, TypeOK
  <2> QED
    BY <1>0, <2>1, Unaffected DEF Idle
<1>5. CASE Start(d) \/ ExecStep(d) \/ ExecFails(d) \/ ExitApplication(d)
  BY <1>5, IdleStep, UnpendingResolves, LoadResolves, FetchResolves, OpenFileResolves,
     WriteFileResolves, ExecResolves
     DEF ExecStep
<1> QED
  BY <1>1, <1>2, <1>3, <1>4, <1>5 DEF Next

-----------------------------------------------------------------------------
(* Theorems *)

LEMMA IInvHeld == Spec => []IInv
<1>1. IInv /\ [Next]_vars => IInv'
  BY TypeStep, WrappingStep, SinceStep, ResolvedStep DEF IInv
<1> QED
  BY InitIInv, <1>1, PTL DEF Spec

\* Every variable keeps its type: what is written into a file is a version of a key.
THEOREM TypeCorrect == Spec => []TypeOK
<1>1. IInv => TypeOK
  BY DEF IInv
<1> QED
  BY IInvHeld, <1>1, PTL

\* What a running application holds of its secrets is what was fetched for them.
LEMMA HeldIsFetched ==
  ASSUME IInv, NEW c \in Containers, Application(c), NEW v \in Secrets(c)
  PROVE  LET k == Declared(c)[v].key IN
         /\ k \in Keys /\ c \in wrapped
         /\ Held(c, v) = [key |-> k, version |-> proc[c].secretEnv[k]]
         /\ proc[c].secretEnv[k] > 0
         /\ proc[c].since[k] <= proc[c].secretEnv[k]
<1>1. c \in wrapped
  <2>1. proc[c] # Exited
    BY DEF Application, Exited
  <2>2. step # "submitted"
    BY <2>1 DEF IInv, Wrapping
  <2> QED
    BY <2>2 DEF IInv, Wrapping, Application, Listed, Inject
<1>2. /\ Progress(c) /\ Fetched(c) /\ FilesWritten(c)
      /\ proc[c].keysToFetch = {} /\ proc[c].vaultFiles = {}
  BY <1>1 DEF IInv, Resolved, Pending, Progress, Application
<1>3. environment(c) = Declared(c) /\ HasConfig(c) /\ TypeOK
  BY <1>2, EnvironmentIsDeclared DEF IInv, Progress, Loadable
<1>4. v \in References(c) /\ KeyOf(c, v) = Declared(c)[v].key
  BY <1>3 DEF References, OfKind, Secrets, KeyOf
<1>5. KeyOf(c, v) \in Keys
  BY <1>3, <1>4, ReferenceType
<1>6. /\ proc[c].secretEnv[KeyOf(c, v)] > 0
      /\ proc[c].since[KeyOf(c, v)] <= proc[c].secretEnv[KeyOf(c, v)]
  BY <1>2, <1>4 DEF Fetched
<1>7. CASE Declared(c)[v].kind = "vault"
  BY <1>1, <1>4, <1>5, <1>6, <1>7 DEF Held
<1>8. CASE Declared(c)[v].kind # "vault"
  <2>1. v \in Files(c) \cap Secrets(c)
    BY <1>3, <1>8 DEF Files, OfKind, Secrets
  <2>2. files[c][Location(c, v)] = Written(c, v)
    BY <1>2, <2>1 DEF FilesWritten
  <2>3. Held(c, v) = files[c][Location(c, v)]
    BY <1>3, <1>8 DEF Held, Location
  <2> QED
    BY <1>1, <1>4, <1>5, <1>6, <2>2, <2>3 DEF Written
<1> QED
  BY <1>7, <1>8

\* However failures, kills and rotations fall, a listed application only runs with
\* its own secrets, none older than its process.
THEOREM OwnSecretsHeld == Spec => []OwnSecrets
<1>1. ASSUME IInv PROVE OwnSecrets
  <2> SUFFICES ASSUME NEW c \in Containers, Application(c)
               PROVE  /\ c \in wrapped
                      /\ \A v \in Secrets(c) :
                           /\ Held(c, v).key = Declared(c)[v].key
                           /\ Held(c, v).version >= proc[c].since[Declared(c)[v].key]
                           /\ Held(c, v).version > 0
    BY DEF OwnSecrets
  <2>1. c \in wrapped
    <3>1. step # "submitted"
      BY <1>1 DEF IInv, Wrapping, Application, Exited
    <3> QED
      BY <1>1, <3>1 DEF IInv, Wrapping, Application, Listed, Inject
  <2>2. ASSUME NEW v \in Secrets(c)
        PROVE  /\ Held(c, v).key = Declared(c)[v].key
               /\ Held(c, v).version >= proc[c].since[Declared(c)[v].key]
               /\ Held(c, v).version > 0
    <3>1. proc[c] \in Process
      BY <1>1 DEF IInv, TypeOK
    <3> QED
      BY <1>1, <3>1, HeldIsFetched DEF Process, Versions
  <2> QED
    BY <2>1, <2>2
<1> QED
  BY IInvHeld, <1>1, PTL

\* A key is fetched once for every variable and file that refers to it, so that a
\* rotation during the start, or an earlier process's file, cannot mix versions.
THEOREM OneVersionHeld == Spec => []OneVersion
<1>1. ASSUME IInv PROVE OneVersion
  BY <1>1, HeldIsFetched DEF OneVersion
<1> QED
  BY IInvHeld, <1>1, PTL

=============================================================================
