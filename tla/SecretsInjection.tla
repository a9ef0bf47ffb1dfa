--------------------------- MODULE SecretsInjection ---------------------------
(***************************************************************************)
(* A pod with the secrets-injector annotation, from its admission by the   *)
(* webhook to its applications running with their secrets: the webhook     *)
(* wraps the containers the annotation names, an init container installs   *)
(* theatre-secrets, and in every wrapped container theatre-secrets exec    *)
(* resolves the environment from Vault and becomes the application.        *)
(*                                                                         *)
(* The kubelet runs a container again whenever it has exited, and the      *)
(* whole pod when its sandbox is lost; secrets are rotated, deleted and    *)
(* written again meanwhile.  A secret's value is its version.  Files are   *)
(* on a volume of their container that outlives the container's processes. *)
(***************************************************************************)
EXTENDS Naturals, Sequences

CONSTANTS
  Containers,  \* the names of the pod's containers
  Variables,   \* names of environment variables
  Keys, NoKey, \* keys in Vault, below the pod's path prefix
  Paths, NoPath,
  Pods,        \* pods that may be submitted, with their images' config files
  MaxVersion,  \* bound on the versions of a secret
  MaxFailures  \* bound on failed calls, killed processes and lost sandboxes

\* What an environment variable holds: a plain value, "vault:key",
\* "vault-file:key", "vault-file:key:path", or "vault-file:" and nothing else.
Value == [kind : {"plain", "vault", "file", "malformed"},
          key : Keys \cup {NoKey}, path : Paths \cup {NoPath}]

Plain == [kind |-> "plain", key |-> NoKey, path |-> NoPath]
Malformed == [Plain EXCEPT !.kind = "malformed"]
Secret(k) == [Plain EXCEPT !.kind = "vault", !.key = k]
SecretFile(k, p) == [kind |-> "file", key |-> k, path |-> p]

FQDNs == {"secrets-injector", "envconsul-injector"}

\* A pod as submitted: its annotations, lists of container names each with a
\* config file or without; the containers' environments; the config files in
\* their images, where there is one; whether VAULT_TOKEN is set; whether the init
\* container runs as root.  Every container states its command.
IsEnvironment(e) ==
  /\ DOMAIN e \subseteq Variables /\ e \in [DOMAIN e -> Value]
  /\ \A v \in DOMAIN e : e[v].kind \in {"vault", "file"} => e[v].key \in Keys

IsPod(p) ==
  /\ DOMAIN p.annotations \subseteq FQDNs
  /\ \A n \in DOMAIN p.annotations :
       p.annotations[n] \in Seq([container : STRING, file : BOOLEAN])
  /\ DOMAIN p.env = Containers /\ \A c \in Containers : IsEnvironment(p.env[c])
  /\ DOMAIN p.config \subseteq Containers
  /\ \A c \in DOMAIN p.config : IsEnvironment(p.config[c])
  /\ p.token \in BOOLEAN /\ p.root \in BOOLEAN

ASSUME BoundsAssumption == MaxVersion \in Nat \ {0} /\ MaxFailures \in Nat
ASSUME NamesAssumption ==
  NoKey \notin Keys /\ NoPath \notin Paths /\ Paths \cap Variables = {}
ASSUME PodsAssumption == \A p \in Pods : IsPod(p)

VARIABLES
  pod, step,     \* the pod, and how far it is: submitted, installing, started
  wrapped,       \* the containers the webhook has wrapped
  binary,        \* theatre-secrets in the installation volume
  proc,          \* the process of each container
  files,         \* the secret files on each container's volume
  vault, live,   \* the version of each secret, and whether it can be read
  failures

kube == <<pod, step, wrapped, binary>>
store == <<vault, live>>
vars == <<kube, proc, files, store, failures>>

Versions == 0..MaxVersion

\* A file is at a path or, when its variable gives none, in a new temporary file
\* of that variable.  An empty file holds no key.
Locations == Paths \cup Variables
Empty == [key |-> NoKey, version |-> 0]
Contents == [key : Keys \cup {NoKey}, version : Versions]

\* A process: keysToFetch, secretEnv and vaultFiles as in the source; writing is
\* the variable whose file is open; since is what Vault held when it started.
Process == [pc : {"exited", "login", "load", "resolve", "running"},
            keysToFetch : SUBSET Keys, secretEnv : [Keys -> Versions],
            vaultFiles : SUBSET Variables, writing : SUBSET Variables,
            since : [Keys -> Versions]]

NoVersions == [k \in Keys |-> 0]
Exited == [pc |-> "exited", keysToFetch |-> {}, secretEnv |-> NoVersions,
           vaultFiles |-> {}, writing |-> {}, since |-> NoVersions]

Init ==
  /\ pod \in Pods /\ step = "submitted" /\ wrapped = {} /\ binary = "absent"
  /\ proc = [c \in Containers |-> Exited]
  /\ files = [c \in Containers |-> [l \in Locations |-> Empty]]
  /\ vault = [k \in Keys |-> 1] /\ live = [k \in Keys |-> TRUE]
  /\ failures = 0

-----------------------------------------------------------------------------
(* The webhook *)

\* getFQDNConfig: the first annotation that is there.
Annotated == DOMAIN pod.annotations # {}

Annotation ==
  IF "secrets-injector" \in DOMAIN pod.annotations
  THEN pod.annotations["secrets-injector"]
  ELSE pod.annotations["envconsul-injector"]

\* parseContainerConfigs: a container that is listed twice keeps its last entry.
Entries(c) == {i \in DOMAIN Annotation : Annotation[i].container = c}

ConfigFile(c) ==
  \E i \in Entries(c) : Annotation[i].file /\ \A j \in Entries(c) : j <= i

\* Inject wraps the containers that are listed, and only those.
Inject == {c \in Containers : Entries(c) # {}}

Admit ==
  /\ step = "submitted"
  /\ IF Annotated THEN wrapped' = Inject /\ step' = "create"
                  ELSE wrapped' = {} /\ step' = "started"
  /\ UNCHANGED <<pod, binary, proc, files, store, failures>>

\* Without a Vault configuration an annotated pod is refused; whoever submits it
\* tries again.
RefusedPod_Allowed == step' = "started"                                \* mutant
RefusedPod == step' = "submitted"

Refuse ==
  /\ step = "submitted" /\ Annotated /\ failures < MaxFailures
  /\ RefusedPod
  /\ failures' = failures + 1
  /\ UNCHANGED <<pod, wrapped, binary, proc, files, store>>

-----------------------------------------------------------------------------
(* theatre-secrets install, run by the init container *)

\* os.Create truncates the file of an earlier installation, which is read-only to
\* its owner unless the owner is root.
CanCreate_New == binary = "absent"                                     \* mutant
CanCreate == binary # "executable" \/ pod.root

InstallCreate ==
  /\ step = "create" /\ CanCreate
  /\ binary' = "partial" /\ step' = "copy"
  /\ UNCHANGED <<pod, wrapped, proc, files, store, failures>>

\* The init container fails, again and again.
InstallRefused ==
  /\ step = "create" /\ ~CanCreate
  /\ UNCHANGED vars

InstallCopy ==
  /\ step = "copy"
  /\ binary' = "copied" /\ step' = "chmod"
  /\ UNCHANGED <<pod, wrapped, proc, files, store, failures>>

InstallChmod ==
  /\ step = "chmod"
  /\ binary' = "executable" /\ step' = "started"
  /\ UNCHANGED <<pod, wrapped, proc, files, store, failures>>

InstallFails ==
  /\ step \in {"create", "copy", "chmod"} /\ failures < MaxFailures
  /\ step' = "create" /\ failures' = failures + 1
  /\ UNCHANGED <<pod, wrapped, binary, proc, files, store>>

-----------------------------------------------------------------------------
(* theatre-secrets exec, run in every wrapped container *)

Become(c, p) ==
  /\ proc' = [proc EXCEPT ![c] = p]
  /\ UNCHANGED <<kube, store>>

\* The kubelet starts a container once the init containers have succeeded.
Start(c) ==
  /\ step = "started" /\ proc[c].pc = "exited"
  /\ c \in wrapped => binary = "executable"
  /\ Become(c, [Exited EXCEPT !.pc = IF c \notin wrapped THEN "running"
                                     ELSE IF pod.token THEN "load" ELSE "login",
                              !.since = vault])
  /\ UNCHANGED <<files, failures>>

Login(c) ==
  /\ proc[c].pc = "login"
  /\ Become(c, [proc[c] EXCEPT !.pc = "load"])
  /\ UNCHANGED <<files, failures>>

HasConfig(c) == ConfigFile(c) => c \in DOMAIN pod.config

Overridden(env, over) ==
  [v \in DOMAIN env \cup DOMAIN over |-> IF v \in DOMAIN over THEN over[v] ELSE env[v]]

environment_ProcessWins(c) ==                                          \* mutant
  IF ConfigFile(c) THEN Overridden(pod.config[c], pod.env[c]) ELSE pod.env[c]

\* The config file overrides the environment of the process.
environment(c) ==
  IF ConfigFile(c) THEN Overridden(pod.env[c], pod.config[c]) ELSE pod.env[c]

OfKind(c, kinds) == {v \in DOMAIN environment(c) : environment(c)[v].kind \in kinds}
KeyOf(c, v) == environment(c)[v].key

Loadable(c) == HasConfig(c) /\ OfKind(c, {"malformed"}) = {}

\* One set of keys for variables and files alike: each is read once.
Load(c) ==
  /\ proc[c].pc = "load"
  /\ Become(c, IF ~Loadable(c) THEN Exited
               ELSE [proc[c] EXCEPT
                      !.pc = "resolve",
                      !.keysToFetch = {KeyOf(c, v) : v \in OfKind(c, {"vault", "file"})},
                      !.vaultFiles = OfKind(c, {"file"})])
  /\ UNCHANGED <<files, failures>>

\* The keys are read in any order; one that is not there, or deleted, ends it all.
Fetch(c) ==
  /\ proc[c].pc = "resolve"
  /\ \E k \in proc[c].keysToFetch :
       Become(c, IF live[k]
                 THEN [proc[c] EXCEPT !.keysToFetch = @ \ {k},
                                      !.secretEnv[k] = vault[k]]
                 ELSE Exited)
  /\ UNCHANGED <<files, failures>>

Location(c, v) ==
  IF environment(c)[v].path = NoPath THEN v ELSE environment(c)[v].path

Written_Reference(c, v) == environment(c)[v]                           \* mutant
Written_Latest(c, v) == [key |-> KeyOf(c, v), version |-> vault[KeyOf(c, v)]]  \* mutant
Written(c, v) == [key |-> KeyOf(c, v), version |-> proc[c].secretEnv[KeyOf(c, v)]]

\* WriteFile opens the file, which empties it, and then writes it; the files are
\* written in any order, once every key has been read.
OpenFile(c) ==
  /\ proc[c].pc = "resolve" /\ proc[c].keysToFetch = {} /\ proc[c].writing = {}
  /\ \E v \in proc[c].vaultFiles :
       /\ Become(c, [proc[c] EXCEPT !.writing = {v}])
       /\ files' = [files EXCEPT ![c][Location(c, v)] = Empty]
  /\ UNCHANGED failures

WriteFile(c) ==
  /\ proc[c].pc = "resolve"
  /\ \E v \in proc[c].writing :
       /\ Become(c, [proc[c] EXCEPT !.writing = {}, !.vaultFiles = @ \ {v}])
       /\ files' = [files EXCEPT ![c][Location(c, v)] = Written(c, v)]
  /\ UNCHANGED failures

\* The process becomes the application, with the environment it has set.
Exec(c) ==
  /\ proc[c].pc = "resolve"
  /\ proc[c].keysToFetch = {} /\ proc[c].vaultFiles = {}
  /\ Become(c, [proc[c] EXCEPT !.pc = "running"])
  /\ UNCHANGED <<files, failures>>

\* A call to Vault or to the file system fails, or the process is killed.
ExecFails(c) ==
  /\ proc[c].pc \in {"login", "load", "resolve"} /\ failures < MaxFailures
  /\ Become(c, Exited)
  /\ failures' = failures + 1
  /\ UNCHANGED files

ExecStep(c) ==
  \/ Login(c) \/ Load(c) \/ Fetch(c) \/ OpenFile(c) \/ WriteFile(c) \/ Exec(c)

-----------------------------------------------------------------------------
(* The kubelet and Vault: not under src/, modelled from how they are used *)

ExitApplication(c) ==
  /\ proc[c].pc = "running"
  /\ Become(c, Exited)
  /\ UNCHANGED <<files, failures>>

\* A lost sandbox stops every container, and the init containers run again; the
\* volumes are those of the pod.
RecreateSandbox ==
  /\ step = "started" /\ failures < MaxFailures
  /\ step' = IF Annotated THEN "create" ELSE "started"
  /\ proc' = [c \in Containers |-> Exited]
  /\ failures' = failures + 1
  /\ UNCHANGED <<pod, wrapped, binary, files, store>>

Rotate(k) ==
  /\ vault[k] < MaxVersion
  /\ vault' = [vault EXCEPT ![k] = @ + 1]
  /\ live' = [live EXCEPT ![k] = TRUE]
  /\ UNCHANGED <<kube, proc, files, failures>>

Delete(k) ==
  /\ live[k]
  /\ live' = [live EXCEPT ![k] = FALSE]
  /\ UNCHANGED <<kube, proc, files, vault, failures>>

Install == InstallCreate \/ InstallRefused \/ InstallCopy \/ InstallChmod

Next ==
  \/ Admit \/ Refuse \/ Install \/ InstallFails \/ RecreateSandbox
  \/ \E c \in Containers :
       Start(c) \/ ExecStep(c) \/ ExecFails(c) \/ ExitApplication(c)
  \/ \E k \in Keys : Rotate(k) \/ Delete(k)

Spec == Init /\ [][Next]_vars

\* Whoever submits the pod persists, the kubelet starts what has exited, and
\* every process runs.  Nobody has to rotate, restore or delete a secret.
Fairness ==
  /\ WF_vars(Admit) /\ WF_vars(Install)
  /\ \A c \in Containers : WF_vars(Start(c)) /\ WF_vars(ExecStep(c))

FairSpec == Spec /\ Fairness

-----------------------------------------------------------------------------
(* Properties *)

\* Every variable holds a value of its type: a secret file is empty or holds a
\* version of one key, and a container's process is at one of its steps.
TypeOK ==
  /\ pod \in Pods /\ step \in {"submitted", "create", "copy", "chmod", "started"}
  /\ wrapped \subseteq Containers
  /\ binary \in {"absent", "partial", "copied", "executable"}
  /\ proc \in [Containers -> Process]
  /\ files \in [Containers -> [Locations -> Contents]]
  /\ vault \in [Keys -> Versions] /\ live \in [Keys -> BOOLEAN]
  /\ failures \in 0..MaxFailures

Listed(c) == Annotated /\ Entries(c) # {}
Application(c) == Listed(c) /\ proc[c].pc = "running"

\* What a reader of the manifest and the config file expects a variable to be.
Declared(c) ==
  [v \in DOMAIN pod.env[c] \cup (IF ConfigFile(c) THEN DOMAIN pod.config[c] ELSE {}) |->
     IF ConfigFile(c) /\ v \in DOMAIN pod.config[c]
     THEN pod.config[c][v] ELSE pod.env[c][v]]

\* The variables that are secrets, without those that share a file.
Secrets(c) ==
  {v \in DOMAIN Declared(c) :
     /\ Declared(c)[v].kind \in {"vault", "file"}
     /\ Declared(c)[v].path # NoPath =>
          \A w \in DOMAIN Declared(c) \ {v} : Declared(c)[w].path # Declared(c)[v].path}

Held(c, v) ==
  LET d == Declared(c)[v] IN
  IF d.kind = "vault" THEN [key |-> d.key, version |-> proc[c].secretEnv[d.key]]
  ELSE files[c][IF d.path = NoPath THEN v ELSE d.path]

\* An application the annotation names only ever runs with its secrets: each is
\* that of the declared key, no older than the process, in the environment or in
\* its file, whatever failed, was killed, rotated or deleted on the way.
OwnSecrets ==
  \A c \in Containers : Application(c) =>
    /\ c \in wrapped
    /\ \A v \in Secrets(c) :
         /\ Held(c, v).key = Declared(c)[v].key
         /\ Held(c, v).version >= proc[c].since[Declared(c)[v].key]
         /\ Held(c, v).version > 0

\* Variables and files of one key hold one version of it, though the secret is
\* rotated while they are being set and files of an earlier process are there.
OneVersion ==
  \A c \in Containers : Application(c) =>
    \A v, w \in Secrets(c) :
      Declared(c)[v].key = Declared(c)[w].key => Held(c, v) = Held(c, w)

\* Nothing but its own mistakes or a missing secret keeps a container from running.
Startable(c) ==
  /\ pod.root
  /\ Listed(c) => /\ Loadable(c)
                  /\ \A v \in OfKind(c, {"vault", "file"}) : live[KeyOf(c, v)]

\* A container whose secrets stay readable keeps coming back to its application,
\* after failures, kills and a new installation in a recreated sandbox.
ApplicationsStart ==
  \A c \in Containers : <>[]Startable(c) => []<>(proc[c].pc = "running")

\* Even without root in the init container, a container that asks for no secrets
\* keeps running: but an installation that is run again cannot replace the file it
\* has made read-only (copyExecutable), and keeps the whole pod from starting.
ApplicationsStartWithoutRoot ==
  \A c \in Containers : <>[](~Listed(c)) => []<>(proc[c].pc = "running")

=============================================================================
