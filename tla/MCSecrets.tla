------------------------------ MODULE MCSecrets ------------------------------
(* Values of SecretsInjection's constants for TLC. *)
EXTENDS SecretsInjection, TLC

CONSTANTS k1, k2, p1

\* The first container refers to the first key twice, in its environment and in a
\* file, and the second is not listed.
AppEnv == ("a" :> Secret(k1)) @@ ("b" :> SecretFile(k1, p1)) @@ ("d" :> Plain)
Unlisted == ("a" :> Secret(k1))

Entry(c, f) == [container |-> c, file |-> f]
NoFiles == [c \in {} |-> AppEnv]

\* The config file has another key for one variable and makes the plain one a
\* second file of the first key.
InConfig == ("app" :> (("b" :> SecretFile(k2, NoPath)) @@ ("d" :> SecretFile(k1, p1))))

SecretPod(annotations, config) ==
  [annotations |-> annotations,
   env |-> ("app" :> AppEnv) @@ ("sidecar" :> Unlisted),
   config |-> config, token |-> FALSE, root |-> TRUE]

FQDN == "secrets-injector"
Deprecated == "envconsul-injector"

APod == SecretPod(FQDN :> <<Entry("app", FALSE)>>, NoFiles)

VariousPods ==
  {APod,
   [APod EXCEPT !.token = TRUE],
   [APod EXCEPT !.root = FALSE],
   [APod EXCEPT !.annotations = [n \in {} |-> <<>>]],
   [APod EXCEPT !.env["app"]["b"] = Malformed],
   SecretPod(FQDN :> <<Entry("app", TRUE), Entry("sidecar", FALSE)>>, InConfig),
   SecretPod(FQDN :> <<Entry("app", TRUE)>>, NoFiles),
   SecretPod((FQDN :> <<Entry("app", FALSE), Entry("app", TRUE)>>)
             @@ (Deprecated :> <<Entry("sidecar", FALSE)>>), InConfig),
   SecretPod(Deprecated :> <<Entry("sidecar", FALSE), Entry("other", TRUE)>>, NoFiles)}

\* A pod whose init container does not run as root.
RootlessPods == {[APod EXCEPT !.root = FALSE]}
=============================================================================
