---------------------------- MODULE MCAdmission -----------------------------
(* Instances of Admission for TLC: one pod for each way through the        *)
(* handler, with the containers that make it interesting.                  *)
EXTENDS Admission

Container(cmd, args, refs, mounts) ==
  [cmd |-> cmd, args |-> args, image |-> "web", refs |-> refs,
   mounts |-> mounts, env |-> <<>>]

From(optional) == [via |-> "envFrom", optional |-> optional]
Value          == [via |-> "valueFrom", optional |-> TRUE]

Explicit   == Container(<<"run">>, <<"--", "x">>, <<From(FALSE), Value>>, <<"data">>)
OnlyArgs   == Container(<<>>, <<"arg">>, <<From(TRUE)>>, <<>>)
ImageRuns  == Container(<<>>, <<>>, <<>>, <<>>)
Plain      == Container(<<"run">>, <<>>, <<>>, <<>>)

Pod(namespace, annotations, ctrs, inits) ==
  [namespace |-> namespace, annotations |-> annotations, ctrs |-> ctrs,
   inits |-> inits, volumes |-> <<"data">>, pullSecrets |-> <<>>,
   version |-> ""]

VaultKeys ==
  {"vault/enabled", "vault/service", "vault/role", "vault/tls-secret",
   "vault/ca-cert", "vault/rotation-interval", "vault/secret-config-1",
   "vault/secret-config-2", "vault/secret-config-01", "vault/secret-config-db"}
GCPKeys   == {"gcp/enabled", "gcp/project-id", "gcp/secret-name",
              "gcp/service-account-key"}
AzureKeys == {"azure/enabled", "azure/vault-name"}
AWSKeys   == {"aws/enabled", "aws/secret-name", "vault/rotation-interval"}
AWSBare   == {"aws/enabled", "aws/region"}
AzureBare == {"azure/enabled"}

SinglePods ==
  {Pod("apps", VaultKeys, <<OnlyArgs, ImageRuns, Explicit>>, 1),
   Pod("apps", GCPKeys, <<ImageRuns, Explicit>>, 0),
   Pod("apps", AzureKeys, <<OnlyArgs>>, 0),
   Pod("apps", AWSKeys, <<Plain>>, 0),
   Pod("apps", AWSBare \cup AzureBare, <<Plain>>, 0),
   Pod("apps", AWSKeys \cup AzureBare, <<Plain>>, 0),
   Pod("apps", VaultKeys \cup {"vault/opt-out"}, <<Plain>>, 0),
   Pod("kube-system", VaultKeys \cup {"vault/opt-out"}, <<Plain>>, 0),
   Pod("apps", {"vault/service"}, <<ImageRuns>>, 0)}

MultiPods ==
  {Pod("apps", VaultKeys \cup GCPKeys, <<OnlyArgs, Explicit>>, 1),
   Pod("apps", AWSKeys \cup AzureKeys, <<ImageRuns>>, 0),
   Pod("apps", AWSBare \cup AzureKeys, <<Plain>>, 0)}

AllPods == SinglePods \cup MultiPods

WebImage    == [web |-> [entrypoint |-> <<"entry">>, cmd |-> <<"default">>]]
PullSecret  == <<"injector-registry">>
Kube        == {"kube-system", "kube-public", "kube-node-lease"}
SomeVersion == {"1"}
=============================================================================
