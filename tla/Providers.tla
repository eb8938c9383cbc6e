----------------------------- MODULE Providers ------------------------------
(***************************************************************************)
(* The four secret managers behind provider.SecretManager and the registry *)
(* that selects them (provider/, types.go): pure operators over the        *)
(* annotations of a pod.                                                   *)
(*                                                                         *)
(* Annotations are the set of the keys a pod carries with a value other    *)
(* than "" (and, for the switches, with a value that parses as true).  A   *)
(* key is written provider/name, without its "opstree.secret.manager".  An *)
(* argument built from an annotation is the flag, its value left out.      *)
(***************************************************************************)
EXTENDS Integers, Sequences, FiniteSets, SequencesExt

Registered == <<"vault", "aws", "azure", "gcp">>
Names      == ToSet(Registered)

EnabledKey == [vault |-> "vault/enabled", aws |-> "aws/enabled",
               azure |-> "azure/enabled", gcp |-> "gcp/enabled"]

BuildEnabledProviders(annotations) ==
  FlattenSeq([i \in DOMAIN Registered |->
                IF EnabledKey[Registered[i]] \in annotations
                  THEN <<Registered[i]>> ELSE <<>>])

-----------------------------------------------------------------------------
(* Vault's numbered secret-config annotations, sorted by number; a suffix  *)
(* that is not a number counts as 0.  Map iteration and sort.Slice leave   *)
(* the order of equal numbers open.                                        *)

SecretConfigNumber ==
  [key \in {"vault/secret-config-1", "vault/secret-config-2",
            "vault/secret-config-01", "vault/secret-config-db"} |->
     CASE key = "vault/secret-config-2"  -> 2
       [] key = "vault/secret-config-db" -> 0
       [] OTHER                          -> 1]

SecretConfigs(annotations) == annotations \cap DOMAIN SecretConfigNumber

UnsortedSecretConfigs(annotations) ==                              \* mutant
  SetToSeqs(SecretConfigs(annotations))

FilterAndSortSecretConfigs(annotations) ==
  {s \in SetToSeqs(SecretConfigs(annotations)) :
     IsSorted(s, LAMBDA k, l : SecretConfigNumber[k] <= SecretConfigNumber[l])}

-----------------------------------------------------------------------------
(* Validate.                                                               *)

VaultValid(a) ==
  /\ "vault/service" \in a
  /\ "vault/path" \in a \/ SecretConfigs(a) # {}
  /\ "vault/role" \in a
  /\ "vault/tls-secret" \in a => "vault/ca-cert" \in a

AWSValid(a)   == "aws/secret-name" \in a
AzureValid(a) == "azure/vault-name" \in a
GCPValid(a)   == {"gcp/project-id", "gcp/secret-name"} \subseteq a

Valid(p, a) ==
  CASE p = "vault" -> VaultValid(a)
    [] p = "aws"   -> AWSValid(a)
    [] p = "azure" -> AzureValid(a)
    [] p = "gcp"   -> GCPValid(a)

-----------------------------------------------------------------------------
(* MutateContainer: the provider's arguments and "--" go before those the  *)
(* container has, its environment and mounts after them.                   *)

Separator == "--"

(* A flag that FromAnnotations found an annotation for.                    *)
Flag(name, key, a) == IF key \in a THEN <<name>> ELSE <<>>

(* configs is the sorted list of secret-config keys; each of them stands   *)
(* for the --secret-config flag with its value.                            *)
VaultArgs(a, configs) ==
  <<"vault", "--role">>
    \o Flag("--kubernetes-backend", "vault/auth-path", a)
    \o Flag("--token-path", "vault/k8s-token-path", a)
    \o configs
    \o Flag("--path", "vault/path", a)
    \o Flag("--names-as-keys", "vault/use-secret-names-as-keys", a)
    \o Flag("--version", "vault/secret-version", a)

AWSArgs(a) ==
  <<"aws", "--region">>
    \o Flag("--secret-name", "aws/secret-name", a)
    \o Flag("--role-arn", "aws/role-arn", a)
    \o Flag("--previous-version", "aws/previous-version", a)

AzureArgs == <<"azure", "--azure-vault-name">>

GCPArgs(a) ==
  <<"gcp", "--project-id">>
    \o Flag("--secret-name", "gcp/secret-name", a)
    \o Flag("--secret-version", "gcp/secret-version", a)
    \o Flag("--google-application-credentials", "gcp/service-account-key", a)

ProviderArgs(p, a, configs) ==
  CASE p = "vault" -> VaultArgs(a, configs)
    [] p = "aws"   -> AWSArgs(a)
    [] p = "azure" -> AzureArgs
    [] p = "gcp"   -> GCPArgs(a)

(* The secret volume a provider mounts into the containers, if any; its    *)
(* ExtraVolumes adds the volume of that name to the pod.                   *)
VaultVolumes(a) ==
  IF "vault/tls-secret" \in a THEN <<"vault-tls">> ELSE <<>>
GCPVolumes(a) ==
  IF "gcp/service-account-key" \in a THEN <<"google-cloud-key">> ELSE <<>>

ProviderVolumes(p, a) ==
  CASE p = "vault" -> VaultVolumes(a)
    [] p = "gcp"   -> GCPVolumes(a)
    [] OTHER       -> <<>>

VaultEnv(a) ==
  <<"VAULT_ADDR",
    IF "vault/tls-secret" \in a THEN "VAULT_CACERT" ELSE "VAULT_SKIP_VERIFY">>

ProviderEnv(p, a) == IF p = "vault" THEN VaultEnv(a) ELSE <<>>

MutateContainer(ctr, p, a, configs) ==
  [ctr EXCEPT !.args   = ProviderArgs(p, a, configs) \o <<Separator>> \o @,
              !.mounts = @ \o ProviderVolumes(p, a),
              !.env    = @ \o ProviderEnv(p, a)]

-----------------------------------------------------------------------------
(* The loops of main.go over the enabled providers ps.                     *)

MutateByAll(ctr, ps, a, configs) ==
  LET after[n \in 0..Len(ps)] ==
        IF n = 0 THEN ctr ELSE MutateContainer(after[n - 1], ps[n], a, configs)
  IN  after[Len(ps)]

ExtraVolumes(ps, a) ==
  FlattenSeq([j \in DOMAIN ps |-> ProviderVolumes(ps[j], a)])
=============================================================================
