----------------------------- MODULE Injection ------------------------------
(***************************************************************************)
(* What the webhook promises of a pod: the injector, what it leads a       *)
(* container to run, and the pods with which a review may be answered.     *)
(*                                                                         *)
(* A pod's containers are one sequence, the first inits of them its init   *)
(* containers.  refs are the ConfigMap and Secret references of a          *)
(* container, envFrom first.                                               *)
(***************************************************************************)
EXTENDS Providers

CONSTANTS
  ExcludedNamespaces,  \* excluded_namespaces
  Images,              \* Images[i]: the entrypoint and cmd of an image
  PullSecrets,         \* k8s_secret_injector_image_pull_secret_name, <<>> if ""
  Versions             \* strings GetCurrentVersion may return, "" excluded

Injector     == "/k8s-secret/k8s-secret-injector"
InjectorName == "k8s-secret-injector"

CopyContainer ==
  [cmd |-> <<"sh", "-c", "cp">>, args |-> <<>>, image |-> InjectorName,
   refs |-> <<>>, mounts |-> <<InjectorName>>, env |-> <<>>]

OptedOut(pod) == "vault/opt-out" \in pod.annotations

(* What Kubernetes runs in a container whose image has this config, by its *)
(* table of command and args.                                              *)
Argv(ctr, config) ==
  IF ctr.cmd # <<>> THEN ctr.cmd \o ctr.args
  ELSE config.entrypoint \o IF ctr.args # <<>> THEN ctr.args ELSE config.cmd

(* The injector fetches the secrets of the one provider its first argument *)
(* names and then becomes the command after the first separator.           *)
Becomes(args) ==
  SubSeq(args, SelectInSeq(args, LAMBDA t : t = Separator) + 1, Len(args))

ProcessArgv(ctr, config) ==
  IF ctr.cmd = <<Injector>> THEN Becomes(ctr.args) ELSE Argv(ctr, config)

-----------------------------------------------------------------------------
(* The answers a review may get.                                           *)

Excluded(pod) == pod.namespace \in ExcludedNamespaces
Unmanaged(pod) ==
  Excluded(pod) \/ OptedOut(pod) \/ BuildEnabledProviders(pod.annotations) = <<>>

Misconfigured(pod) ==
  \E p \in ToSet(BuildEnabledProviders(pod.annotations)) :
    ~Valid(p, pod.annotations)

(* Answering takes a call that can fail: a ConfigMap or Secret lookup, or  *)
(* the registry for a container that does not say what it runs.            *)
CallsOut(pod) ==
  \E i \in DOMAIN pod.ctrs : pod.ctrs[i].refs # <<>> \/ pod.ctrs[i].cmd = <<>>

Injected(ctr, a, configs) ==
  LET start == [ctr EXCEPT !.cmd = <<Injector>>, !.args = Argv(ctr, Images[ctr.image])]
  IN  [MutateByAll(start, BuildEnabledProviders(a), a, configs)
         EXCEPT !.mounts = Append(@, InjectorName)]

InjectorVolumes(a) == <<InjectorName>> \o ExtraVolumes(BuildEnabledProviders(a), a)

InjectedPod(pod, configs, version) ==
  [pod EXCEPT
     !.ctrs = <<CopyContainer>> \o
        [i \in DOMAIN @ |-> Injected(@[i], pod.annotations, configs)],
     !.inits = @ + 1,
     !.volumes = @ \o InjectorVolumes(pod.annotations),
     !.pullSecrets = @ \o PullSecrets,
     !.version = version]

Baselines(pod) ==
  IF "vault/rotation-interval" \in pod.annotations
    THEN {pod.version} \cup Versions ELSE {pod.version}

(* Unchanged if the webhook has no business with the pod; never if its     *)
(* configuration is wrong.                                                 *)
Outcomes(pod) ==
  IF Unmanaged(pod) THEN {pod}
  ELSE IF Misconfigured(pod) THEN {}
  ELSE {InjectedPod(pod, configs, version) :
          configs \in FilterAndSortSecretConfigs(pod.annotations),
          version \in Baselines(pod)}

(* The review may be denied.                                               *)
Deniable(pod) == ~Unmanaged(pod) /\ (Misconfigured(pod) \/ CallsOut(pod))
=============================================================================
