----------------------------- MODULE Admission ------------------------------
(***************************************************************************)
(* The admission handler (SecretsMutator in main.go): it serves several    *)
(* reviews at a time, each in a goroutine that stops at every call to the  *)
(* API server, to a registry or to a secret manager, and mutates its copy  *)
(* of the pod container by container.  The reviews share the Prometheus    *)
(* counters.                                                               *)
(***************************************************************************)
EXTENDS Injection

CONSTANTS Requests, Pods

Text == Seq(STRING)

Containers ==
  [cmd : Text, args : Text, image : DOMAIN Images,
   refs : Seq([via : {"envFrom", "valueFrom"}, optional : BOOLEAN]),
   mounts : Text, env : Text]

ASSUME AdmissionAssumption ==
  /\ IsFiniteSet(Requests)
  /\ Images \in [DOMAIN Images -> [entrypoint : Text, cmd : Text]]
  /\ Pods \subseteq [namespace : STRING, annotations : SUBSET STRING,
                    ctrs : Seq(Containers), inits : Nat, volumes : Text,
                    pullSecrets : Text, version : STRING]
  /\ \A pod \in Pods : pod.inits < Len(pod.ctrs)   \* not only init containers
  /\ PullSecrets \in Text
  /\ Versions \subseteq STRING

VARIABLES
  req,        \* req[r]: where the goroutine of review r is, and its locals
  mutations,  \* k8sv_webhook_mutations_total, by provider and result
  excluded,   \* k8sv_webhook_excluded_pods_total, by reason
  observed    \* observations of k8sv_webhook_admission_duration_seconds

metrics == <<mutations, excluded, observed>>
vars    == <<req, metrics>>

Results == {"success", "failed"}
Reasons == {"namespace_exclusion", "annotation_opt_out"}

NoRequest == [pc |-> "none"]

Init ==
  /\ req = [r \in Requests |-> NoRequest]
  /\ mutations = [p \in Names |-> [x \in Results |-> 0]]
  /\ excluded = [x \in Reasons |-> 0]
  /\ observed = 0

-----------------------------------------------------------------------------
(* SecretsMutator up to the mutation of the pod.                           *)

At(r, pc)      == req[r].pc = pc
Annotations(r) == req[r].pod.annotations
Enabled(r)     == BuildEnabledProviders(Annotations(r))
InExcluded(r)  == req[r].pod.namespace \in ExcludedNamespaces

(* orig is the pod as submitted, kept for the properties.                  *)
Receive(r) ==
  /\ At(r, "none")
  /\ \E pod \in Pods :
       req' = [req EXCEPT ![r] = [pc |-> "received", orig |-> pod, pod |-> pod]]
  /\ UNCHANGED metrics

(* SecretsMutator returns, and the deferred function observes.             *)
Return(r, verdict) ==
  /\ req' = [req EXCEPT ![r].pc = verdict]
  /\ observed' = observed + 1

Skip(r, reason) ==
  /\ excluded' = [excluded EXCEPT ![reason] = @ + 1]
  /\ Return(r, "allowed")
  /\ UNCHANGED mutations

Exclude(r) ==
  /\ At(r, "received") /\ InExcluded(r)
  /\ Skip(r, "namespace_exclusion")

OptOut(r) ==
  /\ At(r, "received") /\ ~InExcluded(r) /\ OptedOut(req[r].pod)
  /\ Skip(r, "annotation_opt_out")

PassThrough(r) ==
  /\ At(r, "received") /\ ~InExcluded(r) /\ ~OptedOut(req[r].pod)
  /\ Enabled(r) = <<>>
  /\ Return(r, "allowed")
  /\ UNCHANGED <<mutations, excluded>>

Accept(r) ==
  /\ At(r, "received") /\ ~InExcluded(r) /\ ~OptedOut(req[r].pod)
  /\ Enabled(r) # <<>>
  /\ \E configs \in FilterAndSortSecretConfigs(Annotations(r)) :
       req' = [req EXCEPT ![r] =
                 [pc |-> "validate", orig |-> req[r].orig, pod |-> req[r].pod,
                  providers |-> Enabled(r), configs |-> configs,
                  i |-> 1, k |-> 1]]
  /\ UNCHANGED metrics

Count(r, ps, result) ==
  mutations' = [p \in Names |->
                  IF p \in ps THEN [mutations[p] EXCEPT ![result] = @ + 1]
                  ELSE mutations[p]]

Refuse(r, ps) ==
  /\ Count(r, ps, "failed")
  /\ Return(r, "denied")
  /\ UNCHANGED excluded

LastInvalid(r) ==                                                  \* mutant
  SelectLastInSeq(req[r].providers, LAMBDA p : ~Valid(p, Annotations(r)))

Invalid(r) ==
  SelectInSeq(req[r].providers, LAMBDA p : ~Valid(p, Annotations(r)))

ValidateFails(r) ==
  /\ At(r, "validate")
  /\ Invalid(r) # 0
  /\ Refuse(r, {req[r].providers[Invalid(r)]})

ValidatePasses(r) ==
  /\ At(r, "validate")
  /\ Invalid(r) = 0
  /\ req' = [req EXCEPT ![r].pc = "mutate"]
  /\ UNCHANGED metrics

-----------------------------------------------------------------------------
(* mutateContainers, on container i of the pod and its reference k; init   *)
(* containers go through the same loop first.                              *)

Mutating(r) == At(r, "mutate") /\ req[r].i <= Len(req[r].pod.ctrs)
Ctr(r)      == req[r].pod.ctrs[req[r].i]
LookingUp(r) == Mutating(r) /\ req[r].k <= Len(Ctr(r).refs)
LookedUp(r)  == Mutating(r) /\ req[r].k > Len(Ctr(r).refs)

(* An object that is not there is no reason to fail; any other error is,   *)
(* unless the reference is an optional one of envFrom.                     *)
Tolerated(ref) == ref.via = "envFrom" /\ ref.optional

LookupRetries(r) == LookingUp(r) /\ UNCHANGED vars                  \* mutant

Lookup(r) ==
  /\ LookingUp(r)
  /\ req' = [req EXCEPT ![r].k = @ + 1]
  /\ UNCHANGED metrics

LookupFails(r) ==
  /\ LookingUp(r)
  /\ ~Tolerated(Ctr(r).refs[req[r].k])
  /\ Refuse(r, ToSet(req[r].providers))

ArgsWithCmd(ctr, config) ==                                        \* mutant
  (IF ctr.cmd = <<>> THEN config.entrypoint \o config.cmd ELSE ctr.cmd)
    \o ctr.args

(* The arguments for the injector; config is read if there is no command.  *)
Args(ctr, config) ==
  (IF ctr.cmd # <<>> THEN ctr.cmd
   ELSE config.entrypoint \o IF ctr.args = <<>> THEN config.cmd ELSE <<>>)
    \o ctr.args

Wrapped(r, config) ==
  LET start == [Ctr(r) EXCEPT !.cmd = <<Injector>>, !.args = Args(Ctr(r), config)]
  IN  [MutateByAll(start, req[r].providers, Annotations(r), req[r].configs)
         EXCEPT !.mounts = Append(@, InjectorName)]

Mutation(r) ==
  [req[r].pod EXCEPT !.ctrs[req[r].i] = Wrapped(r, Images[Ctr(r).image])]

InjectKeepsCount(r) ==                                             \* mutant
  /\ LookedUp(r)
  /\ req' = [req EXCEPT ![r] = [req[r] EXCEPT !.pod = Mutation(r),
                                              !.i = req[r].i + 1]]
  /\ UNCHANGED metrics

Inject(r) ==
  /\ LookedUp(r)
  /\ req' = [req EXCEPT ![r] = [req[r] EXCEPT !.pod = Mutation(r),
                                              !.i = req[r].i + 1,
                                              !.k = 1]]
  /\ UNCHANGED metrics

(* No command, and the registry (or a pull secret) did not answer.         *)
ImageConfigFails(r) ==
  /\ LookedUp(r)
  /\ Ctr(r).cmd = <<>>
  /\ Refuse(r, ToSet(req[r].providers))

-----------------------------------------------------------------------------
(* The rest of mutatePod, and the answer.                                  *)

InjectorVolumeOnly(r) == <<InjectorName>>                          \* mutant

Volumes(r) ==
  <<InjectorName>> \o ExtraVolumes(req[r].providers, Annotations(r))

Assembled(r) ==
  [req[r].pod EXCEPT !.ctrs = <<CopyContainer>> \o @,
                     !.inits = @ + 1,
                     !.volumes = @ \o Volumes(r),
                     !.pullSecrets = @ \o PullSecrets]

Assemble(r) ==
  /\ At(r, "mutate")
  /\ req[r].i > Len(req[r].pod.ctrs)
  /\ req' = [req EXCEPT ![r] = [req[r] EXCEPT !.pc = "version",
                                              !.pod = Assembled(r)]]
  /\ UNCHANGED metrics

(* The baseline for the rotation controller, from the first provider only; *)
(* the pod is admitted without one if the version cannot be had.           *)
Answer(r) ==
  /\ At(r, "version")
  /\ observed' = observed + 1
  /\ \E v \in {req[r].pod.version} \cup
                 IF "vault/rotation-interval" \in Annotations(r)
                   THEN Versions ELSE {} :
       req' = [req EXCEPT ![r] =
                 [req[r] EXCEPT !.pc = "allowed",
                                !.pod = [req[r].pod EXCEPT !.version = v]]]
  /\ Count(r, ToSet(req[r].providers), "success")
  /\ UNCHANGED excluded

-----------------------------------------------------------------------------
Step(r) == \/ Exclude(r) \/ OptOut(r) \/ PassThrough(r) \/ Accept(r)
           \/ ValidateFails(r) \/ ValidatePasses(r)
           \/ Lookup(r) \/ LookupFails(r)
           \/ Inject(r) \/ ImageConfigFails(r)
           \/ Assemble(r) \/ Answer(r)

Next == \E r \in Requests : Receive(r) \/ Step(r)

Spec == Init /\ [][Next]_vars

(* Every call returns, with an answer or an error.                         *)
FairSpec == Spec /\ \A r \in Requests : WF_vars(Step(r))
-----------------------------------------------------------------------------
(* Properties.                                                             *)

Pcs == {"none", "received", "validate", "mutate", "version", "allowed", "denied"}

TypeOK ==
  /\ DOMAIN req = Requests
  /\ \A r \in Requests :
       /\ req[r].pc \in Pcs
       /\ req[r].pc # "none" => req[r].orig \in Pods
       /\ req[r].pc \in {"validate", "mutate"} =>
            /\ req[r].i \in 1..(Len(req[r].pod.ctrs) + 1)
            /\ Mutating(r) => req[r].k \in 1..(Len(Ctr(r).refs) + 1)
            /\ Len(req[r].pod.ctrs) = Len(req[r].orig.ctrs)
  /\ mutations \in [Names -> [Results -> 0..Cardinality(Requests)]]
  /\ excluded \in [Reasons -> 0..Cardinality(Requests)]
  /\ observed \in 0..Cardinality(Requests)

Orig(r)    == req[r].orig
Handled(r) == BuildEnabledProviders(Orig(r).annotations)
Skipped(r) == Excluded(Orig(r)) \/ OptedOut(Orig(r))
Mutated(r) == At(r, "allowed") /\ ~Skipped(r) /\ Handled(r) # <<>>

KeepsCommands(r) ==
  \A i \in DOMAIN Orig(r).ctrs :
    LET ctr == Orig(r).ctrs[i]
    IN  ProcessArgv(req[r].pod.ctrs[i + 1], Images[ctr.image])
          = Argv(ctr, Images[ctr.image])

(* Every container of a pod with one provider ends up as the process it    *)
(* was meant to be, whether it names its command, only arguments, or       *)
(* leaves both to its image (main.go:244-271 and the providers'            *)
(* MutateContainer).                                                       *)
OriginalCommandRuns ==
  \A r \in Requests : Mutated(r) /\ Len(Handled(r)) = 1 => KeepsCommands(r)

(* The same for a pod with several providers, each of which adds its       *)
(* configuration to the container (provider/interface.go:22-27).           *)
ProvidersCombine ==
  \A r \in Requests : Mutated(r) => KeepsCommands(r)

(* The injector is there when a container starts: its copy container is    *)
(* the first init container, every later one mounts the volume it copies   *)
(* to, every mount the webhook added has its volume, added once, and what  *)
(* the pod had comes first (main.go:278-286, 316-322).                     *)
InjectorInPlace ==
  \A r \in Requests : Mutated(r) =>
    LET pod   == req[r].pod
        added == SubSeq(pod.volumes, Len(Orig(r).volumes) + 1, Len(pod.volumes))
    IN  /\ pod.inits = Orig(r).inits + 1 /\ pod.ctrs[1] = CopyContainer
        /\ IsPrefix(Orig(r).volumes, pod.volumes)
        /\ IsInjective(added)
        /\ \A i \in DOMAIN Orig(r).ctrs :
             LET old == Orig(r).ctrs[i].mounts
                 new == pod.ctrs[i + 1].mounts
             IN  /\ IsPrefix(old, new) /\ Contains(new, InjectorName)
                 /\ \A j \in DOMAIN new :
                      j > Len(old) => Contains(added, new[j])

(* What the injector is told, before the command it becomes, is the same   *)
(* in every container of a pod, and asks for the numbered secrets by       *)
(* number, although nothing in the annotations' map or in the sort fixes   *)
(* the order (vault.go:58-65, 140-142, 182-197).                           *)
SecretsInOrder ==
  \A r \in Requests : Mutated(r) =>
    LET own(i)   == Argv(Orig(r).ctrs[i], Images[Orig(r).ctrs[i].image])
        args(i)  == req[r].pod.ctrs[i + 1].args
        told(i)  == SubSeq(args(i), 1, Len(args(i)) - Len(own(i)))
        asked(i) == {j \in DOMAIN told(i) : told(i)[j] \in DOMAIN SecretConfigNumber}
    IN  \A i \in DOMAIN Orig(r).ctrs :
          /\ told(i) = told(1)
          /\ \A j, k \in asked(i) :
               j < k => SecretConfigNumber[told(i)[j]] <= SecretConfigNumber[told(i)[k]]

(* The counters tell the story of the answers: one success per provider of *)
(* a mutated pod, one failure per provider of a pod that could not be      *)
(* mutated, one for the first provider at fault of a pod that was not even *)
(* tried, and one observation of its duration per answer, whatever the     *)
(* order of the answers (main.go:356-447).                                 *)
Blamed(r) ==
  LET bad == {i \in DOMAIN Handled(r) : ~Valid(Handled(r)[i], Orig(r).annotations)}
  IN  IF bad = {} THEN ToSet(Handled(r))
      ELSE {Handled(r)[i] : i \in {i \in bad : \A j \in bad : i <= j}}

CountersAgree ==
  /\ \A p \in Names :
       /\ mutations[p]["success"] =
            Cardinality({r \in Requests : Mutated(r) /\ p \in ToSet(Handled(r))})
       /\ mutations[p]["failed"] =
            Cardinality({r \in Requests : At(r, "denied") /\ p \in Blamed(r)})
  /\ observed = Cardinality({r \in Requests : At(r, "allowed") \/ At(r, "denied")})
  /\ excluded["namespace_exclusion"] + excluded["annotation_opt_out"] =
       Cardinality({r \in Requests : At(r, "allowed") /\ Skipped(r)})

(* Every review is answered, as long as the calls return (main.go:117 and  *)
(* 126 give the lookups no deadline of their own).                         *)
EventuallyAnswered ==
  \A r \in Requests : ~At(r, "none") ~> At(r, "allowed") \/ At(r, "denied")

(* The handler implements its promise.  A review in progress is waiting,   *)
(* with the pod as it was submitted: a half-mutated copy is never seen.    *)
Review == [r \in Requests |->
  CASE At(r, "none")    -> [verdict |-> "none"]
    [] At(r, "allowed") -> [verdict |-> "allowed", pod |-> req[r].pod]
    [] At(r, "denied")  -> [verdict |-> "denied", pod |-> Orig(r)]
    [] OTHER            -> [verdict |-> "waiting", pod |-> Orig(r)]]

PodAnswers == [pod \in Pods |-> Outcomes(pod)]
PodsToDeny == {pod \in Pods : Deniable(pod)}

Atomic == INSTANCE AtomicAdmission
            WITH review <- Review, Answers <- PodAnswers, MayDeny <- PodsToDeny

ImplementsAtomic == Atomic!Spec
=============================================================================
