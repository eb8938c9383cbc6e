-------------------------- MODULE AdmissionProofs ---------------------------
(***************************************************************************)
(* The safety properties of Admission, and that it implements its promise, *)
(* for any number of reviews, any pods, images and names.                  *)
(***************************************************************************)
EXTENDS Admission, ProvidersProofs, FiniteSetTheorems

-----------------------------------------------------------------------------
(* The loops over a pod, as constants.                                     *)

(* The pod when the containers before i have been mutated.                 *)
Partly(pod, configs, i) ==
  [pod EXCEPT !.ctrs = [j \in DOMAIN @ |->
     IF j < i THEN Injected(@[j], pod.annotations, configs) ELSE @[j]]]

(* What mutateContainers and Kubernetes make of command, arguments and     *)
(* image is the same.                                                      *)
LEMMA ArgsAreArgv ==
  ASSUME NEW ctr \in Containers
  PROVE  Args(ctr, Images[ctr.image]) = Argv(ctr, Images[ctr.image])
<1> DEFINE config == Images[ctr.image]
<1>1. /\ ctr.cmd \in Text /\ ctr.args \in Text
      /\ config.entrypoint \in Text /\ config.cmd \in Text
  BY AdmissionAssumption DEF Containers
<1>2. \A s, t \in Text : s \o <<>> = s /\ (s \o t) \o <<>> = s \o t
  BY DEF Text
<1> HIDE DEF config
<1>3. Args(ctr, config) = Argv(ctr, config)
  <2>1. CASE ctr.cmd # <<>>
    BY <2>1 DEF Args, Argv
  <2>2. CASE ctr.cmd = <<>> /\ ctr.args # <<>>
    <3>1. Args(ctr, config) = (config.entrypoint \o <<>>) \o ctr.args
      BY <2>2 DEF Args
    <3> QED
      BY <1>1, <1>2, <2>2, <3>1 DEF Argv
  <2>3. CASE ctr.cmd = <<>> /\ ctr.args = <<>>
    <3>1. Args(ctr, config) = (config.entrypoint \o config.cmd) \o <<>>
      BY <2>3 DEF Args
    <3> QED
      BY <1>1, <1>2, <2>3, <3>1 DEF Argv
  <2> QED
    BY <2>1, <2>2, <2>3
<1> QED
  BY <1>3 DEF config

LEMMA PodTypes ==
  ASSUME NEW pod \in Pods
  PROVE  /\ DOMAIN pod = {"namespace", "annotations", "ctrs", "inits", "volumes",
                          "pullSecrets", "version"}
         /\ pod.ctrs \in Seq(Containers)
         /\ Len(pod.ctrs) \in Nat
         /\ DOMAIN pod.ctrs = 1..Len(pod.ctrs)
         /\ \A i \in 1..Len(pod.ctrs) : pod.ctrs[i] \in Containers
<1>1. pod.ctrs \in Seq(Containers)
  BY AdmissionAssumption
<1>2. DOMAIN pod = {"namespace", "annotations", "ctrs", "inits", "volumes",
                    "pullSecrets", "version"}
  BY AdmissionAssumption
<1> QED
  BY <1>1, <1>2

LEMMA RefsAreFinite == ASSUME NEW ctr \in Containers PROVE Len(ctr.refs) \in Nat
  BY DEF Containers

LEMMA PartlyTypes ==
  ASSUME NEW pod \in Pods, NEW configs, NEW i \in Nat
  PROVE  /\ Partly(pod, configs, i).namespace = pod.namespace
         /\ Partly(pod, configs, i).annotations = pod.annotations
         /\ Len(Partly(pod, configs, i).ctrs) = Len(pod.ctrs)
         /\ DOMAIN Partly(pod, configs, i) = DOMAIN pod
         /\ \A j \in 1..Len(pod.ctrs) :
              j >= i => Partly(pod, configs, i).ctrs[j] = pod.ctrs[j]
<1> DEFINE upto == [j \in DOMAIN pod.ctrs |->
                     IF j < i THEN Injected(pod.ctrs[j], pod.annotations, configs)
                     ELSE pod.ctrs[j]]
<1>1. Len(upto) = Len(pod.ctrs) /\ \A j \in 1..Len(pod.ctrs) : j >= i => upto[j] = pod.ctrs[j]
  BY PodTypes
<1>2. Partly(pod, configs, i) = [pod EXCEPT !.ctrs = upto]
  BY DEF Partly
<1> HIDE DEF upto
<1> QED
  BY <1>1, <1>2, PodTypes

LEMMA PartlyFirst ==
  ASSUME NEW pod \in Pods, NEW configs
  PROVE  Partly(pod, configs, 1) = pod
<1> DEFINE first == [j \in DOMAIN pod.ctrs |->
                      IF j < 1 THEN Injected(pod.ctrs[j], pod.annotations, configs)
                      ELSE pod.ctrs[j]]
<1>1. first = pod.ctrs
  BY PodTypes
<1>2. Partly(pod, configs, 1) = [pod EXCEPT !.ctrs = first]
  BY DEF Partly
<1>3. [pod EXCEPT !.ctrs = pod.ctrs] = pod
  BY AdmissionAssumption
<1> HIDE DEF first
<1> QED
  BY <1>1, <1>2, <1>3

LEMMA PartlyNext ==
  ASSUME NEW pod \in Pods, NEW configs, NEW i \in 1..Len(pod.ctrs)
  PROVE  [Partly(pod, configs, i) EXCEPT
            !.ctrs[i] = Injected(pod.ctrs[i], pod.annotations, configs)]
           = Partly(pod, configs, i + 1)
<1> DEFINE injected(j) == Injected(pod.ctrs[j], pod.annotations, configs)
           upto(n) == [j \in DOMAIN pod.ctrs |->
                         IF j < n THEN injected(j) ELSE pod.ctrs[j]]
<1>1. [upto(i) EXCEPT ![i] = injected(i)] = upto(i + 1)
  <2> HIDE DEF injected
  <2>1. \A j \in DOMAIN pod.ctrs :
          [upto(i) EXCEPT ![i] = injected(i)][j] = upto(i + 1)[j]
    BY PodTypes
  <2> QED
    BY <2>1
<1>2. \A n : Partly(pod, configs, n) = [pod EXCEPT !.ctrs = upto(n)]
  BY DEF Partly
<1> HIDE DEF upto, injected
<1>3. [[pod EXCEPT !.ctrs = upto(i)] EXCEPT !.ctrs[i] = injected(i)]
        = [pod EXCEPT !.ctrs = [upto(i) EXCEPT ![i] = injected(i)]]
  BY PodTypes
<1> QED
  BY <1>1, <1>2, <1>3 DEF injected

LEMMA PartlyLast ==
  ASSUME NEW pod \in Pods, NEW configs
  PROVE  [Partly(pod, configs, Len(pod.ctrs) + 1) EXCEPT
            !.ctrs = <<CopyContainer>> \o @,
            !.inits = @ + 1,
            !.volumes = @ \o InjectorVolumes(pod.annotations),
            !.pullSecrets = @ \o PullSecrets]
           = InjectedPod(pod, configs, pod.version)
<1> DEFINE all == [j \in DOMAIN pod.ctrs |->
                     Injected(pod.ctrs[j], pod.annotations, configs)]
<1>1. Partly(pod, configs, Len(pod.ctrs) + 1) = [pod EXCEPT !.ctrs = all]
  BY PodTypes DEF Partly
<1>2. InjectedPod(pod, configs, pod.version) =
        [pod EXCEPT !.ctrs = <<CopyContainer>> \o all,
                    !.inits = @ + 1,
                    !.volumes = @ \o InjectorVolumes(pod.annotations),
                    !.pullSecrets = @ \o PullSecrets,
                    !.version = pod.version]
  BY DEF InjectedPod
<1> HIDE DEF all
<1> QED
  BY <1>1, <1>2, PodTypes

LEMMA BaselineLast ==
  ASSUME NEW pod \in Pods, NEW configs, NEW version
  PROVE  /\ [InjectedPod(pod, configs, pod.version) EXCEPT !.version = version]
              = InjectedPod(pod, configs, version)
         /\ InjectedPod(pod, configs, pod.version).version = pod.version
         /\ InjectedPod(pod, configs, pod.version).annotations = pod.annotations
<1> DEFINE with(c, n, v, s, old) ==
             [pod EXCEPT !.ctrs = c, !.inits = n, !.volumes = v,
                         !.pullSecrets = s, !.version = old]
<1>1. ASSUME NEW c, NEW n, NEW v, NEW s, NEW old
      PROVE  /\ [with(c, n, v, s, old) EXCEPT !.version = version] = with(c, n, v, s, version)
             /\ with(c, n, v, s, old).version = old
             /\ with(c, n, v, s, old).annotations = pod.annotations
  <2>1. [with(c, n, v, s, old) EXCEPT !.version = version] = with(c, n, v, s, version)
    BY PodTypes
  <2>2. with(c, n, v, s, old).version = old
    BY PodTypes
  <2>3. with(c, n, v, s, old).annotations = pod.annotations
    BY PodTypes
  <2> QED
    BY <2>1, <2>2, <2>3
<1>2. PICK c, n, v, s : \A old : InjectedPod(pod, configs, old) = with(c, n, v, s, old)
  BY DEF InjectedPod
<1> HIDE DEF with
<1> QED
  BY <1>1, <1>2

-----------------------------------------------------------------------------
(* The invariant of a review: how far the pod has been mutated, by what is *)
(* left to do.                                                             *)

Working(r) == req[r].pc \in {"validate", "mutate", "version"}
Length(r)  == Len(Orig(r).ctrs)

Loop(r) ==
  /\ req[r].pc \in Pcs
  /\ At(r, "none") => req[r] = NoRequest
  /\ ~At(r, "none") => {"pc", "orig", "pod"} \subseteq DOMAIN req[r] /\ Orig(r) \in Pods
  /\ At(r, "received") => req[r].pod = Orig(r)
  /\ Working(r) =>
       /\ {"i", "k", "providers", "configs"} \subseteq DOMAIN req[r]
       /\ ~Unmanaged(Orig(r))
       /\ req[r].providers = Handled(r)
       /\ req[r].configs \in FilterAndSortSecretConfigs(Orig(r).annotations)
  /\ At(r, "validate") => req[r].i = 1 /\ req[r].k = 1 /\ req[r].pod = Orig(r)
  /\ At(r, "mutate") =>
       /\ ~Misconfigured(Orig(r))
       /\ req[r].i \in 1..(Length(r) + 1)
       /\ req[r].i <= Length(r) =>
            req[r].k \in 1..(Len(Orig(r).ctrs[req[r].i].refs) + 1)
       /\ req[r].pod = Partly(Orig(r), req[r].configs, req[r].i)
  /\ At(r, "version") =>
       /\ ~Misconfigured(Orig(r))
       /\ req[r].pod = InjectedPod(Orig(r), req[r].configs, Orig(r).version)
  /\ At(r, "allowed") => req[r].pod \in Outcomes(Orig(r))
  /\ At(r, "denied") => Deniable(Orig(r))

LoopInv == DOMAIN req = Requests /\ \A r \in Requests : Loop(r)

(* What a step does to the reviews other than its own.                     *)
Alone(r) == DOMAIN req' = DOMAIN req /\ \A q \in Requests \ {r} : req'[q] = req[q]

LEMMA StepAlone ==
  ASSUME LoopInv, NEW r \in Requests, Receive(r) \/ Step(r)
  PROVE  Alone(r)
<1> USE DEF Alone
<1>1. Receive(r) => Alone(r)
  BY DEF Receive
<1>2. Exclude(r) => Alone(r)
  BY DEF Exclude, Skip, Return
<1>3. OptOut(r) => Alone(r)
  BY DEF OptOut, Skip, Return
<1>4. PassThrough(r) => Alone(r)
  BY DEF PassThrough, Return
<1>5. Accept(r) => Alone(r)
  BY DEF Accept
<1>6. ValidateFails(r) => Alone(r)
  BY DEF ValidateFails, Refuse, Return
<1>7. ValidatePasses(r) => Alone(r)
  BY DEF ValidatePasses
<1>8. Lookup(r) => Alone(r)
  BY DEF Lookup
<1>9. LookupFails(r) => Alone(r)
  BY DEF LookupFails, Refuse, Return
<1>10. Inject(r) => Alone(r)
  BY DEF Inject
<1>11. ImageConfigFails(r) => Alone(r)
  BY DEF ImageConfigFails, Refuse, Return
<1>12. Assemble(r) => Alone(r)
  BY DEF Assemble
<1>13. Answer(r) => Alone(r)
  BY DEF Answer
<1> QED
  BY <1>1, <1>2, <1>3, <1>4, <1>5, <1>6, <1>7, <1>8, <1>9, <1>10, <1>11, <1>12, <1>13 DEF Step

LEMMA OthersLoop ==
  ASSUME LoopInv, NEW r \in Requests, Alone(r), Loop(r)'
  PROVE  LoopInv'
<1>1. ASSUME NEW q \in Requests \ {r} PROVE Loop(q)'
  <2>1. req'[q] = req[q] /\ Loop(q)
    BY DEF LoopInv, Alone
  <2> QED
    BY <2>1 DEF Loop, At, Working, Orig, Handled, Length
<1> QED
  BY <1>1 DEF LoopInv, Alone

LEMMA InvalidIsMisconfigured ==
  ASSUME NEW r, Loop(r), At(r, "validate")
  PROVE  Invalid(r) = 0 <=> ~Misconfigured(Orig(r))
<1>1. Annotations(r) = Orig(r).annotations
      /\ req[r].providers = BuildEnabledProviders(Orig(r).annotations)
  BY DEF Loop, Working, At, Annotations, Handled
<1>2. Misconfigured(Orig(r)) <=>
        ~\A p \in ToSet(BuildEnabledProviders(Orig(r).annotations)) :
            Valid(p, Orig(r).annotations)
  BY DEF Misconfigured
<1> QED
  BY <1>1, <1>2, FirstInvalidEnabled, Zenon DEF Invalid

(* Where the loop over the containers is, in terms of the pod submitted.   *)
LEMMA AtContainer ==
  ASSUME LoopInv, NEW r \in Requests, Mutating(r)
  PROVE  /\ req[r].i \in 1..Length(r)
         /\ Ctr(r) = Orig(r).ctrs[req[r].i] /\ Ctr(r) \in Containers
         /\ Len(Ctr(r).refs) \in Nat
         /\ req[r].k \in 1..(Len(Ctr(r).refs) + 1)
         /\ Annotations(r) = Orig(r).annotations
<1> DEFINE pod == Orig(r)
           i == req[r].i
<1>1. /\ pod \in Pods /\ i \in 1..(Length(r) + 1)
      /\ i <= Length(r) => req[r].k \in 1..(Len(pod.ctrs[i].refs) + 1)
      /\ req[r].pod = Partly(pod, req[r].configs, i)
  BY DEF LoopInv, Loop, Mutating, At
<1>2. i <= Len(req[r].pod.ctrs)
  BY DEF Mutating
<1>3. Length(r) \in Nat /\ \A j \in 1..Length(r) : pod.ctrs[j] \in Containers
  BY <1>1, PodTypes DEF Length
<1> HIDE DEF pod, i
<1>4. i \in Nat
  BY <1>1, <1>3
<1>5. /\ Len(req[r].pod.ctrs) = Length(r)
      /\ req[r].pod.annotations = pod.annotations
      /\ \A j \in 1..Length(r) : j >= i => req[r].pod.ctrs[j] = pod.ctrs[j]
  BY <1>1, <1>4, PartlyTypes DEF Length, pod
<1>6. i \in 1..Length(r)
  BY <1>1, <1>2, <1>3, <1>5
<1>7. req[r].pod.ctrs[i] = pod.ctrs[i]
  BY <1>5, <1>6, <1>3
<1>8. Ctr(r) = pod.ctrs[i] /\ Ctr(r) \in Containers
  BY <1>3, <1>6, <1>7 DEF Ctr, i
<1>9. Len(Ctr(r).refs) \in Nat
  BY <1>8, RefsAreFinite
<1>10. req[r].k \in 1..(Len(Ctr(r).refs) + 1)
  BY <1>1, <1>3, <1>6, <1>8
<1> QED
  BY <1>5, <1>6, <1>8, <1>9, <1>10 DEF pod, i, Annotations

LEMMA LoopReceive ==
  ASSUME LoopInv, NEW r \in Requests, Receive(r) PROVE Loop(r)'
  BY DEF LoopInv, Loop, Receive, At, Working, Pcs, Orig

LEMMA LoopSkip ==
  ASSUME LoopInv, NEW r \in Requests, Exclude(r) \/ OptOut(r) \/ PassThrough(r)
  PROVE  Loop(r)'
<1>1. At(r, "received") /\ req' = [req EXCEPT ![r].pc = "allowed"]
  BY DEF Exclude, OptOut, PassThrough, Skip, Return
<1>2. req[r].pod = Orig(r) /\ Orig(r) \in Pods /\ {"pc", "orig", "pod"} \subseteq DOMAIN req[r]
  BY <1>1 DEF LoopInv, Loop, At
<1>3. Unmanaged(Orig(r))
  BY <1>2 DEF Exclude, OptOut, PassThrough, Unmanaged, Excluded, InExcluded,
              Enabled, Annotations
<1>4. req[r].pod \in Outcomes(Orig(r))
  BY <1>2, <1>3 DEF Outcomes
<1>5. /\ req'[r].pc = "allowed" /\ req'[r].pod = req[r].pod
      /\ req'[r].orig = req[r].orig /\ DOMAIN req'[r] = DOMAIN req[r]
  BY <1>1, <1>2 DEF LoopInv
<1> QED
  BY <1>2, <1>4, <1>5 DEF Loop, At, Working, Pcs, Orig

LEMMA LoopAccept ==
  ASSUME LoopInv, NEW r \in Requests, Accept(r) PROVE Loop(r)'
<1>1. PICK configs \in FilterAndSortSecretConfigs(Annotations(r)) :
        req' = [req EXCEPT ![r] =
                  [pc |-> "validate", orig |-> req[r].orig, pod |-> req[r].pod,
                   providers |-> Enabled(r), configs |-> configs, i |-> 1, k |-> 1]]
  BY DEF Accept
<1>2. req[r].pod = Orig(r) /\ Orig(r) \in Pods
  BY DEF LoopInv, Loop, Accept, At
<1>3. ~Unmanaged(Orig(r))
  BY <1>2 DEF Accept, Unmanaged, Excluded, InExcluded, Enabled, Annotations
<1>4. req'[r] = [pc |-> "validate", orig |-> Orig(r), pod |-> Orig(r),
                 providers |-> Handled(r), configs |-> configs, i |-> 1, k |-> 1]
  BY <1>1, <1>2 DEF LoopInv, Enabled, Handled, Annotations, Orig
<1>5. configs \in FilterAndSortSecretConfigs(Orig(r).annotations)
  BY <1>1, <1>2 DEF Annotations
<1>6. Handled(r)' = Handled(r) /\ Orig(r)' = Orig(r)
  BY <1>4 DEF Handled, Orig
<1> QED
  BY <1>2, <1>3, <1>4, <1>5, <1>6 DEF Loop, At, Working, Pcs

LEMMA LoopDenied ==
  ASSUME LoopInv, NEW r \in Requests, NEW ps, Refuse(r, ps), Working(r),
         Deniable(Orig(r))
  PROVE  Loop(r)'
<1>1. req' = [req EXCEPT ![r].pc = "denied"]
  BY DEF Refuse, Return
<1>2. {"pc", "orig", "pod"} \subseteq DOMAIN req[r] /\ Orig(r) \in Pods
  BY DEF LoopInv, Loop, Working, At
<1>3. req'[r].pc = "denied" /\ req'[r].orig = req[r].orig /\ DOMAIN req'[r] = DOMAIN req[r]
  BY <1>1, <1>2 DEF LoopInv
<1> QED
  BY <1>2, <1>3 DEF Loop, At, Working, Pcs, Orig

LEMMA FailuresAreDeniable ==
  ASSUME LoopInv, NEW r \in Requests,
         ValidateFails(r) \/ LookupFails(r) \/ ImageConfigFails(r)
  PROVE  Working(r) /\ Deniable(Orig(r))
<1>1. CASE ValidateFails(r)
  <2>1. At(r, "validate") /\ Invalid(r) # 0 /\ Loop(r)
    BY <1>1 DEF ValidateFails, LoopInv
  <2> QED
    BY <2>1, InvalidIsMisconfigured DEF Deniable, Working, Loop, At
<1>2. CASE LookupFails(r)
  <2>1. Mutating(r) /\ req[r].k <= Len(Ctr(r).refs)
    BY <1>2 DEF LookupFails, LookingUp
  <2>2. Ctr(r).refs # <<>>
    BY <2>1, AtContainer
  <2>3. CallsOut(Orig(r))
    BY <2>1, <2>2, AtContainer, PodTypes DEF CallsOut, LoopInv, Loop, Mutating, At, Length
  <2> QED
    BY <2>1, <2>3 DEF Deniable, Working, LoopInv, Loop, At, Mutating
<1>3. CASE ImageConfigFails(r)
  <2>1. Mutating(r) /\ Ctr(r).cmd = <<>>
    BY <1>3 DEF ImageConfigFails, LookedUp
  <2>2. CallsOut(Orig(r))
    BY <2>1, AtContainer, PodTypes DEF CallsOut, LoopInv, Loop, Mutating, At, Length
  <2> QED
    BY <2>1, <2>2 DEF Deniable, Working, LoopInv, Loop, At, Mutating
<1> QED
  BY <1>1, <1>2, <1>3

LEMMA LoopValidated ==
  ASSUME LoopInv, NEW r \in Requests, ValidatePasses(r) PROVE Loop(r)'
<1>1. At(r, "validate") /\ Invalid(r) = 0 /\ req' = [req EXCEPT ![r].pc = "mutate"]
  BY DEF ValidatePasses
<1>2. Loop(r)
  BY DEF LoopInv
<1>3. /\ {"pc", "orig", "pod"} \subseteq DOMAIN req[r] /\ Orig(r) \in Pods
      /\ {"i", "k", "providers", "configs"} \subseteq DOMAIN req[r]
      /\ ~Unmanaged(Orig(r))
      /\ req[r].providers = Handled(r)
      /\ req[r].configs \in FilterAndSortSecretConfigs(Orig(r).annotations)
      /\ req[r].i = 1 /\ req[r].k = 1 /\ req[r].pod = Orig(r)
  BY <1>1, <1>2 DEF Loop, At, Working
<1>4. req'[r] = [req[r] EXCEPT !.pc = "mutate"]
  BY <1>1 DEF LoopInv
<1>5. ~Misconfigured(Orig(r))
  BY <1>1, <1>2, InvalidIsMisconfigured
<1>6. Orig(r)' = Orig(r) /\ Handled(r)' = Handled(r) /\ Length(r)' = Length(r)
  BY <1>3, <1>4 DEF Orig, Handled, Length
<1>7. Partly(Orig(r), req[r].configs, 1) = req[r].pod
  BY <1>3, PartlyFirst
<1>8. /\ 1 \in 1..(Length(r) + 1)
      /\ 1 <= Length(r) => 1 \in 1..(Len(Orig(r).ctrs[1].refs) + 1)
  <2>1. Length(r) \in Nat /\ \A j \in 1..Length(r) : Orig(r).ctrs[j] \in Containers
    BY <1>3, PodTypes DEF Length
  <2>2. 1 <= Length(r) => Len(Orig(r).ctrs[1].refs) \in Nat
    BY <2>1, RefsAreFinite
  <2> QED
    BY <2>1, <2>2
<1> QED
  BY <1>3, <1>4, <1>5, <1>6, <1>7, <1>8 DEF Loop, At, Working, Pcs

LEMMA LoopLookup ==
  ASSUME LoopInv, NEW r \in Requests, Lookup(r) PROVE Loop(r)'
<1>1. Mutating(r) /\ req[r].k <= Len(Ctr(r).refs) /\ req' = [req EXCEPT ![r].k = @ + 1]
  BY DEF Lookup, LookingUp
<1>2. Loop(r) /\ At(r, "mutate")
  BY <1>1 DEF LoopInv, Mutating
<1>3. {"pc", "orig", "pod", "i", "k", "providers", "configs"} \subseteq DOMAIN req[r]
  BY <1>2 DEF Loop, At, Working
<1>4. req'[r] = [req[r] EXCEPT !.k = @ + 1]
  BY <1>1 DEF LoopInv
<1>5. Orig(r)' = Orig(r) /\ Handled(r)' = Handled(r) /\ Length(r)' = Length(r)
  BY <1>3, <1>4 DEF Orig, Handled, Length
<1>6. req[r].k + 1 \in 1..(Len(Orig(r).ctrs[req[r].i].refs) + 1)
  BY <1>1, AtContainer
<1> QED
  BY <1>2, <1>3, <1>4, <1>5, <1>6 DEF Loop, At, Working

LEMMA LoopInject ==
  ASSUME LoopInv, NEW r \in Requests, Inject(r) PROVE Loop(r)'
<1> DEFINE pod == Orig(r)
           i == req[r].i
           ctr == pod.ctrs[i]
           configs == req[r].configs
<1>1. Mutating(r) /\ Loop(r) /\ At(r, "mutate")
  BY DEF Inject, LookedUp, Mutating, LoopInv
<1>2. /\ {"pc", "orig", "pod", "i", "k", "providers", "configs"} \subseteq DOMAIN req[r]
      /\ pod \in Pods /\ req[r].pod = Partly(pod, configs, i)
      /\ req[r].providers = Handled(r)
  BY <1>1 DEF Loop, At, Working
<1>3. i \in 1..Len(pod.ctrs) /\ Ctr(r) = ctr /\ ctr \in Containers
      /\ Annotations(r) = pod.annotations
  BY <1>1, AtContainer, Zenon DEF Length
<1>4. Wrapped(r, Images[Ctr(r).image]) = Injected(ctr, pod.annotations, configs)
  BY <1>2, <1>3, ArgsAreArgv, Zenon DEF Wrapped, Injected, Handled
<1> DEFINE next == [req[r] EXCEPT !.pod = Mutation(r), !.i = req[r].i + 1, !.k = 1]
<1>5. req'[r] = next
  <2>1. req' = [req EXCEPT ![r] = next]
    BY Zenon DEF Inject
  <2> HIDE DEF next
  <2> QED
    BY <2>1 DEF LoopInv
<1>6. Mutation(r) = Partly(pod, configs, i + 1)
  <2>1. Mutation(r) = [Partly(pod, configs, i) EXCEPT
                         !.ctrs[i] = Injected(ctr, pod.annotations, configs)]
    BY <1>2, <1>4, Zenon DEF Mutation
  <2> HIDE DEF pod, configs, i, next
  <2>2. [Partly(pod, configs, i) EXCEPT
           !.ctrs[i] = Injected(ctr, pod.annotations, configs)]
          = Partly(pod, configs, i + 1)
    BY <1>2, <1>3, PartlyNext, Zenon
  <2> QED
    BY <2>1, <2>2, Zenon
<1>7. /\ req'[r].pc = req[r].pc /\ req'[r].orig = req[r].orig
      /\ req'[r].i = i + 1 /\ req'[r].k = 1 /\ req'[r].pod = Mutation(r)
      /\ req'[r].providers = req[r].providers /\ req'[r].configs = req[r].configs
      /\ DOMAIN req'[r] = DOMAIN req[r]
  BY <1>2, <1>5
<1>8. Orig(r)' = Orig(r) /\ Handled(r)' = Handled(r) /\ Length(r)' = Length(r)
  BY <1>7 DEF Orig, Handled, Length
<1>9. /\ i + 1 \in 1..(Length(r) + 1)
      /\ i + 1 <= Length(r) => 1 \in 1..(Len(pod.ctrs[i + 1].refs) + 1)
  <2>1. Length(r) \in Nat /\ \A j \in 1..Length(r) : pod.ctrs[j] \in Containers
    BY <1>2, PodTypes DEF Length
  <2>2. i + 1 <= Length(r) => Len(pod.ctrs[i + 1].refs) \in Nat
    BY <1>3, <2>1, RefsAreFinite DEF Length
  <2>3. i \in 1..Length(r)
    BY <1>3 DEF Length
  <2> HIDE DEF i
  <2>4. i + 1 \in 1..(Length(r) + 1)
    BY <2>1, <2>3
  <2> QED
    BY <2>2, <2>4
<1> HIDE DEF pod, i, ctr, configs
<1> QED
  BY <1>1, <1>2, <1>6, <1>7, <1>8, <1>9 DEF Loop, At, Working, pod, i, configs

LEMMA LoopAssemble ==
  ASSUME LoopInv, NEW r \in Requests, Assemble(r) PROVE Loop(r)'
<1> DEFINE pod == Orig(r)
           configs == req[r].configs
<1>1. Loop(r) /\ At(r, "mutate") /\ req[r].i > Len(req[r].pod.ctrs)
  BY DEF Assemble, LoopInv
<1>2. /\ {"pc", "orig", "pod", "i", "k", "providers", "configs"} \subseteq DOMAIN req[r]
      /\ pod \in Pods /\ req[r].pod = Partly(pod, configs, req[r].i)
      /\ req[r].providers = Handled(r)
      /\ req[r].i \in 1..(Length(r) + 1)
  BY <1>1 DEF Loop, At, Working
<1>3. Length(r) \in Nat
  BY <1>2, PodTypes DEF Length
<1>4. req[r].i \in Nat
  BY <1>2, <1>3
<1>5. Len(req[r].pod.ctrs) = Length(r) /\ req[r].pod.annotations = pod.annotations
  BY <1>2, <1>4, PartlyTypes DEF Length
<1>6. req[r].i = Len(pod.ctrs) + 1
  BY <1>1, <1>2, <1>3, <1>5 DEF Length
<1>7. Volumes(r) = InjectorVolumes(pod.annotations)
  BY <1>2, <1>5 DEF Volumes, InjectorVolumes, Annotations, Handled
<1> DEFINE next == [req[r] EXCEPT !.pc = "version", !.pod = Assembled(r)]
<1>8. req'[r] = next
  <2>1. req' = [req EXCEPT ![r] = next]
    BY Zenon DEF Assemble
  <2> HIDE DEF next
  <2> QED
    BY <2>1 DEF LoopInv
<1>9. Assembled(r) = InjectedPod(pod, configs, pod.version)
  BY <1>2, <1>6, <1>7, PartlyLast, Zenon DEF Assembled
<1>10. /\ req'[r].pc = "version" /\ req'[r].orig = req[r].orig /\ req'[r].pod = Assembled(r)
       /\ req'[r].providers = req[r].providers /\ req'[r].configs = req[r].configs
       /\ DOMAIN req'[r] = DOMAIN req[r]
  BY <1>2, <1>8
<1>11. Orig(r)' = Orig(r) /\ Handled(r)' = Handled(r)
  BY <1>10 DEF Orig, Handled
<1> HIDE DEF pod, configs
<1> QED
  BY <1>1, <1>2, <1>9, <1>10, <1>11 DEF Loop, At, Working, Pcs, pod, configs

LEMMA LoopAnswer ==
  ASSUME LoopInv, NEW r \in Requests, Answer(r) PROVE Loop(r)'
<1> DEFINE pod == Orig(r)
           configs == req[r].configs
<1>1. Loop(r) /\ At(r, "version")
  BY DEF Answer, LoopInv
<1>2. /\ {"pc", "orig", "pod", "i", "k", "providers", "configs"} \subseteq DOMAIN req[r]
      /\ pod \in Pods /\ ~Unmanaged(pod) /\ ~Misconfigured(pod)
      /\ req[r].pod = InjectedPod(pod, configs, pod.version)
      /\ configs \in FilterAndSortSecretConfigs(pod.annotations)
  BY <1>1 DEF Loop, At, Working
<1>3. req[r].pod.version = pod.version /\ Annotations(r) = pod.annotations
  BY <1>2, BaselineLast DEF Annotations
<1>4. PICK v \in {req[r].pod.version} \cup
                   IF "vault/rotation-interval" \in Annotations(r)
                     THEN Versions ELSE {} :
        req' = [req EXCEPT ![r] =
                  [req[r] EXCEPT !.pc = "allowed",
                                 !.pod = [req[r].pod EXCEPT !.version = v]]]
  BY DEF Answer
<1>5. v \in Baselines(pod)
  BY <1>3, <1>4 DEF Baselines
<1> DEFINE whole == [req[r].pod EXCEPT !.version = v]
           next == [req[r] EXCEPT !.pc = "allowed", !.pod = whole]
<1>6. req'[r] = next
  <2>1. req' = [req EXCEPT ![r] = next]
    BY <1>4, Zenon
  <2> HIDE DEF next
  <2> QED
    BY <2>1 DEF LoopInv
<1>7. whole = InjectedPod(pod, configs, v)
  BY <1>2, BaselineLast
<1> HIDE DEF whole
<1>8. /\ req'[r].pc = "allowed" /\ req'[r].orig = req[r].orig /\ req'[r].pod = whole
      /\ DOMAIN req'[r] = DOMAIN req[r]
  BY <1>2, <1>6
<1>9. req'[r].pod \in Outcomes(pod)
  BY <1>2, <1>5, <1>7, <1>8 DEF Outcomes
<1> HIDE DEF pod, configs
<1> QED
  BY <1>2, <1>8, <1>9 DEF Loop, At, Working, Pcs, Orig, pod

LEMMA LoopInit == Init => LoopInv
  BY DEF Init, LoopInv, Loop, At, Working, Pcs, NoRequest

LEMMA LoopStep == LoopInv /\ [Next]_vars => LoopInv'
<1>1. ASSUME LoopInv, NEW r \in Requests, Receive(r) \/ Step(r) PROVE Loop(r)'
  <2>1. CASE Receive(r)
    BY <1>1, <2>1, LoopReceive
  <2>2. CASE Exclude(r) \/ OptOut(r) \/ PassThrough(r)
    BY <1>1, <2>2, LoopSkip
  <2>3. CASE ValidateFails(r) \/ LookupFails(r) \/ ImageConfigFails(r)
    <3>1. PICK ps : Refuse(r, ps)
      BY <2>3 DEF ValidateFails, LookupFails, ImageConfigFails
    <3> QED
      BY <1>1, <2>3, <3>1, LoopDenied, FailuresAreDeniable
  <2> QED
    BY <1>1, <2>1, <2>2, <2>3, LoopAccept, LoopValidated, LoopLookup, LoopInject,
       LoopAssemble, LoopAnswer DEF Step
<1>2. LoopInv /\ Next => LoopInv'
  BY <1>1, StepAlone, OthersLoop DEF Next
<1>3. LoopInv /\ UNCHANGED vars => LoopInv'
  BY DEF vars, LoopInv, Loop, At, Working, Orig, Handled, Length
<1> QED
  BY <1>2, <1>3

LEMMA LoopInvariant == Spec => []LoopInv
  BY LoopInit, LoopStep, PTL DEF Spec

-----------------------------------------------------------------------------
(* The promise is kept: what a step shows of its review.                   *)

Waiting(r) == req[r].pc \in {"received", "validate", "mutate", "version"}

Allows(r) == Exclude(r) \/ OptOut(r) \/ PassThrough(r) \/ Answer(r)
Denies(r) == ValidateFails(r) \/ LookupFails(r) \/ ImageConfigFails(r)
GoesOn(r) == Accept(r) \/ ValidatePasses(r) \/ Lookup(r) \/ Inject(r) \/ Assemble(r)

(* A review stays one of the pod it began with.                            *)
Keeps(r) == Orig(r)' = Orig(r)

LEMMA WaitingHas ==
  ASSUME LoopInv, NEW r \in Requests, Waiting(r)
  PROVE  /\ {"pc", "orig", "pod"} \subseteq DOMAIN req[r] /\ Orig(r) \in Pods
         /\ At(r, "mutate") => "k" \in DOMAIN req[r]
  BY DEF Waiting, LoopInv, Loop, At, Working

LEMMA StepKeeps ==
  ASSUME LoopInv, NEW r \in Requests, NEW next, next.orig = req[r].orig,
         req' = [req EXCEPT ![r] = next]
  PROVE  Keeps(r) /\ req'[r].pc = next.pc
  BY DEF LoopInv, Keeps, Orig

LEMMA AllowsReview ==
  ASSUME LoopInv, NEW r \in Requests, Allows(r)
  PROVE  Waiting(r) /\ Keeps(r) /\ req'[r].pc = "allowed"
<1>1. Waiting(r)
  BY DEF Allows, Waiting, Exclude, OptOut, PassThrough, Answer, At
<1>2. CASE Exclude(r) \/ OptOut(r) \/ PassThrough(r)
  <2>1. req' = [req EXCEPT ![r].pc = "allowed"]
    BY <1>2 DEF Exclude, OptOut, PassThrough, Skip, Return
  <2> DEFINE next == [req[r] EXCEPT !.pc = "allowed"]
  <2>2. req' = [req EXCEPT ![r] = next]
    BY <2>1
  <2>3. next.orig = req[r].orig /\ next.pc = "allowed"
    BY <1>1, WaitingHas
  <2> HIDE DEF next
  <2> QED
    BY <1>1, <2>2, <2>3, StepKeeps
<1>3. CASE Answer(r)
  <2>1. PICK pod : req' = [req EXCEPT ![r] = [req[r] EXCEPT !.pc = "allowed", !.pod = pod]]
    BY <1>3, Zenon DEF Answer
  <2> DEFINE next == [req[r] EXCEPT !.pc = "allowed", !.pod = pod]
  <2>2. next.orig = req[r].orig /\ next.pc = "allowed"
    BY <1>1, WaitingHas
  <2>3. req' = [req EXCEPT ![r] = next]
    BY <2>1
  <2> HIDE DEF next
  <2> QED
    BY <1>1, <2>2, <2>3, StepKeeps
<1> QED
  BY <1>1, <1>2, <1>3 DEF Allows

LEMMA DeniesReview ==
  ASSUME LoopInv, NEW r \in Requests, Denies(r)
  PROVE  Waiting(r) /\ Keeps(r) /\ req'[r].pc = "denied"
<1>1. Waiting(r)
  BY DEF Denies, Waiting, ValidateFails, LookupFails, ImageConfigFails, LookingUp,
         LookedUp, Mutating, At
<1>2. req' = [req EXCEPT ![r].pc = "denied"]
  BY DEF Denies, ValidateFails, LookupFails, ImageConfigFails, Refuse, Return
<1> DEFINE next == [req[r] EXCEPT !.pc = "denied"]
<1>3. req' = [req EXCEPT ![r] = next]
  BY <1>2
<1>4. next.orig = req[r].orig /\ next.pc = "denied"
  BY <1>1, WaitingHas
<1> HIDE DEF next
<1> QED
  BY <1>1, <1>3, <1>4, StepKeeps

LEMMA GoesOnReview ==
  ASSUME LoopInv, NEW r \in Requests, GoesOn(r)
  PROVE  Waiting(r) /\ Keeps(r) /\ Waiting(r)'
<1>1. Waiting(r)
  BY DEF GoesOn, Waiting, Accept, ValidatePasses, Lookup, Inject, Assemble,
         LookingUp, LookedUp, Mutating, At
<1>2. PICK next : /\ req' = [req EXCEPT ![r] = next] /\ next.orig = req[r].orig
                  /\ next.pc \in {"validate", "mutate", "version"}
  <2>1. CASE Accept(r)
    <3>1. PICK configs :
            req' = [req EXCEPT ![r] =
                      [pc |-> "validate", orig |-> req[r].orig, pod |-> req[r].pod,
                       providers |-> Enabled(r), configs |-> configs,
                       i |-> 1, k |-> 1]]
      BY <2>1 DEF Accept
    <3> DEFINE next == [pc |-> "validate", orig |-> req[r].orig, pod |-> req[r].pod,
                        providers |-> Enabled(r), configs |-> configs,
                        i |-> 1, k |-> 1]
    <3>2. next.orig = req[r].orig /\ next.pc = "validate"
      OBVIOUS
    <3>3. req' = [req EXCEPT ![r] = next]
      BY <3>1
    <3> HIDE DEF next
    <3> QED
      BY <3>2, <3>3
  <2>2. CASE ValidatePasses(r)
    <3> DEFINE next == [req[r] EXCEPT !.pc = "mutate"]
    <3>1. req' = [req EXCEPT ![r] = next]
      BY <2>2 DEF ValidatePasses
    <3>2. next.orig = req[r].orig /\ next.pc = "mutate"
      BY <1>1, WaitingHas
    <3> QED
      BY <3>1, <3>2
  <2>3. CASE Lookup(r)
    <3> DEFINE next == [req[r] EXCEPT !.k = @ + 1]
    <3>1. req' = [req EXCEPT ![r] = next] /\ At(r, "mutate")
      BY <2>3 DEF Lookup, LookingUp, Mutating
    <3>2. next.orig = req[r].orig /\ next.pc = "mutate"
      BY <1>1, <3>1, WaitingHas DEF At
    <3> QED
      BY <3>1, <3>2
  <2>4. CASE Inject(r)
    <3> DEFINE next == [req[r] EXCEPT !.pod = Mutation(r), !.i = req[r].i + 1, !.k = 1]
    <3>1. req' = [req EXCEPT ![r] = next] /\ At(r, "mutate")
      BY <2>4, Zenon DEF Inject, LookedUp, Mutating
    <3>2. next.orig = req[r].orig /\ next.pc = "mutate"
      BY <1>1, <3>1, WaitingHas DEF At
    <3> HIDE DEF next
    <3> QED
      BY <3>1, <3>2
  <2>5. CASE Assemble(r)
    <3> DEFINE next == [req[r] EXCEPT !.pc = "version", !.pod = Assembled(r)]
    <3>1. req' = [req EXCEPT ![r] = next]
      BY <2>5, Zenon DEF Assemble
    <3>2. next.orig = req[r].orig /\ next.pc = "version"
      BY <1>1, WaitingHas
    <3> HIDE DEF next
    <3> QED
      BY <3>1, <3>2
  <2> QED
    BY <2>1, <2>2, <2>3, <2>4, <2>5 DEF GoesOn
<1>3. Keeps(r) /\ req'[r].pc = next.pc
  BY <1>2, StepKeeps
<1> QED
  BY <1>1, <1>2, <1>3 DEF Waiting

(* What the API server sees of a review.                                   *)
Seen(r) == Review[r]

LEMMA SeenIs ==
  ASSUME NEW r \in Requests
  PROVE  /\ At(r, "none") => Seen(r) = [verdict |-> "none"]
         /\ At(r, "allowed") => Seen(r) = [verdict |-> "allowed", pod |-> req[r].pod]
         /\ At(r, "denied") => Seen(r) = [verdict |-> "denied", pod |-> Orig(r)]
         /\ Waiting(r) => Seen(r) = [verdict |-> "waiting", pod |-> Orig(r)]
  BY DEF Seen, Review, At, Waiting

LEMMA SeenOthers ==
  ASSUME LoopInv, NEW r \in Requests, Alone(r), NEW seen, Seen(r)' = seen
  PROVE  Review' = [Review EXCEPT ![r] = seen]
<1>1. \A q \in Requests \ {r} : Review'[q] = Review[q]
  BY DEF Review, Alone, At, Orig
<1>2. DOMAIN Review = Requests /\ DOMAIN Review' = Requests
  BY DEF Review
<1>3. Review'[r] = seen
  BY DEF Seen
<1>4. Review = [q \in Requests |-> Review[q]] /\ Review' = [q \in Requests |-> Review'[q]]
  BY DEF Review
<1> HIDE DEF Review
<1> QED
  BY <1>1, <1>2, <1>3, <1>4

LEMMA AtomicInit == Init => Atomic!Init
  BY DEF Init, Atomic!Init, Atomic!NoReview, Review, NoRequest, At

LEMMA ReceiveSubmits ==
  ASSUME LoopInv, LoopInv', NEW r \in Requests, Receive(r)
  PROVE  Atomic!Submit(r)
<1>1. At(r, "none") /\ Alone(r)
  BY StepAlone DEF Receive
<1>2. Review[r] = Atomic!NoReview
  BY <1>1, SeenIs DEF Seen, Atomic!NoReview
<1>3. PICK pod \in Pods : Waiting(r)' /\ Orig(r)' = pod
  BY DEF Receive, LoopInv, Waiting, Orig
<1>4. Seen(r)' = [verdict |-> "waiting", pod |-> pod]
  BY <1>3, SeenIs DEF Seen, Review, Waiting, At
<1>5. Review' = [Review EXCEPT ![r] = [verdict |-> "waiting", pod |-> pod]]
  BY <1>1, <1>4, SeenOthers
<1> QED
  BY <1>2, <1>3, <1>5 DEF Atomic!Submit

LEMMA AllowsAllows ==
  ASSUME LoopInv, LoopInv', NEW r \in Requests, Allows(r)
  PROVE  Atomic!Allow(r)
<1>1. Alone(r) /\ Waiting(r) /\ Keeps(r) /\ At(r, "allowed")' /\ Orig(r) \in Pods
  BY StepAlone, AllowsReview, WaitingHas DEF Allows, Step, At
<1>2. Review[r] = [verdict |-> "waiting", pod |-> Orig(r)]
  BY <1>1, SeenIs DEF Seen
<1>3. req'[r].pod \in Outcomes(Orig(r))
  BY <1>1 DEF LoopInv, Loop, Keeps
<1>4. Seen(r)' = [verdict |-> "allowed", pod |-> req'[r].pod]
  BY <1>1 DEF Seen, Review, At
<1>5. Review' = [Review EXCEPT ![r] = [verdict |-> "allowed", pod |-> req'[r].pod]]
  BY <1>1, <1>4, SeenOthers
<1>6. req'[r].pod \in PodAnswers[Review[r].pod]
  BY <1>1, <1>2, <1>3 DEF PodAnswers
<1>7. Review[r].verdict = "waiting"
  BY <1>2
<1> QED
  BY <1>5, <1>6, <1>7, Zenon DEF Atomic!Allow

LEMMA DeniesDenies ==
  ASSUME LoopInv, LoopInv', NEW r \in Requests, Denies(r)
  PROVE  Atomic!Deny(r)
<1>1. Alone(r) /\ Waiting(r) /\ Keeps(r) /\ At(r, "denied")' /\ Orig(r) \in Pods
  BY StepAlone, DeniesReview, WaitingHas DEF Denies, Step, At
<1>2. Review[r] = [verdict |-> "waiting", pod |-> Orig(r)]
  BY <1>1, SeenIs DEF Seen
<1>3. Deniable(Orig(r))
  BY FailuresAreDeniable DEF Denies
<1>4. Seen(r)' = [verdict |-> "denied", pod |-> Orig(r)]
  BY <1>1 DEF Seen, Review, At, Keeps
<1>5. Review' = [Review EXCEPT ![r] = [verdict |-> "denied", pod |-> Orig(r)]]
  BY <1>1, <1>4, SeenOthers
<1>6. Review' = [Review EXCEPT ![r].verdict = "denied"]
  <2>1. [Review[r] EXCEPT !.verdict = "denied"] = [verdict |-> "denied", pod |-> Orig(r)]
    BY <1>2
  <2> QED
    BY <1>5, <2>1, Zenon
<1>7. Review[r].pod \in PodsToDeny /\ Review[r].verdict = "waiting"
  BY <1>1, <1>2, <1>3 DEF PodsToDeny
<1> QED
  BY <1>6, <1>7 DEF Atomic!Deny

LEMMA GoesOnStutters ==
  ASSUME LoopInv, NEW r \in Requests, GoesOn(r)
  PROVE  UNCHANGED Review
<1>1. Alone(r) /\ Waiting(r) /\ Keeps(r) /\ Waiting(r)'
  BY StepAlone, GoesOnReview DEF GoesOn, Step
<1>2. Seen(r) = [verdict |-> "waiting", pod |-> Orig(r)]
  BY <1>1, SeenIs
<1>3. Seen(r)' = Seen(r)
  BY <1>1, <1>2 DEF Seen, Review, At, Waiting, Keeps
<1>4. Review' = [Review EXCEPT ![r] = Review[r]]
  BY <1>1, <1>3, SeenOthers DEF Seen
<1> QED
  BY <1>4 DEF Review

(* The handler, which stops at every call and mutates the pod container by *)
(* container, and serves any number of reviews at a time, answers each of  *)
(* them as if in one step: with a pod it promises for the one submitted,   *)
(* never with a half-mutated one or another review's, and with a denial    *)
(* only where its promise has one (main.go:244-330, 356-447).              *)
THEOREM AdmissionImplementsAtomic == Spec => ImplementsAtomic
<1>1. LoopInv /\ LoopInv' /\ [Next]_vars => [Atomic!Next]_Review
  <2> SUFFICES ASSUME LoopInv, LoopInv', [Next]_vars PROVE [Atomic!Next]_Review
    OBVIOUS
  <2>1. ASSUME NEW r \in Requests, Receive(r) \/ Step(r)
        PROVE  Atomic!Submit(r) \/ Atomic!Allow(r) \/ Atomic!Deny(r) \/ UNCHANGED Review
    <3>1. Receive(r) \/ Allows(r) \/ Denies(r) \/ GoesOn(r)
      BY <2>1 DEF Step, Allows, Denies, GoesOn
    <3> QED
      BY <3>1, ReceiveSubmits, AllowsAllows, DeniesDenies, GoesOnStutters
  <2>2. UNCHANGED vars => UNCHANGED Review
    BY DEF vars, Review, At, Orig
  <2> QED
    BY <2>1, <2>2 DEF Next, Atomic!Next
<1> QED
  BY <1>1, AtomicInit, LoopInvariant, PTL DEF Spec, ImplementsAtomic, Atomic!Spec
=============================================================================
