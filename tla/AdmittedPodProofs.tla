------------------------- MODULE AdmittedPodProofs --------------------------
(***************************************************************************)
(* What a mutated pod runs, asks for and mounts, for any pods, images and  *)
(* combinations of providers.                                              *)
(***************************************************************************)
EXTENDS AdmissionProofs

LEMMA AfterFirst ==
  ASSUME NEW x, NEW n \in Nat, NEW f, DOMAIN f = 1..n, f = [i \in 1..n |-> f[i]]
  PROVE  /\ (<<x>> \o f)[1] = x
         /\ \A i \in 1..n : (<<x>> \o f)[i + 1] = f[i]
<1> DEFINE S == {x} \cup {f[i] : i \in 1..n}
<1>1. f \in Seq(S) /\ <<x>> \in Seq(S) /\ Len(f) = n /\ Len(<<x>>) = 1
  OBVIOUS
<1> HIDE DEF S
<1> QED
  BY <1>1, ConcatProperties

LEMMA AppendIsConcatOf ==
  ASSUME NEW s \in Seq(Words), NEW x \in Words
  PROVE  Append(s, x) = s \o <<x>>
  BY AppendIsConcat

(* A container's fields are words.                                         *)
LEMMA ContainerTypes ==
  ASSUME NEW ctr \in Containers
  PROVE  /\ {"cmd", "args", "mounts", "env", "image"} \subseteq DOMAIN ctr
         /\ ctr.mounts \in Seq(Words)
         /\ Argv(ctr, Images[ctr.image]) \in Seq(Words)
<1> DEFINE config == Images[ctr.image]
<1>1. /\ ctr.cmd \in Seq(STRING) /\ ctr.args \in Seq(STRING) /\ ctr.mounts \in Seq(STRING)
      /\ config.entrypoint \in Seq(STRING) /\ config.cmd \in Seq(STRING)
  BY AdmissionAssumption DEF Containers, Text
<1>2. /\ ctr.cmd \in Seq(Words) /\ ctr.args \in Seq(Words) /\ ctr.mounts \in Seq(Words)
      /\ config.entrypoint \in Seq(Words) /\ config.cmd \in Seq(Words)
  BY <1>1, TextIsWords
<1>3. {"cmd", "args", "mounts", "env", "image"} \subseteq DOMAIN ctr
  BY DEF Containers
<1> HIDE DEF config
<1>4. Argv(ctr, config) \in Seq(Words)
  BY <1>2, Concat DEF Argv
<1> QED
  BY <1>2, <1>3, <1>4 DEF config

LEMMA InjectedContainer ==
  ASSUME NEW ctr \in Containers, NEW a, BuildEnabledProviders(a) # <<>>,
         NEW configs \in FilterAndSortSecretConfigs(a)
  PROVE  LET ps  == BuildEnabledProviders(a)
             new == Injected(ctr, a, configs)
         IN  /\ Told(ps, a, configs) \in Seq(Words)
             /\ ExtraVolumes(ps, a) \in Seq(Words)
             /\ new.cmd = <<Injector>>
             /\ new.args = Told(ps, a, configs) \o Argv(ctr, Images[ctr.image])
             /\ new.mounts = Append(ctr.mounts \o ExtraVolumes(ps, a), InjectorName)
<1> DEFINE ps == BuildEnabledProviders(a)
           own == Argv(ctr, Images[ctr.image])
           start == [ctr EXCEPT !.cmd = <<Injector>>, !.args = own]
           all == MutateByAll(start, ps, a, configs)
<1>1. ps \in Seq(Names) /\ Len(ps) \in 1..4
  <2>1. ps \in Seq(Names) /\ Len(ps) \in 0..4 /\ ps # <<>>
    BY EnabledTypes
  <2> HIDE DEF ps
  <2>2. Len(ps) # 0
    BY <2>1
  <2> QED
    BY <2>1, <2>2
<1>2. /\ {"cmd", "args", "mounts", "env"} \subseteq DOMAIN start
      /\ start.cmd = <<Injector>> /\ start.args = own /\ start.mounts = ctr.mounts
      /\ own \in Seq(Words) /\ ctr.mounts \in Seq(Words)
  <2>1. /\ {"cmd", "args", "mounts", "env"} \subseteq DOMAIN ctr
        /\ own \in Seq(Words) /\ ctr.mounts \in Seq(Words)
    BY ContainerTypes
  <2> HIDE DEF own
  <2> QED
    BY <2>1
<1>3. Injected(ctr, a, configs) = [all EXCEPT !.mounts = Append(@, InjectorName)]
  BY DEF Injected
<1> HIDE DEF ps, own, start
<1>4. /\ Told(ps, a, configs) \in Seq(Words) /\ ExtraVolumes(ps, a) \in Seq(Words)
      /\ Extends(all, start, Told(ps, a, configs), ExtraVolumes(ps, a))
  BY <1>1, <1>2, MutatedByAll
<1> HIDE DEF all
<1>5. /\ DOMAIN all = DOMAIN start /\ all.cmd = <<Injector>>
      /\ all.args = Told(ps, a, configs) \o own
      /\ all.mounts = ctr.mounts \o ExtraVolumes(ps, a)
  BY <1>2, <1>4, Zenon DEF Extends
<1> DEFINE new == Injected(ctr, a, configs)
           told == Told(ps, a, configs) \o own
           mounts == Append(ctr.mounts \o ExtraVolumes(ps, a), InjectorName)
<1>6. new.cmd = <<Injector>> /\ new.args = told /\ new.mounts = mounts
  <2>1. new = [all EXCEPT !.mounts = mounts] /\ all.args = told
    BY <1>3, <1>5, Zenon
  <2> HIDE DEF new, told, mounts
  <2> QED
    BY <1>2, <1>5, <2>1
<1> QED
  BY <1>4, <1>6 DEF ps, own

(* A mutated pod is one the webhook promises.                              *)
LEMMA AdmittedPod ==
  ASSUME LoopInv, NEW r \in Requests, Mutated(r)
  PROVE  /\ Orig(r) \in Pods
         /\ Handled(r) \in Seq(Names) /\ Len(Handled(r)) \in 1..4
         /\ IsInjective(Handled(r))
         /\ \E configs \in FilterAndSortSecretConfigs(Orig(r).annotations),
               version \in Baselines(Orig(r)) :
              req[r].pod = InjectedPod(Orig(r), configs, version)
<1>1. /\ Orig(r) \in Pods /\ req[r].pod \in Outcomes(Orig(r))
      /\ ~Unmanaged(Orig(r)) /\ Handled(r) # <<>>
  BY DEF LoopInv, Loop, Mutated, At, Skipped, Unmanaged, Handled
<1>2. \E configs \in FilterAndSortSecretConfigs(Orig(r).annotations),
        version \in Baselines(Orig(r)) :
        req[r].pod = InjectedPod(Orig(r), configs, version)
  <2>1. ASSUME NEW pod, NEW new \in Outcomes(pod), ~Unmanaged(pod)
        PROVE  \E configs \in FilterAndSortSecretConfigs(pod.annotations),
                  version \in Baselines(pod) :
                 new = InjectedPod(pod, configs, version)
    BY <2>1 DEF Outcomes
  <2> QED
    BY <1>1, <2>1
<1>3. Handled(r) \in Seq(Names) /\ Len(Handled(r)) \in 0..4 /\ IsInjective(Handled(r))
  BY EnabledTypes, EnabledInjective DEF Handled
<1>4. Len(Handled(r)) \in 1..4
  <2> DEFINE ps == Handled(r)
  <2>1. ps \in Seq(Names) /\ Len(ps) \in 0..4 /\ ps # <<>>
    BY <1>1, <1>3
  <2> HIDE DEF ps
  <2>2. Len(ps) # 0
    BY <2>1
  <2> QED
    BY <2>1, <2>2 DEF ps
<1> QED
  BY <1>1, <1>2, <1>3, <1>4

LEMMA InjectedPodIs ==
  ASSUME NEW pod \in Pods, NEW configs, NEW version
  PROVE  LET new == InjectedPod(pod, configs, version)
         IN  /\ new.ctrs[1] = CopyContainer
             /\ \A i \in 1..Len(pod.ctrs) :
                  new.ctrs[i + 1] = Injected(pod.ctrs[i], pod.annotations, configs)
             /\ new.inits = pod.inits + 1
             /\ new.volumes = pod.volumes \o InjectorVolumes(pod.annotations)
<1> DEFINE f == [i \in DOMAIN pod.ctrs |-> Injected(pod.ctrs[i], pod.annotations, configs)]
           new == InjectedPod(pod, configs, version)
           ctrs == <<CopyContainer>> \o f
           volumes == pod.volumes \o InjectorVolumes(pod.annotations)
           secrets == pod.pullSecrets \o PullSecrets
           n == Len(pod.ctrs)
<1>1. n \in Nat /\ DOMAIN pod.ctrs = 1..n
  BY PodTypes
<1>2. /\ DOMAIN f = 1..n /\ f = [i \in 1..n |-> f[i]]
      /\ \A i \in 1..n : f[i] = Injected(pod.ctrs[i], pod.annotations, configs)
  BY <1>1
<1>3. new = [pod EXCEPT !.ctrs = ctrs, !.inits = pod.inits + 1, !.volumes = volumes,
                        !.pullSecrets = secrets, !.version = version]
  BY Zenon DEF InjectedPod
<1> HIDE DEF f
<1>4. ctrs[1] = CopyContainer /\ \A i \in 1..n : ctrs[i + 1] = f[i]
  BY <1>1, <1>2, AfterFirst
<1> HIDE DEF n, ctrs, volumes, secrets, new
<1>5. new.ctrs = ctrs /\ new.inits = pod.inits + 1 /\ new.volumes = volumes
  BY <1>3, PodTypes
<1> QED
  BY <1>2, <1>4, <1>5 DEF n, volumes, new

(* What becomes of one container of a pod.                                 *)
LEMMA MutatedContainer ==
  ASSUME NEW pod \in Pods, BuildEnabledProviders(pod.annotations) # <<>>,
         NEW configs \in FilterAndSortSecretConfigs(pod.annotations), NEW version,
         NEW i \in DOMAIN pod.ctrs
  PROVE  LET a   == pod.annotations
             ps  == BuildEnabledProviders(a)
             ctr == pod.ctrs[i]
             own == Argv(ctr, Images[ctr.image])
             new == InjectedPod(pod, configs, version).ctrs[i + 1]
         IN  /\ own \in Seq(Words) /\ ctr.mounts \in Seq(Words)
             /\ Told(ps, a, configs) \in Seq(Words)
             /\ ExtraVolumes(ps, a) \in Seq(Words)
             /\ new.cmd = <<Injector>>
             /\ new.args = Told(ps, a, configs) \o own
             /\ new.mounts = Append(ctr.mounts \o ExtraVolumes(ps, a), InjectorName)
<1> DEFINE a == pod.annotations
           ctr == pod.ctrs[i]
           new == InjectedPod(pod, configs, version).ctrs[i + 1]
<1>1. i \in 1..Len(pod.ctrs) /\ ctr \in Containers
  BY PodTypes
<1>2. new = Injected(ctr, a, configs)
  BY <1>1, InjectedPodIs
<1> HIDE DEF new, a, ctr
<1>3. BuildEnabledProviders(a) # <<>> /\ configs \in FilterAndSortSecretConfigs(a)
  BY DEF a
<1>4. Argv(ctr, Images[ctr.image]) \in Seq(Words) /\ ctr.mounts \in Seq(Words)
  BY <1>1, ContainerTypes
<1>5. /\ Told(BuildEnabledProviders(a), a, configs) \in Seq(Words)
      /\ ExtraVolumes(BuildEnabledProviders(a), a) \in Seq(Words)
      /\ Injected(ctr, a, configs).cmd = <<Injector>>
      /\ Injected(ctr, a, configs).args =
           Told(BuildEnabledProviders(a), a, configs) \o Argv(ctr, Images[ctr.image])
      /\ Injected(ctr, a, configs).mounts =
           Append(ctr.mounts \o ExtraVolumes(BuildEnabledProviders(a), a), InjectorName)
  BY <1>1, <1>3, InjectedContainer, Zenon
<1> QED
  BY <1>2, <1>4, <1>5 DEF a, ctr, new

-----------------------------------------------------------------------------
(* A container of a pod with one provider, and whatever it names of its    *)
(* command, runs in the end what it was meant to (main.go:244-271): the    *)
(* argument vector that Kubernetes would have run is the one the injector  *)
(* becomes, although it went through the review's copy of the pod.         *)
THEOREM CommandsKept == Spec => []OriginalCommandRuns
<1>1. ASSUME LoopInv, NEW r \in Requests, Mutated(r), Len(Handled(r)) = 1
      PROVE  KeepsCommands(r)
  <2> DEFINE pod == Orig(r)
             a == pod.annotations
             ps == Handled(r)
  <2>1. /\ pod \in Pods /\ ps \in Seq(Names) /\ ps[1] \in Names
        /\ BuildEnabledProviders(a) # <<>>
    BY <1>1, AdmittedPod DEF Mutated, Handled
  <2>2. PICK configs \in FilterAndSortSecretConfigs(a), version \in Baselines(pod) :
          req[r].pod = InjectedPod(pod, configs, version)
    BY <1>1, AdmittedPod
  <2> SUFFICES ASSUME NEW i \in DOMAIN pod.ctrs
               PROVE  ProcessArgv(req[r].pod.ctrs[i + 1], Images[pod.ctrs[i].image])
                        = Argv(pod.ctrs[i], Images[pod.ctrs[i].image])
    BY DEF KeepsCommands
  <2> DEFINE ctr == pod.ctrs[i]
             new == req[r].pod.ctrs[i + 1]
             own == Argv(ctr, Images[ctr.image])
             asks == Asks(ps[1], a, configs)
  <2>3. new = InjectedPod(pod, configs, version).ctrs[i + 1]
    BY <2>2
  <2>4. /\ new.cmd = <<Injector>> /\ new.args = Told(ps, a, configs) \o own
        /\ own \in Seq(Words)
    <3> DEFINE there == InjectedPod(pod, configs, version).ctrs[i + 1]
    <3>1. /\ there.cmd = <<Injector>> /\ there.args = Told(ps, a, configs) \o own
          /\ own \in Seq(Words)
      BY <2>1, MutatedContainer DEF Handled
    <3> HIDE DEF there, new, own, ps
    <3> QED
      BY <2>3, <3>1 DEF there
  <2>5. Told(ps, a, configs) = asks /\ asks \in Seq(Words)
    BY <1>1, <2>1, AsksTypes DEF Told
  <2>6. SelectInSeq(asks \o own, LAMBDA t : t = Separator) = Len(asks)
    BY <2>1, <2>4, FirstSeparator
  <2>7. Becomes(new.args) = SubSeq(asks \o own, Len(asks) + 1, Len(asks \o own))
    BY <2>4, <2>5, <2>6, Zenon DEF Becomes
  <2> HIDE DEF new, own, asks
  <2>8. Becomes(new.args) = own
    BY <2>4, <2>5, <2>7, SecondPart
  <2>9. ProcessArgv(new, Images[ctr.image]) = own
    BY <2>4, <2>8 DEF ProcessArgv
  <2> QED
    BY <2>9 DEF new, own
<1>2. LoopInv => OriginalCommandRuns
  BY <1>1 DEF OriginalCommandRuns
<1> QED
  BY <1>2, LoopInvariant, PTL

(* Whatever the order in which the annotations come out of their map, the  *)
(* injector of every container of a pod is told the same, and to fetch the *)
(* numbered secrets by number (vault.go:58-65, 140-142, 182-197).          *)
THEOREM SecretsOrdered == Spec => []SecretsInOrder
<1>1. ASSUME LoopInv, NEW r \in Requests, Mutated(r)
      PROVE  \E told \in Seq(Words) :
               /\ Ordered(told)
               /\ \A i \in DOMAIN Orig(r).ctrs :
                    LET own  == Argv(Orig(r).ctrs[i], Images[Orig(r).ctrs[i].image])
                        args == req[r].pod.ctrs[i + 1].args
                    IN  SubSeq(args, 1, Len(args) - Len(own)) = told
  <2> DEFINE pod == Orig(r)
             a == pod.annotations
             ps == Handled(r)
  <2>1. /\ pod \in Pods /\ ps \in Seq(Names) /\ Len(ps) \in 1..4 /\ IsInjective(ps)
        /\ BuildEnabledProviders(a) # <<>>
    BY <1>1, AdmittedPod DEF Mutated, Handled
  <2>2. PICK configs \in FilterAndSortSecretConfigs(a), version \in Baselines(pod) :
          req[r].pod = InjectedPod(pod, configs, version)
    BY <1>1, AdmittedPod
  <2> DEFINE told == Told(ps, a, configs)
  <2>3. Ordered(told)
    BY <2>1, ToldOrdered
  <2>4. ASSUME NEW i \in DOMAIN pod.ctrs
        PROVE  LET own  == Argv(pod.ctrs[i], Images[pod.ctrs[i].image])
                   args == req[r].pod.ctrs[i + 1].args
               IN  /\ told \in Seq(Words)
                   /\ SubSeq(args, 1, Len(args) - Len(own)) = told
    <3> DEFINE own == Argv(pod.ctrs[i], Images[pod.ctrs[i].image])
               args == req[r].pod.ctrs[i + 1].args
    <3>1. args = InjectedPod(pod, configs, version).ctrs[i + 1].args
      BY <2>2, Zenon
    <3>2. told \in Seq(Words) /\ own \in Seq(Words) /\ args = told \o own
      BY <2>1, <3>1, MutatedContainer DEF Handled
    <3> HIDE DEF told, own, args
    <3>3. Len(args) - Len(own) = Len(told)
      BY <3>2, ConcatProperties
    <3>4. SubSeq(args, 1, Len(args) - Len(own)) = told
      BY <3>2, <3>3, FirstPart
    <3> QED
      BY <3>2, <3>4 DEF own, args
  <2>5. 1 \in DOMAIN pod.ctrs
    BY <2>1, PodTypes, AdmissionAssumption
  <2> HIDE DEF told
  <2> QED
    BY <2>3, <2>4, <2>5
<1>2. ASSUME LoopInv, NEW r \in Requests, Mutated(r)
      PROVE  LET own(i)   == Argv(Orig(r).ctrs[i], Images[Orig(r).ctrs[i].image])
                 args(i)  == req[r].pod.ctrs[i + 1].args
                 told(i)  == SubSeq(args(i), 1, Len(args(i)) - Len(own(i)))
                 asked(i) == {j \in DOMAIN told(i) :
                                told(i)[j] \in DOMAIN SecretConfigNumber}
             IN  \A i \in DOMAIN Orig(r).ctrs :
                   /\ told(i) = told(1)
                   /\ \A j, k \in asked(i) : j < k =>
                        SecretConfigNumber[told(i)[j]] <= SecretConfigNumber[told(i)[k]]
  <2> DEFINE own(i)  == Argv(Orig(r).ctrs[i], Images[Orig(r).ctrs[i].image])
             args(i) == req[r].pod.ctrs[i + 1].args
             told(i) == SubSeq(args(i), 1, Len(args(i)) - Len(own(i)))
  <2>1. PICK all \in Seq(Words) : Ordered(all) /\ \A i \in DOMAIN Orig(r).ctrs : told(i) = all
    BY <1>1, <1>2
  <2>2. 1 \in DOMAIN Orig(r).ctrs
    BY <1>2, AdmittedPod, PodTypes, AdmissionAssumption
  <2>3. DOMAIN all = 1..Len(all)
    OBVIOUS
  <2> HIDE DEF told
  <2>4. \A i \in DOMAIN Orig(r).ctrs :
          /\ told(i) = told(1)
          /\ \A j, k \in {j \in DOMAIN told(i) : told(i)[j] \in DOMAIN SecretConfigNumber} :
               j < k => SecretConfigNumber[told(i)[j]] <= SecretConfigNumber[told(i)[k]]
    BY <2>1, <2>2, <2>3 DEF Ordered, Keys
  <2> QED
    BY <2>4, Zenon DEF told
<1>3. LoopInv => SecretsInOrder
  BY <1>2, Zenon DEF SecretsInOrder
<1> QED
  BY <1>3, LoopInvariant, PTL

-----------------------------------------------------------------------------
LEMMA PrefixOfConcat ==
  ASSUME NEW S, NEW s \in Seq(S), NEW t \in Seq(S)
  PROVE  IsPrefix(s, s \o t)
<1>1. Len(s) \in Nat /\ Len(t) \in Nat /\ Len(s \o t) = Len(s) + Len(t)
  BY ConcatProperties
<1>2. SubSeq(s \o t, 1, Len(s)) = s
  BY FirstPart
<1>3. SubSeq(s, 1, Len(s)) = s
  BY SubSeqFull
<1> HIDE DEF IsPrefix
<1>4. Len(s) <= Len(s \o t)
  BY <1>1
<1> QED
  BY <1>2, <1>3, <1>4, Zenon DEF IsPrefix

(* Every mount the webhook adds is of a volume it adds.                    *)
LEMMA MountsHaveVolumes ==
  ASSUME NEW old \in Seq(Words), NEW extra \in Seq(Words), NEW x \in Words
  PROVE  LET new   == Append(old \o extra, x)
             added == <<x>> \o extra
         IN  /\ IsPrefix(old, new) /\ Contains(new, x)
             /\ \A j \in DOMAIN new : j > Len(old) => Contains(added, new[j])
<1> DEFINE new == Append(old \o extra, x)
           added == <<x>> \o extra
           rest == extra \o <<x>>
<1>1. <<x>> \in Seq(Words) /\ Len(<<x>>) = 1 /\ <<x>>[1] = x
  OBVIOUS
<1>2. old \o extra \in Seq(Words) /\ rest \in Seq(Words) /\ added \in Seq(Words)
  BY <1>1, Concat
<1>3. new = (old \o extra) \o <<x>>
  BY <1>2, AppendIsConcatOf
<1>4. new = old \o rest
  <2>1. Associates(old, extra, <<x>>)
    BY <1>1, Associate
  <2> QED
    BY <1>3, <2>1, Zenon DEF Associates
<1>5. /\ Len(rest) = Len(extra) + 1 /\ rest[Len(extra) + 1] = x
      /\ \A k \in 1..Len(extra) : rest[k] = extra[k]
  BY <1>1, ConcatProperties
<1>6. /\ Len(added) = Len(extra) + 1 /\ added[1] = x
      /\ \A k \in 1..Len(extra) : added[k + 1] = extra[k]
  BY <1>1, ConcatProperties
<1> HIDE DEF rest, added
<1>7. /\ Len(old \o rest) = Len(old) + Len(rest) /\ old \o rest \in Seq(Words)
      /\ \A j \in 1..(Len(old) + Len(rest)) :
           (old \o rest)[j] = IF j <= Len(old) THEN old[j] ELSE rest[j - Len(old)]
  BY <1>2, ConcatProperties
<1>8. IsPrefix(old, old \o rest)
  BY <1>2, PrefixOfConcat
<1> DEFINE all == old \o rest
<1> HIDE DEF all, new
<1>9. Len(old) \in Nat /\ Len(extra) \in Nat
  OBVIOUS
<1>10. \A k \in 1..Len(rest) : Contains(added, rest[k])
  <2> SUFFICES ASSUME NEW k \in 1..Len(rest) PROVE Contains(added, rest[k])
    OBVIOUS
  <2>1. CASE k = Len(extra) + 1
    BY <1>5, <1>6, <1>9, <2>1 DEF Contains
  <2>2. CASE k # Len(extra) + 1
    <3>1. k \in 1..Len(extra)
      BY <1>5, <1>9, <2>2
    <3>2. added[k + 1] = rest[k] /\ k + 1 \in 1..Len(added)
      BY <1>5, <1>6, <1>9, <3>1
    <3> QED
      BY <3>2 DEF Contains
  <2> QED
    BY <2>1, <2>2
<1>11. DOMAIN all = 1..(Len(old) + Len(rest)) /\ Len(all) = Len(old) + Len(rest)
  BY <1>7 DEF all
<1>12. \A j \in DOMAIN all : j > Len(old) => Contains(added, all[j])
  <2> SUFFICES ASSUME NEW j \in DOMAIN all, j > Len(old) PROVE Contains(added, all[j])
    OBVIOUS
  <2>1. j - Len(old) \in 1..Len(rest) /\ all[j] = rest[j - Len(old)]
    BY <1>5, <1>7, <1>9, <1>11 DEF all
  <2> QED
    BY <1>10, <2>1
<1>13. Contains(all, x)
  <2>1. Len(old) + Len(rest) \in 1..Len(all)
    BY <1>5, <1>9, <1>11
  <2>2. all[Len(old) + Len(rest)] = x
    BY <1>5, <1>7, <1>9 DEF all
  <2> QED
    BY <2>1, <2>2 DEF Contains
<1> QED
  BY <1>4, <1>8, <1>12, <1>13 DEF all, new, added

(* The volumes the webhook adds are different ones.                        *)
LEMMA AddedVolumes ==
  ASSUME NEW a, BuildEnabledProviders(a) # <<>>,
         ExtraVolumes(BuildEnabledProviders(a), a) \in Seq(Words)
  PROVE  LET extra == ExtraVolumes(BuildEnabledProviders(a), a)
         IN  /\ InjectorVolumes(a) = <<InjectorName>> \o extra
             /\ InjectorVolumes(a) \in Seq(Words) /\ IsInjective(InjectorVolumes(a))
             /\ InjectorName \in Words
<1> DEFINE ps == BuildEnabledProviders(a)
           extra == ExtraVolumes(ps, a)
           first == <<InjectorName>>
<1>1. ps \in Seq(Names) /\ Len(ps) \in 1..4 /\ IsInjective(ps)
  <2>1. ps \in Seq(Names) /\ Len(ps) \in 0..4 /\ ps # <<>> /\ IsInjective(ps)
    BY EnabledTypes, EnabledInjective
  <2> HIDE DEF ps
  <2>2. Len(ps) # 0
    BY <2>1
  <2> QED
    BY <2>1, <2>2
<1>2. InjectorVolumes(a) = first \o extra
  BY DEF InjectorVolumes
<1>3. InjectorName \in Words
  BY DEF InjectorName, Words
<1>4. /\ first \in Seq(Words) /\ Len(first) = 1 /\ first[1] = InjectorName
      /\ DOMAIN first = {1}
  BY <1>3
<1> HIDE DEF ps, first
<1>5. IsInjective(extra) /\ Avoids(extra, {InjectorName})
  BY <1>1, ExtraVolumesInjective DEF InjectorName
<1>6. extra \in Seq(Words)
  BY DEF ps
<1> HIDE DEF extra
<1>7. IsInjective(first)
  BY <1>4 DEF IsInjective
<1>8. \A i \in DOMAIN first, j \in DOMAIN extra : first[i] # extra[j]
  BY <1>4, <1>5, <1>6 DEF Avoids
<1>9. IsInjective(first \o extra) /\ first \o extra \in Seq(Words)
  BY <1>4, <1>5, <1>6, <1>7, <1>8, ConcatInjective, Concat
<1> QED
  BY <1>2, <1>3, <1>9 DEF extra, ps, first

(* The injector and what it mounts are in place in every mutated pod,      *)
(* whatever providers it uses (main.go:278-286, 316-322).                  *)
THEOREM InjectorPlaced == Spec => []InjectorInPlace
<1>1. ASSUME LoopInv, NEW r \in Requests, Mutated(r)
      PROVE  LET pod   == req[r].pod
                 added == SubSeq(pod.volumes, Len(Orig(r).volumes) + 1, Len(pod.volumes))
             IN  /\ pod.inits = Orig(r).inits + 1 /\ pod.ctrs[1] = CopyContainer
                 /\ IsPrefix(Orig(r).volumes, pod.volumes)
                 /\ IsInjective(added)
                 /\ \A i \in DOMAIN Orig(r).ctrs :
                      LET old == Orig(r).ctrs[i].mounts
                          new == pod.ctrs[i + 1].mounts
                      IN  /\ IsPrefix(old, new) /\ Contains(new, InjectorName)
                          /\ \A j \in DOMAIN new :
                               j > Len(old) => Contains(added, new[j])
  <2> DEFINE orig == Orig(r)
             a == orig.annotations
             pod == req[r].pod
             added == SubSeq(pod.volumes, Len(orig.volumes) + 1, Len(pod.volumes))
             volumes == InjectorVolumes(a)
             extra == ExtraVolumes(BuildEnabledProviders(a), a)
  <2>1. orig \in Pods /\ BuildEnabledProviders(a) # <<>>
    BY <1>1, AdmittedPod DEF Mutated, Handled
  <2>2. PICK configs \in FilterAndSortSecretConfigs(a), version \in Baselines(orig) :
          pod = InjectedPod(orig, configs, version)
    BY <1>1, AdmittedPod
  <2>3. orig.volumes \in Seq(Words)
    <3>1. orig.volumes \in Seq(STRING)
      BY <2>1, AdmissionAssumption DEF Text
    <3> HIDE DEF orig
    <3> QED
      BY <3>1, TextIsWords
  <2>4. /\ volumes = <<InjectorName>> \o extra /\ volumes \in Seq(Words)
        /\ IsInjective(volumes) /\ extra \in Seq(Words) /\ InjectorName \in Words
    <3>1. 1 \in DOMAIN orig.ctrs
      BY <2>1, PodTypes, AdmissionAssumption
    <3>2. extra \in Seq(Words)
      BY <2>1, <3>1, MutatedContainer
    <3> HIDE DEF a
    <3> QED
      BY <2>1, <3>2, AddedVolumes
  <2>5. ASSUME NEW i \in DOMAIN orig.ctrs
        PROVE  /\ orig.ctrs[i].mounts \in Seq(Words)
               /\ pod.ctrs[i + 1].mounts =
                    Append(orig.ctrs[i].mounts \o extra, InjectorName)
    <3> DEFINE there == InjectedPod(orig, configs, version).ctrs[i + 1].mounts
               mounts == Append(orig.ctrs[i].mounts \o extra, InjectorName)
    <3>1. there = mounts /\ orig.ctrs[i].mounts \in Seq(Words)
      BY <2>1, MutatedContainer
    <3>2. there = pod.ctrs[i + 1].mounts
      BY <2>2
    <3> QED
      BY <3>1, <3>2, Zenon
  <2> HIDE DEF orig, pod, a, volumes, extra
  <2>6. /\ pod.ctrs[1] = CopyContainer /\ pod.inits = orig.inits + 1
        /\ pod.volumes = orig.volumes \o volumes
    <3> DEFINE there == InjectedPod(orig, configs, version)
    <3>1. /\ there.ctrs[1] = CopyContainer /\ there.inits = orig.inits + 1
          /\ there.volumes = orig.volumes \o volumes
      BY <2>1, InjectedPodIs DEF volumes, a
    <3> QED
      BY <2>2, <3>1, Zenon
  <2>7. added = volumes /\ IsPrefix(orig.volumes, pod.volumes)
    <3> DEFINE before == orig.volumes
    <3>1. before \in Seq(Words) /\ pod.volumes = before \o volumes
      BY <2>3, <2>6
    <3> HIDE DEF before
    <3>2. SubSeq(before \o volumes, Len(before) + 1, Len(before \o volumes)) = volumes
      BY <2>4, <3>1, SecondPart
    <3>3. IsPrefix(before, before \o volumes)
      BY <2>4, <3>1, PrefixOfConcat
    <3> QED
      BY <3>1, <3>2, <3>3, Zenon DEF before
  <2> HIDE DEF added
  <2>8. ASSUME NEW i \in DOMAIN orig.ctrs
        PROVE  LET old == orig.ctrs[i].mounts
                   new == pod.ctrs[i + 1].mounts
               IN  /\ IsPrefix(old, new) /\ Contains(new, InjectorName)
                   /\ \A j \in DOMAIN new : j > Len(old) => Contains(added, new[j])
    <3> DEFINE old == orig.ctrs[i].mounts
               new == pod.ctrs[i + 1].mounts
    <3>1. old \in Seq(Words) /\ new = Append(old \o extra, InjectorName)
      BY <2>5
    <3> HIDE DEF old, new
    <3>2. /\ IsPrefix(old, new) /\ Contains(new, InjectorName)
          /\ \A j \in DOMAIN new : j > Len(old) => Contains(added, new[j])
      BY <2>4, <2>7, <3>1, MountsHaveVolumes, Zenon
    <3> QED
      BY <3>2 DEF old, new
  <2> QED
    BY <2>4, <2>6, <2>7, <2>8, Zenon DEF orig, pod, added
<1>2. LoopInv => InjectorInPlace
  BY <1>1 DEF InjectorInPlace
<1> QED
  BY <1>2, LoopInvariant, PTL
=============================================================================
