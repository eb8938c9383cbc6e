-------------------------- MODULE ProvidersProofs ---------------------------
(***************************************************************************)
(* What the loops over the providers of a pod compute, for any             *)
(* annotations.                                                            *)
(***************************************************************************)
EXTENDS Providers, SequenceTheorems, FiniteSetTheorems, NaturalsInduction,
        WellFoundedInduction, TLAPS

-----------------------------------------------------------------------------
(* The first provider that does not validate.                              *)

LEMMA LeastElement ==
  ASSUME NEW S \in SUBSET Nat, S # {}
  PROVE  Min(S) \in S /\ \A i \in S : Min(S) <= i
<1>1. PICK i \in S : \A j \in S : ~(j < i)
  <2>1. IsWellFoundedOn(OpToRel(<, Nat), Nat)
    BY NatLessThanWellFounded
  <2>2. PICK i \in S : \A j \in S : ~(<<j, i>> \in OpToRel(<, Nat))
    BY <2>1, WFMin, Zenon
  <2> QED
    BY <2>2 DEF OpToRel
<1>2. \A j \in S : i <= j
  BY <1>1
<1> QED
  BY <1>2, Zenon DEF Min

LEMMA FirstInvalid ==
  ASSUME NEW ps, Len(ps) \in Nat, NEW a
  PROVE  LET bad == {i \in 1..Len(ps) : ~Valid(ps[i], a)}
             first == SelectInSeq(ps, LAMBDA p : ~Valid(p, a))
         IN  /\ first = 0 <=> bad = {}
             /\ first # 0 => first \in bad /\ \A i \in bad : first <= i
<1> DEFINE bad == {i \in 1..Len(ps) : ~Valid(ps[i], a)}
<1>1. bad \subseteq Nat /\ 0 \notin bad
  OBVIOUS
<1>2. SelectInSeq(ps, LAMBDA p : ~Valid(p, a)) = IF bad # {} THEN Min(bad) ELSE 0
  BY DEF SelectInSeq
<1> HIDE DEF bad
<1>3. /\ SelectInSeq(ps, LAMBDA p : ~Valid(p, a)) = 0 <=> bad = {}
      /\ bad # {} => /\ SelectInSeq(ps, LAMBDA p : ~Valid(p, a)) \in bad
                     /\ \A i \in bad : SelectInSeq(ps, LAMBDA p : ~Valid(p, a)) <= i
  BY <1>1, <1>2, LeastElement
<1> QED
  BY <1>3 DEF bad

-----------------------------------------------------------------------------
(* There are four providers, so that the loops can be unrolled.            *)

LEMMA FlattenUpToFour ==
  ASSUME NEW s, Len(s) \in 1..4
  PROVE  /\ Len(s) = 1 => FlattenSeq(s) = s[1]
         /\ Len(s) = 2 => FlattenSeq(s) = s[1] \o s[2]
         /\ Len(s) = 3 => FlattenSeq(s) = (s[1] \o s[2]) \o s[3]
         /\ Len(s) = 4 => FlattenSeq(s) = ((s[1] \o s[2]) \o s[3]) \o s[4]
<1> DEFINE join(x, y) == x \o y
           step(f) == [i \in 1..Len(s) |-> IF i = 1 THEN s[i] ELSE join(f[i - 1], s[i])]
           flatten == CHOOSE f : f = step(f)
           whole == [i \in 1..Len(s) |->
             IF i = 1 THEN s[1]
             ELSE IF i = 2 THEN join(s[1], s[2])
             ELSE IF i = 3 THEN join(join(s[1], s[2]), s[3])
             ELSE join(join(join(s[1], s[2]), s[3]), s[4])]
<1>1. FlattenSeq(s) = flatten[Len(s)]
  <2>1. FlattenSeq(s) = IF Len(s) = 0 THEN s ELSE flatten[Len(s)]
    BY Zenon DEF FlattenSeq
  <2>2. Len(s) # 0
    OBVIOUS
  <2> QED
    BY <2>1, <2>2, Zenon
<1> HIDE DEF join
<1>2. flatten = step(flatten)
  <2>1. whole = step(whole)
    <3>1. \A i \in 1..Len(s) : whole[i] = step(whole)[i]
      <4> SUFFICES ASSUME NEW i \in 1..Len(s)
                   PROVE  whole[i] = IF i = 1 THEN s[i] ELSE join(whole[i - 1], s[i])
        OBVIOUS
      <4>1. CASE i = 1
        BY <4>1
      <4>2. CASE i = 2
        BY <4>2
      <4>3. CASE i = 3
        BY <4>3
      <4>4. CASE i = 4
        BY <4>4
      <4> QED
        BY <4>1, <4>2, <4>3, <4>4
    <3> QED
      BY <3>1
  <2> HIDE DEF step, whole
  <2> QED
    BY <2>1, Zenon
<1> HIDE DEF flatten
<1>3. /\ flatten[1] = s[1]
      /\ Len(s) >= 2 => flatten[2] = join(flatten[1], s[2])
      /\ Len(s) >= 3 => flatten[3] = join(flatten[2], s[3])
      /\ Len(s) >= 4 => flatten[4] = join(flatten[3], s[4])
  BY <1>2
<1> HIDE DEF step
<1>4. Len(s) = 1 => flatten[Len(s)] = s[1]
  BY <1>3, Zenon
<1>5. Len(s) = 2 => flatten[Len(s)] = join(s[1], s[2])
  <2>1. Len(s) = 2 => Len(s) >= 2
    OBVIOUS
  <2> QED
    BY <1>3, <2>1, Zenon
<1>6. Len(s) = 3 => flatten[Len(s)] = join(join(s[1], s[2]), s[3])
  <2>1. Len(s) = 3 => Len(s) >= 2 /\ Len(s) >= 3
    OBVIOUS
  <2> QED
    BY <1>3, <2>1, Zenon
<1>7. Len(s) = 4 => flatten[Len(s)] = join(join(join(s[1], s[2]), s[3]), s[4])
  <2>1. Len(s) = 4 => Len(s) >= 2 /\ Len(s) >= 3 /\ Len(s) >= 4
    OBVIOUS
  <2> QED
    BY <1>3, <2>1, Zenon
<1> QED
  BY <1>1, <1>4, <1>5, <1>6, <1>7, Zenon DEF join

On(p, a) == IF EnabledKey[p] \in a THEN <<p>> ELSE <<>>

LEMMA EnabledUnrolled ==
  ASSUME NEW a
  PROVE  BuildEnabledProviders(a) =
           ((On("vault", a) \o On("aws", a)) \o On("azure", a)) \o On("gcp", a)
<1> DEFINE s == [i \in DOMAIN Registered |->
                   IF EnabledKey[Registered[i]] \in a THEN <<Registered[i]>> ELSE <<>>]
<1>1. Len(s) = 4 /\ 4 \in 1..4
  BY DEF Registered
<1>2. s[1] = On("vault", a) /\ s[2] = On("aws", a)
      /\ s[3] = On("azure", a) /\ s[4] = On("gcp", a)
  BY DEF Registered, On
<1>3. BuildEnabledProviders(a) = FlattenSeq(s)
  BY Zenon DEF BuildEnabledProviders
<1> HIDE DEF s
<1> QED
  BY <1>1, <1>2, <1>3, FlattenUpToFour, Zenon

LEMMA OnTypes ==
  ASSUME NEW s \in Seq(Names), NEW n \in Nat, Len(s) \in 0..n, NEW p \in Names, NEW a
  PROVE  s \o On(p, a) \in Seq(Names) /\ Len(s \o On(p, a)) \in 0..(n + 1)
<1> DEFINE t == On(p, a)
           k == Len(s)
           l == Len(t)
<1>1. t \in Seq(Names) /\ l \in 0..1
  BY DEF On
<1> HIDE DEF t
<1>2. s \o t \in Seq(Names) /\ Len(s \o t) = k + l
  BY <1>1
<1>3. k \in 0..n
  OBVIOUS
<1> HIDE DEF k, l
<1>4. k + l \in 0..(n + 1)
  BY <1>1, <1>3
<1> QED
  BY <1>2, <1>4, Zenon DEF t

LEMMA EnabledTypes ==
  ASSUME NEW a
  PROVE  /\ BuildEnabledProviders(a) \in Seq(Names)
         /\ Len(BuildEnabledProviders(a)) \in 0..4
<1>1. {"vault", "aws", "azure", "gcp"} \subseteq Names
  BY DEF Names, Registered, ToSet
<1> DEFINE s1 == <<>> \o On("vault", a)
           s2 == s1 \o On("aws", a)
           s3 == s2 \o On("azure", a)
           s4 == s3 \o On("gcp", a)
<1>2. s4 = BuildEnabledProviders(a)
  <2>1. On("vault", a) \in Seq(Names)
    <3>1. \A p \in Names : On(p, a) \in Seq(Names)
      BY DEF On
    <3> QED
      BY <1>1, <3>1
  <2>2. <<>> \o On("vault", a) = On("vault", a)
    BY <2>1
  <2> QED
    BY <2>2, EnabledUnrolled
<1>3. s1 \in Seq(Names) /\ Len(s1) \in 0..1
  <2>1. <<>> \in Seq(Names) /\ Len(<<>>) \in 0..0 /\ 0 \in Nat /\ 0 + 1 = 1
    OBVIOUS
  <2> QED
    BY <1>1, <2>1, OnTypes, Zenon
<1> HIDE DEF s1
<1>4. s2 \in Seq(Names) /\ Len(s2) \in 0..2
  <2>1. 1 \in Nat /\ 1 + 1 = 2
    OBVIOUS
  <2> QED
    BY <1>1, <1>3, <2>1, OnTypes, Zenon
<1> HIDE DEF s2
<1>5. s3 \in Seq(Names) /\ Len(s3) \in 0..3
  <2>1. 2 \in Nat /\ 2 + 1 = 3
    OBVIOUS
  <2> QED
    BY <1>1, <1>4, <2>1, OnTypes, Zenon
<1> HIDE DEF s3
<1>6. s4 \in Seq(Names) /\ Len(s4) \in 0..4
  <2>1. 3 \in Nat /\ 3 + 1 = 4
    OBVIOUS
  <2> QED
    BY <1>1, <1>5, <2>1, OnTypes, Zenon
<1> HIDE DEF s4
<1> QED
  BY <1>2, <1>6

LEMMA FirstInvalidEnabled ==
  ASSUME NEW a
  PROVE  LET ps == BuildEnabledProviders(a)
             first == SelectInSeq(ps, LAMBDA p : ~Valid(p, a))
         IN  /\ first = 0 <=> \A p \in ToSet(ps) : Valid(p, a)
             /\ first # 0 => /\ first \in DOMAIN ps /\ ~Valid(ps[first], a)
                            /\ \A i \in DOMAIN ps : ~Valid(ps[i], a) => first <= i
<1> DEFINE ps == BuildEnabledProviders(a)
<1>1. Len(ps) \in Nat /\ DOMAIN ps = 1..Len(ps)
  BY EnabledTypes
<1> HIDE DEF ps
<1>2. (\A p \in ToSet(ps) : Valid(p, a)) <=> {i \in 1..Len(ps) : ~Valid(ps[i], a)} = {}
  BY <1>1 DEF ToSet
<1> DEFINE first == SelectInSeq(ps, LAMBDA p : ~Valid(p, a))
<1>3. LET bad == {i \in 1..Len(ps) : ~Valid(ps[i], a)}
      IN  /\ first = 0 <=> bad = {}
          /\ first # 0 => first \in bad /\ \A i \in bad : first <= i
  BY <1>1, FirstInvalid, Zenon
<1> HIDE DEF first
<1>4. /\ first = 0 <=> \A p \in ToSet(ps) : Valid(p, a)
      /\ first # 0 => /\ first \in DOMAIN ps /\ ~Valid(ps[first], a)
                     /\ \A i \in DOMAIN ps : ~Valid(ps[i], a) => first <= i
  BY <1>1, <1>2, <1>3
<1> QED
  BY <1>4 DEF ps, first

-----------------------------------------------------------------------------
(* Sequences.                                                              *)

LEMMA FirstPart ==
  ASSUME NEW S, NEW s \in Seq(S), NEW t \in Seq(S)
  PROVE  SubSeq(s \o t, 1, Len(s)) = s
<1>1. Len(s) \in Nat
  OBVIOUS
<1> QED
  BY <1>1, SubSeqOfConcat1, SubSeqFull, SubSeqEmpty

LEMMA SecondPart ==
  ASSUME NEW S, NEW s \in Seq(S), NEW t \in Seq(S)
  PROVE  SubSeq(s \o t, Len(s) + 1, Len(s \o t)) = t
  BY ConcatProperties, SubSeqOfConcat2, SubSeqFull, SubSeqEmpty

LEMMA ConcatInjective ==
  ASSUME NEW S, NEW s \in Seq(S), NEW t \in Seq(S),
         IsInjective(s), IsInjective(t),
         \A i \in DOMAIN s, j \in DOMAIN t : s[i] # t[j]
  PROVE  IsInjective(s \o t)
  BY ConcatProperties DEF IsInjective

(* All of s is in T, or none of it.                                        *)
Within(s, T) == \A i \in 1..Len(s) : s[i] \in T
Avoids(s, T) == \A i \in 1..Len(s) : s[i] \notin T

LEMMA ConcatWithin ==
  ASSUME NEW S, NEW s \in Seq(S), NEW t \in Seq(S), NEW T
  PROVE  /\ Within(s, T) /\ Within(t, T) => Within(s \o t, T)
         /\ Avoids(s, T) /\ Avoids(t, T) => Avoids(s \o t, T)
  BY ConcatProperties DEF Within, Avoids

-----------------------------------------------------------------------------
(* No provider is enabled twice.                                           *)

LEMMA OnInjective ==
  ASSUME NEW s \in Seq(Names), IsInjective(s), NEW T, Within(s, T),
         NEW p \in Names \ T, NEW a
  PROVE  /\ s \o On(p, a) \in Seq(Names)
         /\ IsInjective(s \o On(p, a))
         /\ Within(s \o On(p, a), T \cup {p})
<1> DEFINE t == On(p, a)
<1>1. t \in Seq(Names) /\ IsInjective(t) /\ Within(t, {p})
  BY DEF On, IsInjective, Within
<1> HIDE DEF t
<1>2. s \o t \in Seq(Names)
  BY <1>1
<1>3. IsInjective(s \o t)
  <2>1. \A i \in DOMAIN s, j \in DOMAIN t : s[i] # t[j]
    BY <1>1 DEF Within
  <2> QED
    BY <1>1, <2>1, ConcatInjective
<1>4. Within(s, T \cup {p}) /\ Within(t, T \cup {p})
  BY <1>1 DEF Within
<1>5. Within(s \o t, T \cup {p})
  BY <1>1, <1>4, ConcatWithin
<1> QED
  BY <1>2, <1>3, <1>5 DEF t

LEMMA EnabledInjective ==
  ASSUME NEW a
  PROVE  IsInjective(BuildEnabledProviders(a))
<1>1. {"vault", "aws", "azure", "gcp"} \subseteq Names
  BY DEF Names, Registered, ToSet
<1> DEFINE s0 == <<>>
           s1 == s0 \o On("vault", a)
           s2 == s1 \o On("aws", a)
           s3 == s2 \o On("azure", a)
           s4 == s3 \o On("gcp", a)
<1>2. s4 = BuildEnabledProviders(a)
  <2>1. On("vault", a) \in Seq(Names)
    BY <1>1 DEF On
  <2>2. s0 \o On("vault", a) = On("vault", a)
    BY <2>1
  <2> QED
    BY <2>2, EnabledUnrolled
<1>3. s0 \in Seq(Names) /\ IsInjective(s0) /\ Within(s0, {})
  BY DEF IsInjective, Within
<1> HIDE DEF s0
<1>4. s1 \in Seq(Names) /\ IsInjective(s1) /\ Within(s1, {"vault"})
  <2>1. {} \cup {"vault"} = {"vault"}
    OBVIOUS
  <2> QED
    BY <1>1, <1>3, <2>1, OnInjective
<1> HIDE DEF s1
<1>5. s2 \in Seq(Names) /\ IsInjective(s2) /\ Within(s2, {"vault", "aws"})
  <2>1. {"vault"} \cup {"aws"} = {"vault", "aws"}
    OBVIOUS
  <2> QED
    BY <1>1, <1>4, <2>1, OnInjective
<1> HIDE DEF s2
<1>6. s3 \in Seq(Names) /\ IsInjective(s3) /\ Within(s3, {"vault", "aws", "azure"})
  <2>1. {"vault", "aws"} \cup {"azure"} = {"vault", "aws", "azure"}
    OBVIOUS
  <2> QED
    BY <1>1, <1>5, <2>1, OnInjective
<1> HIDE DEF s3
<1>7. IsInjective(s4)
  BY <1>1, <1>6, OnInjective
<1> QED
  BY <1>2, <1>7

-----------------------------------------------------------------------------
(* What the loop over the providers makes of a container.                  *)

LEMMA MutateUpToFour ==
  ASSUME NEW ctr, NEW ps, NEW a, NEW configs, Len(ps) \in 1..4
  PROVE  LET by(c, n) == MutateContainer(c, ps[n], a, configs)
             all      == MutateByAll(ctr, ps, a, configs)
         IN  /\ Len(ps) = 1 => all = by(ctr, 1)
             /\ Len(ps) = 2 => all = by(by(ctr, 1), 2)
             /\ Len(ps) = 3 => all = by(by(by(ctr, 1), 2), 3)
             /\ Len(ps) = 4 => all = by(by(by(by(ctr, 1), 2), 3), 4)
<1> DEFINE by(c, n) == MutateContainer(c, ps[n], a, configs)
           step(f) == [n \in 0..Len(ps) |-> IF n = 0 THEN ctr ELSE by(f[n - 1], n)]
           after == CHOOSE f : f = step(f)
           whole == [n \in 0..Len(ps) |->
             IF n = 0 THEN ctr
             ELSE IF n = 1 THEN by(ctr, 1)
             ELSE IF n = 2 THEN by(by(ctr, 1), 2)
             ELSE IF n = 3 THEN by(by(by(ctr, 1), 2), 3)
             ELSE by(by(by(by(ctr, 1), 2), 3), 4)]
<1>1. MutateByAll(ctr, ps, a, configs) = after[Len(ps)]
  BY Zenon DEF MutateByAll
<1> HIDE DEF by
<1>2. after = step(after)
  <2>1. whole = step(whole)
    <3>1. \A n \in 0..Len(ps) : whole[n] = step(whole)[n]
      <4> SUFFICES ASSUME NEW n \in 0..Len(ps)
                   PROVE  whole[n] = IF n = 0 THEN ctr ELSE by(whole[n - 1], n)
        OBVIOUS
      <4>1. CASE n = 0
        BY <4>1
      <4>2. CASE n = 1
        BY <4>2
      <4>3. CASE n = 2
        BY <4>3
      <4>4. CASE n = 3
        BY <4>4
      <4>5. CASE n = 4
        BY <4>5
      <4> QED
        BY <4>1, <4>2, <4>3, <4>4, <4>5
    <3> QED
      BY <3>1
  <2> HIDE DEF step, whole
  <2> QED
    BY <2>1, Zenon
<1> HIDE DEF after
<1>3. /\ after[0] = ctr
      /\ after[1] = by(after[0], 1)
      /\ Len(ps) >= 2 => after[2] = by(after[1], 2)
      /\ Len(ps) >= 3 => after[3] = by(after[2], 3)
      /\ Len(ps) >= 4 => after[4] = by(after[3], 4)
  BY <1>2
<1> HIDE DEF step
<1>4. /\ Len(ps) = 2 => Len(ps) >= 2
      /\ Len(ps) = 3 => Len(ps) >= 2 /\ Len(ps) >= 3
      /\ Len(ps) = 4 => Len(ps) >= 2 /\ Len(ps) >= 3 /\ Len(ps) >= 4
  <2>1. Len(ps) = 2 => Len(ps) >= 2
    OBVIOUS
  <2>2. Len(ps) = 3 => Len(ps) >= 2 /\ Len(ps) >= 3
    OBVIOUS
  <2>3. Len(ps) = 4 => Len(ps) >= 2 /\ Len(ps) >= 3 /\ Len(ps) >= 4
    OBVIOUS
  <2> QED
    BY <2>1, <2>2, <2>3
<1>5. /\ Len(ps) = 1 => after[Len(ps)] = by(ctr, 1)
      /\ Len(ps) = 2 => after[Len(ps)] = by(by(ctr, 1), 2)
  BY <1>3, <1>4, Zenon
<1>6. /\ Len(ps) = 3 => after[Len(ps)] = by(by(by(ctr, 1), 2), 3)
      /\ Len(ps) = 4 => after[Len(ps)] = by(by(by(by(ctr, 1), 2), 3), 4)
  BY <1>3, <1>4, Zenon
<1> QED
  BY <1>1, <1>5, <1>6, Zenon DEF by

(* What one provider puts before the arguments of a container.             *)
Asks(p, a, configs) == ProviderArgs(p, a, configs) \o <<Separator>>

(* What all of them put there, the last one first.                         *)
Told(ps, a, configs) ==
  LET asks(n) == Asks(ps[n], a, configs)
  IN  IF Len(ps) = 1 THEN asks(1)
      ELSE IF Len(ps) = 2 THEN asks(2) \o asks(1)
      ELSE IF Len(ps) = 3 THEN asks(3) \o (asks(2) \o asks(1))
      ELSE asks(4) \o (asks(3) \o (asks(2) \o asks(1)))

(* new is ctr told to ask for told and given the mounts.                   *)
Extends(new, ctr, told, mounts) ==
  /\ DOMAIN new = DOMAIN ctr
  /\ new.cmd = ctr.cmd
  /\ new.args = told \o ctr.args
  /\ new.mounts = ctr.mounts \o mounts

(* Every string is in STRING, but the provers do not know that the         *)
(* literals are: Words names those of Providers.                           *)
Flags ==
  {"vault", "aws", "azure", "gcp", "--role", "--kubernetes-backend",
   "--token-path", "--path", "--names-as-keys", "--version", "--region",
   "--secret-name", "--role-arn", "--previous-version", "--azure-vault-name",
   "--project-id", "--secret-version", "--google-application-credentials"}

Words ==
  STRING \cup Flags \cup DOMAIN SecretConfigNumber
    \cup {Separator, "vault-tls", "google-cloud-key", "k8s-secret-injector"}

LEMMA TextIsWords == ASSUME NEW s \in Seq(STRING) PROVE s \in Seq(Words)
<1>1. STRING \subseteq Words
  BY DEF Words
<1> QED
  BY <1>1, SeqMonotonic

LEMMA Concat ==
  ASSUME NEW S, NEW s \in Seq(S), NEW t \in Seq(S) PROVE s \o t \in Seq(S)
  OBVIOUS

Associates(s, t, u) == (s \o t) \o u = s \o (t \o u)

LEMMA Associate == \A s, t, u \in Seq(Words) : Associates(s, t, u)
  BY ConcatAssociative DEF Associates

LEMMA FourAreFinite == ASSUME NEW w, NEW x, NEW y, NEW z PROVE IsFiniteSet({w, x, y, z})
<1>1. IsFiniteSet({} \cup {w})
  BY FS_EmptySet, FS_AddElement
<1>2. IsFiniteSet(({} \cup {w}) \cup {x})
  BY <1>1, FS_AddElement
<1>3. IsFiniteSet((({} \cup {w}) \cup {x}) \cup {y})
  BY <1>2, FS_AddElement
<1>4. IsFiniteSet(((({} \cup {w}) \cup {x}) \cup {y}) \cup {z})
  BY <1>3, FS_AddElement
<1>5. {w, x, y, z} = ((({} \cup {w}) \cup {x}) \cup {y}) \cup {z}
  OBVIOUS
<1> QED
  BY <1>4, <1>5

LEMMA ConfigsTypes ==
  ASSUME NEW a, NEW configs \in FilterAndSortSecretConfigs(a)
  PROVE  configs \in Seq(DOMAIN SecretConfigNumber)
<1>1. /\ SecretConfigs(a) \subseteq DOMAIN SecretConfigNumber
      /\ IsFiniteSet(DOMAIN SecretConfigNumber)
  BY FourAreFinite DEF SecretConfigs, SecretConfigNumber
<1>2. Cardinality(SecretConfigs(a)) \in Nat
  BY <1>1, FS_Subset, FS_CardinalityType
<1>3. configs \in [1..Cardinality(SecretConfigs(a)) -> SecretConfigs(a)]
  BY Zenon DEF FilterAndSortSecretConfigs, SetToSeqs
<1>4. configs \in Seq(SecretConfigs(a))
  BY <1>2, <1>3
<1> QED
  BY <1>1, <1>4, SeqMonotonic

LEMMA FlagType ==
  ASSUME NEW S, NEW name \in S, NEW key, NEW a PROVE Flag(name, key, a) \in Seq(S)
  BY DEF Flag

LEMMA ArgsTypes ==
  ASSUME NEW p \in Names, NEW a, NEW configs,
         NEW S, Flags \subseteq S, p = "vault" => configs \in Seq(S)
  PROVE  ProviderArgs(p, a, configs) \in Seq(S)
<1>1. p \in {"vault", "aws", "azure", "gcp"}
  BY DEF Names, Registered, ToSet
<1>2. {"vault", "aws", "azure", "gcp", "--role", "--kubernetes-backend",
       "--token-path", "--path", "--names-as-keys", "--version", "--region",
       "--secret-name", "--role-arn", "--previous-version", "--azure-vault-name",
       "--project-id", "--secret-version", "--google-application-credentials"}
        \subseteq S
  BY DEF Flags
<1>3. \A x, y \in S : <<x, y>> \in Seq(S) /\ <<x>> \in Seq(S)
  OBVIOUS
<1>4. configs \in Seq(S) => VaultArgs(a, configs) \in Seq(S)
  BY <1>2, <1>3, Concat, FlagType DEF VaultArgs
<1>5. AWSArgs(a) \in Seq(S)
  BY <1>2, <1>3, Concat, FlagType DEF AWSArgs
<1>6. AzureArgs \in Seq(S)
  BY <1>2, <1>3 DEF AzureArgs
<1>7. GCPArgs(a) \in Seq(S)
  BY <1>2, <1>3, Concat, FlagType DEF GCPArgs
<1> QED
  BY <1>1, <1>4, <1>5, <1>6, <1>7 DEF ProviderArgs

LEMMA AsksTypes ==
  ASSUME NEW p \in Names, NEW a, NEW configs \in FilterAndSortSecretConfigs(a)
  PROVE  /\ ProviderArgs(p, a, configs) \in Seq(Flags \cup DOMAIN SecretConfigNumber)
         /\ ProviderArgs(p, a, configs) \in Seq(Words)
         /\ p # "vault" => ProviderArgs(p, a, configs) \in Seq(Flags)
         /\ Asks(p, a, configs) \in Seq(Words)
<1> DEFINE args == ProviderArgs(p, a, configs)
           S == Flags \cup DOMAIN SecretConfigNumber
<1>1. Flags \subseteq S /\ DOMAIN SecretConfigNumber \subseteq S
      /\ S \subseteq Words /\ Separator \in Words
  BY DEF Words
<1> HIDE DEF S
<1>2. configs \in Seq(S)
  BY <1>1, ConfigsTypes, SeqMonotonic
<1>3. args \in Seq(S) /\ (p # "vault" => args \in Seq(Flags))
  BY <1>1, <1>2, ArgsTypes
<1> HIDE DEF args
<1>4. args \in Seq(Words)
  BY <1>1, <1>3, SeqMonotonic
<1>5. args \o <<Separator>> \in Seq(Words)
  BY <1>1, <1>4
<1> QED
  BY <1>3, <1>4, <1>5 DEF args, S, Asks

LEMMA VolumesTypes ==
  ASSUME NEW p \in Names, NEW a
  PROVE  ProviderVolumes(p, a) \in Seq(Words)
<1> DEFINE S == Words
<1>1. p \in {"vault", "aws", "azure", "gcp"} /\ {"vault-tls", "google-cloud-key"} \subseteq S
  BY DEF Names, Registered, ToSet, Words
<1> HIDE DEF S
<1>2. \A x \in S : <<x>> \in Seq(S) /\ <<>> \in Seq(S)
  OBVIOUS
<1>3. ProviderVolumes(p, a) \in Seq(S)
  BY <1>1, <1>2 DEF ProviderVolumes, VaultVolumes, GCPVolumes
<1> QED
  BY <1>3 DEF S

LEMMA ExtendsOnce ==
  ASSUME NEW ctr, {"cmd", "args", "mounts", "env"} \subseteq DOMAIN ctr,
         ctr.args \in Seq(Words), ctr.mounts \in Seq(Words),
         NEW told \in Seq(Words), NEW mounts \in Seq(Words),
         NEW new, Extends(new, ctr, told, mounts),
         NEW p \in Names, NEW a, NEW configs \in FilterAndSortSecretConfigs(a)
  PROVE  Extends(MutateContainer(new, p, a, configs), ctr,
                 Asks(p, a, configs) \o told, mounts \o ProviderVolumes(p, a))
<1> DEFINE asks == Asks(p, a, configs)
           more == ProviderVolumes(p, a)
           next == MutateContainer(new, p, a, configs)
<1>1. asks \in Seq(Words) /\ more \in Seq(Words)
  BY AsksTypes, VolumesTypes
<1>2. /\ DOMAIN next = DOMAIN new /\ next.cmd = new.cmd
      /\ next.args = asks \o new.args
      /\ next.mounts = new.mounts \o more
  BY DEF MutateContainer, Extends, Asks
<1> HIDE DEF asks, more, next
<1>3. next.args = (asks \o told) \o ctr.args
  <2>1. next.args = asks \o (told \o ctr.args)
    BY <1>2, Zenon DEF Extends
  <2>2. Associates(asks, told, ctr.args)
    BY <1>1, Associate
  <2> QED
    BY <2>1, <2>2, Zenon DEF Associates
<1>4. next.mounts = ctr.mounts \o (mounts \o more)
  <2>1. next.mounts = (ctr.mounts \o mounts) \o more
    BY <1>2, Zenon DEF Extends
  <2>2. Associates(ctr.mounts, mounts, more)
    BY <1>1, Associate
  <2> QED
    BY <2>1, <2>2, Zenon DEF Associates
<1>5. DOMAIN next = DOMAIN ctr /\ next.cmd = ctr.cmd
  BY <1>2, Zenon DEF Extends
<1> QED
  BY <1>3, <1>4, <1>5, Zenon DEF Extends, asks, more, next

LEMMA ExtraVolumesUnrolled ==
  ASSUME NEW ps, NEW a, DOMAIN ps = 1..Len(ps), Len(ps) \in 1..4
  PROVE  LET v(n) == ProviderVolumes(ps[n], a)
         IN  /\ Len(ps) = 1 => ExtraVolumes(ps, a) = v(1)
             /\ Len(ps) = 2 => ExtraVolumes(ps, a) = v(1) \o v(2)
             /\ Len(ps) = 3 => ExtraVolumes(ps, a) = (v(1) \o v(2)) \o v(3)
             /\ Len(ps) = 4 => ExtraVolumes(ps, a) = ((v(1) \o v(2)) \o v(3)) \o v(4)
<1> DEFINE v(n) == ProviderVolumes(ps[n], a)
           s == [j \in DOMAIN ps |-> v(j)]
<1>1. ExtraVolumes(ps, a) = FlattenSeq(s)
  BY Zenon DEF ExtraVolumes
<1> HIDE DEF v
<1>2. Len(s) = Len(ps)
  OBVIOUS
<1>3. /\ s[1] = v(1)
      /\ Len(ps) >= 2 => s[2] = v(2)
      /\ Len(ps) >= 3 => s[3] = v(3)
      /\ Len(ps) >= 4 => s[4] = v(4)
  OBVIOUS
<1> HIDE DEF s
<1>4. /\ Len(ps) = 1 => FlattenSeq(s) = s[1]
      /\ Len(ps) = 2 => FlattenSeq(s) = s[1] \o s[2]
      /\ Len(ps) = 3 => FlattenSeq(s) = (s[1] \o s[2]) \o s[3]
      /\ Len(ps) = 4 => FlattenSeq(s) = ((s[1] \o s[2]) \o s[3]) \o s[4]
  <2>1. Len(s) \in 1..4
    BY <1>2
  <2> QED
    BY <1>2, <2>1, FlattenUpToFour, Zenon
<1>5. /\ Len(ps) = 2 => s[2] = v(2)
      /\ Len(ps) = 3 => s[2] = v(2) /\ s[3] = v(3)
      /\ Len(ps) = 4 => s[2] = v(2) /\ s[3] = v(3) /\ s[4] = v(4)
  BY <1>3
<1> QED
  BY <1>1, <1>3, <1>4, <1>5, Zenon DEF v

(* The container is told what its providers ask for before its own         *)
(* arguments, and mounts their volumes after its own.                      *)
LEMMA MutatedByAll ==
  ASSUME NEW ctr, {"cmd", "args", "mounts", "env"} \subseteq DOMAIN ctr,
         ctr.args \in Seq(Words), ctr.mounts \in Seq(Words),
         NEW ps \in Seq(Names), Len(ps) \in 1..4,
         NEW a, NEW configs \in FilterAndSortSecretConfigs(a)
  PROVE  /\ Told(ps, a, configs) \in Seq(Words)
         /\ ExtraVolumes(ps, a) \in Seq(Words)
         /\ Extends(MutateByAll(ctr, ps, a, configs), ctr,
                    Told(ps, a, configs), ExtraVolumes(ps, a))
<1> DEFINE by(c, n) == MutateContainer(c, ps[n], a, configs)
           asks(n) == Asks(ps[n], a, configs)
           v(n) == ProviderVolumes(ps[n], a)
           all == MutateByAll(ctr, ps, a, configs)
           told == Told(ps, a, configs)
           volumes == ExtraVolumes(ps, a)
           c1 == by(ctr, 1)
           c2 == by(c1, 2)
           c3 == by(c2, 3)
           c4 == by(c3, 4)
           t1 == asks(1)
           t2 == asks(2) \o t1
           t3 == asks(3) \o t2
           t4 == asks(4) \o t3
           v1 == v(1)
           v2 == v1 \o v(2)
           v3 == v2 \o v(3)
           v4 == v3 \o v(4)
<1>1. /\ Len(ps) = 1 => all = c1 /\ told = t1 /\ volumes = v1
      /\ Len(ps) = 2 => all = c2 /\ told = t2 /\ volumes = v2
      /\ Len(ps) = 3 => all = c3 /\ told = t3 /\ volumes = v3
      /\ Len(ps) = 4 => all = c4 /\ told = t4 /\ volumes = v4
  <2>1. /\ Len(ps) = 1 => all = c1
        /\ Len(ps) = 2 => all = c2
        /\ Len(ps) = 3 => all = c3
        /\ Len(ps) = 4 => all = c4
    BY MutateUpToFour
  <2>2. DOMAIN ps = 1..Len(ps)
    OBVIOUS
  <2>3. /\ Len(ps) = 1 => volumes = v1
        /\ Len(ps) = 2 => volumes = v2
        /\ Len(ps) = 3 => volumes = v3
        /\ Len(ps) = 4 => volumes = v4
    BY <2>2, ExtraVolumesUnrolled, Zenon
  <2>4. /\ Len(ps) = 1 => told = t1
        /\ Len(ps) = 2 => told = t2
        /\ Len(ps) = 3 => told = t3
        /\ Len(ps) = 4 => told = t4
    <3>1. 2 # 1 /\ 3 # 1 /\ 3 # 2 /\ 4 # 1 /\ 4 # 2 /\ 4 # 3
      OBVIOUS
    <3> QED
      BY <3>1, Zenon DEF Told
  <2> QED
    BY <2>1, <2>3, <2>4, Zenon
<1>2. ASSUME NEW n \in 1..Len(ps)
      PROVE  ps[n] \in Names /\ asks(n) \in Seq(Words) /\ v(n) \in Seq(Words)
  <2>1. ps[n] \in Names
    OBVIOUS
  <2> QED
    BY <2>1, AsksTypes, VolumesTypes
<1>3. ASSUME NEW n \in 1..Len(ps), NEW c, NEW t \in Seq(Words), NEW m \in Seq(Words),
             Extends(c, ctr, t, m)
      PROVE  /\ asks(n) \o t \in Seq(Words) /\ m \o v(n) \in Seq(Words)
             /\ Extends(by(c, n), ctr, asks(n) \o t, m \o v(n))
  <2>1. asks(n) \o t \in Seq(Words) /\ m \o v(n) \in Seq(Words)
    BY <1>2, Concat
  <2> QED
    BY <1>2, <1>3, <2>1, ExtendsOnce
<1>4. t1 \in Seq(Words) /\ v1 \in Seq(Words) /\ Extends(c1, ctr, t1, v1)
  <2>1. t1 \in Seq(Words) /\ v1 \in Seq(Words)
    BY <1>2
  <2>2. /\ DOMAIN c1 = DOMAIN ctr /\ c1.cmd = ctr.cmd
        /\ c1.args = t1 \o ctr.args /\ c1.mounts = ctr.mounts \o v1
    BY DEF MutateContainer, Asks
  <2> QED
    BY <2>1, <2>2 DEF Extends
<1> HIDE DEF by, asks, v, all, told, volumes, c1, t1, v1
<1>5. Len(ps) >= 2 => t2 \in Seq(Words) /\ v2 \in Seq(Words) /\ Extends(c2, ctr, t2, v2)
  BY <1>3, <1>4
<1> HIDE DEF c2, t2, v2
<1>6. Len(ps) >= 3 => t3 \in Seq(Words) /\ v3 \in Seq(Words) /\ Extends(c3, ctr, t3, v3)
  BY <1>3, <1>5
<1> HIDE DEF c3, t3, v3
<1>7. Len(ps) >= 4 => t4 \in Seq(Words) /\ v4 \in Seq(Words) /\ Extends(c4, ctr, t4, v4)
  BY <1>3, <1>6
<1> HIDE DEF c4, t4, v4
<1>8. told \in Seq(Words) /\ volumes \in Seq(Words) /\ Extends(all, ctr, told, volumes)
  <2>1. CASE Len(ps) = 1
    BY <1>1, <1>4, <2>1
  <2>2. CASE Len(ps) = 2
    BY <1>1, <1>5, <2>2
  <2>3. CASE Len(ps) = 3
    BY <1>1, <1>6, <2>3
  <2>4. CASE Len(ps) = 4
    BY <1>1, <1>7, <2>4
  <2>5. Len(ps) = 1 \/ Len(ps) = 2 \/ Len(ps) = 3 \/ Len(ps) = 4
    OBVIOUS
  <2> QED
    BY <2>1, <2>2, <2>3, <2>4, <2>5
<1> QED
  BY <1>8 DEF all, told, volumes

-----------------------------------------------------------------------------
(* The first separator is the one after the arguments of the last          *)
(* provider.                                                               *)

LEMMA FirstSeparator ==
  ASSUME NEW p \in Names, NEW a, NEW configs \in FilterAndSortSecretConfigs(a),
         NEW own \in Seq(Words)
  PROVE  SelectInSeq(Asks(p, a, configs) \o own, LAMBDA t : t = Separator)
           = Len(Asks(p, a, configs))
<1> DEFINE S == Flags \cup DOMAIN SecretConfigNumber
           args == ProviderArgs(p, a, configs)
           asks == Asks(p, a, configs)
           whole == asks \o own
           n == Len(asks)
           at == {i \in 1..Len(whole) : whole[i] = Separator}
<1>1. Separator \notin S
  BY DEF Flags, SecretConfigNumber, Separator
<1>2. args \in Seq(S) /\ asks \in Seq(Words)
  BY AsksTypes
<1> HIDE DEF S, args
<1>3. /\ asks = args \o <<Separator>> /\ Len(args) \in Nat
      /\ n = Len(args) + 1 /\ asks[n] = Separator
      /\ \A i \in 1..Len(args) : asks[i] # Separator
  <2>1. asks = args \o <<Separator>>
    BY DEF Asks, args
  <2> HIDE DEF asks
  <2> QED
    BY <1>1, <1>2, <2>1
<1> HIDE DEF asks
<1>4. /\ Len(whole) = n + Len(own) /\ Len(own) \in Nat
      /\ \A i \in 1..n : whole[i] = asks[i]
  BY <1>2
<1> HIDE DEF whole
<1>5. n \in at /\ at \in SUBSET Nat /\ \A i \in at : n <= i
  BY <1>3, <1>4
<1> HIDE DEF n, at
<1>6. Min(at) \in at /\ Min(at) <= n
  BY <1>5, LeastElement
<1>7. Min(at) = n
  <2> DEFINE m == Min(at)
  <2>1. m \in at /\ m <= n
    BY <1>6
  <2> HIDE DEF m
  <2>2. m \in Nat /\ n \in Nat /\ n <= m
    BY <1>5, <2>1
  <2>3. m = n
    BY <2>1, <2>2
  <2> QED
    BY <2>3 DEF m
<1>8. SelectInSeq(whole, LAMBDA t : t = Separator) = IF at # {} THEN Min(at) ELSE 0
  BY DEF SelectInSeq, at
<1> QED
  BY <1>5, <1>7, <1>8, Zenon DEF whole, asks, n

-----------------------------------------------------------------------------
(* The numbered secrets are asked for by number.                           *)

Keys == DOMAIN SecretConfigNumber

Ordered(s) ==
  \A i, j \in 1..Len(s) : s[i] \in Keys /\ s[j] \in Keys /\ i < j =>
    SecretConfigNumber[s[i]] <= SecretConfigNumber[s[j]]

LEMMA AvoidsByType ==
  ASSUME NEW S, NEW T, S \cap T = {}, NEW s \in Seq(S)
  PROVE  Avoids(s, T)
  BY DEF Avoids

LEMMA OrderedConcat ==
  ASSUME NEW S, NEW s \in Seq(S), NEW t \in Seq(S)
  PROVE  /\ Ordered(s) /\ Avoids(t, Keys) => Ordered(s \o t)
         /\ Avoids(s, Keys) /\ Ordered(t) => Ordered(s \o t)
<1>1. CASE Ordered(s) /\ Avoids(t, Keys)
  <2>1. \A i \in 1..Len(s \o t) : (s \o t)[i] \in Keys =>
          i \in 1..Len(s) /\ (s \o t)[i] = s[i]
    BY <1>1, ConcatProperties DEF Avoids
  <2> QED
    BY <1>1, <2>1 DEF Ordered
<1>2. CASE Avoids(s, Keys) /\ Ordered(t)
  <2>1. \A i \in 1..Len(s \o t) : (s \o t)[i] \in Keys =>
          i - Len(s) \in 1..Len(t) /\ (s \o t)[i] = t[i - Len(s)]
    BY <1>2, ConcatProperties DEF Avoids
  <2>2. ASSUME NEW i \in 1..Len(s \o t), NEW j \in 1..Len(s \o t),
               (s \o t)[i] \in Keys, (s \o t)[j] \in Keys, i < j
        PROVE  SecretConfigNumber[(s \o t)[i]] <= SecretConfigNumber[(s \o t)[j]]
    <3>1. /\ i - Len(s) \in 1..Len(t) /\ (s \o t)[i] = t[i - Len(s)]
          /\ j - Len(s) \in 1..Len(t) /\ (s \o t)[j] = t[j - Len(s)]
      BY <2>1, <2>2
    <3>2. i - Len(s) < j - Len(s)
      <4>1. i \in Int /\ j \in Int /\ Len(s) \in Int
        OBVIOUS
      <4> QED
        BY <2>2, <4>1
    <3>3. SecretConfigNumber[t[i - Len(s)]] <= SecretConfigNumber[t[j - Len(s)]]
      BY <1>2, <2>2, <3>1, <3>2, Zenon DEF Ordered
    <3> QED
      BY <3>1, <3>3, Zenon
  <2> QED
    BY <2>2 DEF Ordered
<1> QED
  BY <1>1, <1>2

LEMMA AsksOrdered ==
  ASSUME NEW p \in Names, NEW a, NEW configs \in FilterAndSortSecretConfigs(a)
  PROVE  /\ Ordered(Asks(p, a, configs))
         /\ p # "vault" => Avoids(Asks(p, a, configs), Keys)
<1> DEFINE S == Flags \cup {Separator}
           args == ProviderArgs(p, a, configs)
<1>1. S \cap Keys = {} /\ S \subseteq Words /\ Separator \in S /\ Flags \subseteq S
  BY DEF Keys, Flags, SecretConfigNumber, Separator, Words
<1>2. /\ args \in Seq(Words) /\ Asks(p, a, configs) = args \o <<Separator>>
      /\ <<Separator>> \in Seq(Words) /\ Avoids(<<Separator>>, Keys)
  <2>1. args \in Seq(Words)
    BY AsksTypes
  <2>2. <<Separator>> \in Seq(S) /\ <<Separator>> \in Seq(Words)
    BY <1>1
  <2> QED
    BY <1>1, <2>1, <2>2, AvoidsByType DEF Asks
<1>3. ASSUME p # "vault" PROVE Avoids(args, Keys)
  <2>1. args \in Seq(Flags) /\ Flags \cap Keys = {}
    BY <1>1, <1>3, AsksTypes
  <2> QED
    BY <2>1, AvoidsByType
<1>4. ASSUME p = "vault" PROVE Ordered(args)
  <2> DEFINE f1 == Flag("--kubernetes-backend", "vault/auth-path", a)
             f2 == Flag("--token-path", "vault/k8s-token-path", a)
             f3 == Flag("--path", "vault/path", a)
             f4 == Flag("--names-as-keys", "vault/use-secret-names-as-keys", a)
             f5 == Flag("--version", "vault/secret-version", a)
             before == (<<"vault", "--role">> \o f1) \o f2
  <2>1. args = (((before \o configs) \o f3) \o f4) \o f5
    BY <1>4 DEF ProviderArgs, VaultArgs
  <2>2. Flags \cap Keys = {} /\ Flags \subseteq Words
    BY <1>1
  <2>3. /\ f3 \in Seq(Flags) /\ f4 \in Seq(Flags) /\ f5 \in Seq(Flags)
        /\ before \in Seq(Flags)
    <3> DEFINE F == Flags
    <3>1. {"vault", "--role", "--kubernetes-backend", "--token-path", "--path",
           "--names-as-keys", "--version"} \subseteq F
      BY DEF Flags
    <3> HIDE DEF F
    <3>2. /\ f1 \in Seq(F) /\ f2 \in Seq(F) /\ f3 \in Seq(F) /\ f4 \in Seq(F)
          /\ f5 \in Seq(F) /\ <<"vault", "--role">> \in Seq(F)
      BY <3>1, FlagType
    <3>3. before \in Seq(F)
      BY <3>2, Concat
    <3> QED
      BY <3>2, <3>3 DEF F
  <2> HIDE DEF f3, f4, f5, before
  <2>4. /\ f3 \in Seq(Words) /\ f4 \in Seq(Words) /\ f5 \in Seq(Words)
        /\ before \in Seq(Words) /\ configs \in Seq(Words)
    <3>1. Keys \subseteq Words
      BY DEF Words, Keys
    <3> QED
      BY <2>2, <2>3, <3>1, SeqMonotonic, ConfigsTypes DEF Keys
  <2>5. Avoids(f3, Keys) /\ Avoids(f4, Keys) /\ Avoids(f5, Keys) /\ Avoids(before, Keys)
    BY <2>2, <2>3, AvoidsByType
  <2>6. Ordered(configs)
    <3>1. IsSorted(configs, LAMBDA k, l : SecretConfigNumber[k] <= SecretConfigNumber[l])
      BY Zenon DEF FilterAndSortSecretConfigs
    <3> QED
      BY <3>1 DEF IsSorted, Ordered
  <2>7. before \o configs \in Seq(Words) /\ Ordered(before \o configs)
    BY <2>4, <2>5, <2>6, Concat, OrderedConcat
  <2>8. (before \o configs) \o f3 \in Seq(Words) /\ Ordered((before \o configs) \o f3)
    <3> DEFINE s == before \o configs
    <3> HIDE DEF s
    <3>1. s \in Seq(Words) /\ Ordered(s)
      BY <2>7 DEF s
    <3>2. s \o f3 \in Seq(Words) /\ Ordered(s \o f3)
      BY <2>4, <2>5, <3>1, Concat, OrderedConcat
    <3> QED
      BY <3>2 DEF s
  <2>9. /\ ((before \o configs) \o f3) \o f4 \in Seq(Words)
        /\ Ordered(((before \o configs) \o f3) \o f4)
    <3> DEFINE s == (before \o configs) \o f3
    <3> HIDE DEF s
    <3>1. s \in Seq(Words) /\ Ordered(s)
      BY <2>8 DEF s
    <3>2. s \o f4 \in Seq(Words) /\ Ordered(s \o f4)
      BY <2>4, <2>5, <3>1, Concat, OrderedConcat
    <3> QED
      BY <3>2 DEF s
  <2>10. Ordered((((before \o configs) \o f3) \o f4) \o f5)
    <3> DEFINE s == ((before \o configs) \o f3) \o f4
    <3> HIDE DEF s
    <3>1. s \in Seq(Words) /\ Ordered(s)
      BY <2>9 DEF s
    <3>2. Ordered(s \o f5)
      BY <2>4, <2>5, <3>1, OrderedConcat
    <3> QED
      BY <3>2 DEF s
  <2> HIDE DEF args
  <2> QED
    BY <2>1, <2>10, Zenon
<1> HIDE DEF args
<1>5. Avoids(args, Keys) => Ordered(args)
  BY DEF Avoids, Ordered
<1>6. Ordered(args)
  BY <1>3, <1>4, <1>5
<1> QED
  BY <1>2, <1>3, <1>6, OrderedConcat, ConcatWithin

LEMMA ToldOrdered ==
  ASSUME NEW ps \in Seq(Names), Len(ps) \in 1..4, IsInjective(ps),
         NEW a, NEW configs \in FilterAndSortSecretConfigs(a)
  PROVE  Ordered(Told(ps, a, configs))
<1> DEFINE asks(n) == Asks(ps[n], a, configs)
           told == Told(ps, a, configs)
           before(n) == \A j \in 1..n : ps[j] # "vault"
           Fine(t, n) == t \in Seq(Words) /\ Ordered(t) /\ (before(n) => Avoids(t, Keys))
           t1 == asks(1)
           t2 == asks(2) \o t1
           t3 == asks(3) \o t2
           t4 == asks(4) \o t3
<1>1. /\ Len(ps) = 1 => told = t1
      /\ Len(ps) = 2 => told = t2
      /\ Len(ps) = 3 => told = t3
      /\ Len(ps) = 4 => told = t4
  <2>1. 2 # 1 /\ 3 # 1 /\ 3 # 2 /\ 4 # 1 /\ 4 # 2 /\ 4 # 3
    OBVIOUS
  <2> QED
    BY <2>1, Zenon DEF Told
<1>2. ASSUME NEW n \in 1..Len(ps)
      PROVE  /\ asks(n) \in Seq(Words) /\ Ordered(asks(n))
             /\ ps[n] # "vault" => Avoids(asks(n), Keys)
  <2>1. ps[n] \in Names
    OBVIOUS
  <2> QED
    BY <2>1, AsksTypes, AsksOrdered
<1>3. Fine(t1, 1)
  <2>1. 1 \in 1..Len(ps) /\ 1 \in 1..1
    OBVIOUS
  <2> QED
    BY <1>2, <2>1
<1>4. ASSUME NEW n \in 1..3, n + 1 \in 1..Len(ps), NEW t, Fine(t, n)
      PROVE  Fine(asks(n + 1) \o t, n + 1)
  <2> DEFINE s == asks(n + 1)
  <2>1. /\ s \in Seq(Words) /\ Ordered(s)
        /\ ps[n + 1] # "vault" => Avoids(s, Keys)
    BY <1>2, <1>4
  <2>2. s \o t \in Seq(Words)
    BY <1>4, <2>1, Concat
  <2>3. CASE ps[n + 1] = "vault"
    <3>1. before(n)
      <4> SUFFICES ASSUME NEW j \in 1..n PROVE ps[j] # ps[n + 1]
        BY <2>3
      <4>1. j \in DOMAIN ps /\ n + 1 \in DOMAIN ps /\ j # n + 1
        BY <1>4
      <4> QED
        BY <4>1, Zenon DEF IsInjective
    <3>2. Avoids(t, Keys)
      BY <1>4, <3>1
    <3>3. ~before(n + 1)
      BY <2>3
    <3>4. Ordered(s \o t)
      <4> HIDE DEF s
      <4> QED
        BY <1>4, <2>1, <3>2, OrderedConcat
    <3> HIDE DEF before
    <3> QED
      BY <2>2, <3>3, <3>4
  <2>4. CASE ps[n + 1] # "vault"
    <3>1. before(n + 1) => before(n)
      OBVIOUS
    <3> HIDE DEF before
    <3>2. Ordered(s \o t) /\ (before(n + 1) => Avoids(s \o t, Keys))
      <4> HIDE DEF s
      <4> QED
        BY <1>4, <2>1, <2>4, <3>1, OrderedConcat, ConcatWithin
    <3> QED
      BY <2>2, <3>2
  <2> QED
    BY <2>3, <2>4
<1> HIDE DEF asks, told, Fine, t1
<1>5. Len(ps) >= 2 => Fine(t2, 2)
  <2>1. 1 \in 1..3 /\ 1 + 1 = 2 /\ (Len(ps) >= 2 => 2 \in 1..Len(ps))
    OBVIOUS
  <2> QED
    BY <1>3, <1>4, <2>1
<1> HIDE DEF t2
<1>6. Len(ps) >= 3 => Fine(t3, 3)
  <2>1. 2 \in 1..3 /\ 2 + 1 = 3 /\ (Len(ps) >= 3 => 3 \in 1..Len(ps))
    OBVIOUS
  <2>2. Len(ps) >= 3 => Len(ps) >= 2
    OBVIOUS
  <2> QED
    BY <1>4, <1>5, <2>1, <2>2
<1> HIDE DEF t3
<1>7. Len(ps) >= 4 => Fine(t4, 4)
  <2>1. 3 \in 1..3 /\ 3 + 1 = 4 /\ (Len(ps) >= 4 => 4 \in 1..Len(ps))
    OBVIOUS
  <2>2. Len(ps) >= 4 => Len(ps) >= 3
    OBVIOUS
  <2> QED
    BY <1>4, <1>6, <2>1, <2>2
<1> HIDE DEF t4
<1>8. \E n : Fine(told, n)
  <2>1. CASE Len(ps) = 1
    BY <1>1, <1>3, <2>1
  <2>2. CASE Len(ps) = 2
    BY <1>1, <1>5, <2>2
  <2>3. CASE Len(ps) = 3
    BY <1>1, <1>6, <2>3
  <2>4. CASE Len(ps) = 4
    BY <1>1, <1>7, <2>4
  <2>5. Len(ps) = 1 \/ Len(ps) = 2 \/ Len(ps) = 3 \/ Len(ps) = 4
    OBVIOUS
  <2> QED
    BY <2>1, <2>2, <2>3, <2>4, <2>5
<1> QED
  BY <1>8, Zenon DEF Fine, told

-----------------------------------------------------------------------------
(* No volume is added twice.                                               *)

(* The volume of a provider, a name of its own if it has none.             *)
VolumeOf == [p \in Names |->
  IF p = "vault" THEN "vault-tls" ELSE IF p = "gcp" THEN "google-cloud-key" ELSE p]

LEMMA VolumesOf ==
  ASSUME NEW p \in Names, NEW a
  PROVE  /\ IsInjective(ProviderVolumes(p, a))
         /\ Within(ProviderVolumes(p, a), {VolumeOf[p]})
         /\ VolumeOf[p] # "k8s-secret-injector"
         /\ \A q \in Names : VolumeOf[q] = VolumeOf[p] => q = p
<1>1. \A q \in Names : q \in {"vault", "aws", "azure", "gcp"}
  BY DEF Names, Registered, ToSet
<1>2. \A x : IsInjective(<<x>>) /\ Within(<<x>>, {x}) /\ IsInjective(<<>>) /\ Within(<<>>, {x})
  BY DEF IsInjective, Within
<1>3. ProviderVolumes(p, a) = <<>> \/ ProviderVolumes(p, a) = <<VolumeOf[p]>>
  BY <1>1 DEF ProviderVolumes, VaultVolumes, GCPVolumes, VolumeOf
<1>4. IsInjective(ProviderVolumes(p, a)) /\ Within(ProviderVolumes(p, a), {VolumeOf[p]})
  BY <1>2, <1>3, Zenon
<1>5. /\ VolumeOf[p] # "k8s-secret-injector"
      /\ \A q \in Names : VolumeOf[q] = VolumeOf[p] => q = p
  BY <1>1 DEF VolumeOf
<1> QED
  BY <1>4, <1>5

LEMMA ExtraVolumesInjective ==
  ASSUME NEW ps \in Seq(Names), Len(ps) \in 1..4, IsInjective(ps), NEW a
  PROVE  /\ IsInjective(ExtraVolumes(ps, a))
         /\ Avoids(ExtraVolumes(ps, a), {"k8s-secret-injector"})
<1> DEFINE v(n) == ProviderVolumes(ps[n], a)
           volumes == ExtraVolumes(ps, a)
           named(n) == {VolumeOf[ps[j]] : j \in 1..n}
           Fine(w, n) == w \in Seq(Words) /\ IsInjective(w) /\ Within(w, named(n))
           w1 == v(1)
           w2 == w1 \o v(2)
           w3 == w2 \o v(3)
           w4 == w3 \o v(4)
<1>1. /\ Len(ps) = 1 => volumes = w1
      /\ Len(ps) = 2 => volumes = w2
      /\ Len(ps) = 3 => volumes = w3
      /\ Len(ps) = 4 => volumes = w4
  <2>1. DOMAIN ps = 1..Len(ps)
    OBVIOUS
  <2> QED
    BY <2>1, ExtraVolumesUnrolled, Zenon
<1>2. ASSUME NEW n \in 1..Len(ps)
      PROVE  /\ ps[n] \in Names /\ v(n) \in Seq(Words) /\ IsInjective(v(n))
             /\ Within(v(n), {VolumeOf[ps[n]]})
  <2>1. ps[n] \in Names
    OBVIOUS
  <2> QED
    BY <2>1, VolumesTypes, VolumesOf
<1>3. Fine(w1, 1)
  <2>1. 1 \in 1..Len(ps) /\ named(1) = {VolumeOf[ps[1]]}
    <3>1. 1 \in 1..Len(ps)
      BY SMTT(20)
    <3>2. 1..1 = {1}
      OBVIOUS
    <3> QED
      BY <3>1, <3>2, Zenon
  <2> HIDE DEF named
  <2> QED
    BY <1>2, <2>1
<1>4. ASSUME NEW n \in 1..3, n + 1 \in 1..Len(ps), NEW w, Fine(w, n)
      PROVE  Fine(w \o v(n + 1), n + 1)
  <2> DEFINE s == v(n + 1)
             name == VolumeOf[ps[n + 1]]
  <2>1. s \in Seq(Words) /\ IsInjective(s) /\ Within(s, {name})
    BY <1>2, <1>4
  <2>2. name \notin named(n)
    <3> SUFFICES ASSUME NEW j \in 1..n PROVE VolumeOf[ps[j]] # VolumeOf[ps[n + 1]]
      OBVIOUS
    <3>1. j \in 1..Len(ps) /\ n + 1 \in 1..Len(ps) /\ j # n + 1
      BY <1>4
    <3>2. ps[j] # ps[n + 1]
      BY <3>1 DEF IsInjective
    <3> QED
      BY <1>2, <3>1, <3>2, VolumesOf
  <2>3. named(n) \cup {name} = named(n + 1)
    OBVIOUS
  <2>4. w \in Seq(Words) /\ IsInjective(w) /\ Within(w, named(n))
    BY <1>4
  <2> HIDE DEF s, name, named
  <2>5. w \o s \in Seq(Words)
    BY <2>1, <2>4, Concat
  <2>6. IsInjective(w \o s)
    <3>1. \A i \in DOMAIN w, j \in DOMAIN s : w[i] # s[j]
      BY <2>1, <2>2, <2>4 DEF Within
    <3> QED
      BY <2>1, <2>4, <3>1, ConcatInjective
  <2>7. Within(w \o s, named(n + 1))
    <3>1. Within(w, named(n + 1)) /\ Within(s, named(n + 1))
      BY <2>1, <2>3, <2>4 DEF Within
    <3> QED
      BY <2>1, <2>4, <3>1, ConcatWithin
  <2> QED
    BY <2>5, <2>6, <2>7 DEF s
<1> HIDE DEF v, volumes, Fine, w1
<1>5. Len(ps) >= 2 => Fine(w2, 2)
  <2>1. 1 \in 1..3 /\ 1 + 1 = 2 /\ (Len(ps) >= 2 => 2 \in 1..Len(ps))
    OBVIOUS
  <2> QED
    BY <1>3, <1>4, <2>1
<1> HIDE DEF w2
<1>6. Len(ps) >= 3 => Fine(w3, 3)
  <2>1. 2 \in 1..3 /\ 2 + 1 = 3 /\ (Len(ps) >= 3 => 3 \in 1..Len(ps))
    OBVIOUS
  <2>2. Len(ps) >= 3 => Len(ps) >= 2
    OBVIOUS
  <2> QED
    BY <1>4, <1>5, <2>1, <2>2
<1> HIDE DEF w3
<1>7. Len(ps) >= 4 => Fine(w4, 4)
  <2>1. 3 \in 1..3 /\ 3 + 1 = 4 /\ (Len(ps) >= 4 => 4 \in 1..Len(ps))
    OBVIOUS
  <2>2. Len(ps) >= 4 => Len(ps) >= 3
    OBVIOUS
  <2> QED
    BY <1>4, <1>6, <2>1, <2>2
<1> HIDE DEF w4
<1>8. \E n \in 1..Len(ps) : Fine(volumes, n)
  <2>1. CASE Len(ps) = 1
    BY <1>1, <1>3, <2>1
  <2>2. CASE Len(ps) = 2
    BY <1>1, <1>5, <2>2
  <2>3. CASE Len(ps) = 3
    BY <1>1, <1>6, <2>3
  <2>4. CASE Len(ps) = 4
    BY <1>1, <1>7, <2>4
  <2>5. Len(ps) = 1 \/ Len(ps) = 2 \/ Len(ps) = 3 \/ Len(ps) = 4
    OBVIOUS
  <2> QED
    BY <2>1, <2>2, <2>3, <2>4, <2>5
<1>9. PICK n \in 1..Len(ps) : IsInjective(volumes) /\ Within(volumes, named(n))
  BY <1>8, Zenon DEF Fine
<1>10. "k8s-secret-injector" \notin named(n)
  <2>1. \A j \in 1..n : ps[j] \in Names
    BY <1>2
  <2> QED
    BY <2>1, VolumesOf
<1> HIDE DEF named
<1>11. Avoids(volumes, {"k8s-secret-injector"})
  BY <1>9, <1>10 DEF Within, Avoids
<1> QED
  BY <1>9, <1>11 DEF volumes
=============================================================================
