-------------------------- MODULE ImageNamesProofs --------------------------
(***************************************************************************)
(* A clear name is taken apart into what it was written from, for any      *)
(* registry, path, tag and digest (registry.go:186-204, 227-231, 290-307,  *)
(* 366-379).                                                               *)
(***************************************************************************)
EXTENDS ImageNames, SequenceTheorems, NaturalsInduction, WellFoundedInduction, TLAPS

(* Strings, and the literals of ImageNames, which are strings as well: the *)
(* provers do not know.                                                    *)
Tokens ==
  STRING \cup {"/", ":", "@", "library", "https://", "docker.io",
               "index.docker.io", "latest"}

Parts == [host : Seq(Tokens), path : Seq(Tokens), tag : Seq(Tokens),
          digest : Seq(Tokens)]

LEMMA Smallest ==
  ASSUME NEW S \in SUBSET Nat, NEW n \in S, \A i \in S : n <= i
  PROVE  Min(S) = n
<1>1. n \in Nat /\ \E i \in S : \A j \in S : i <= j
  OBVIOUS
<1>2. Min(S) \in S /\ \A j \in S : Min(S) <= j
  BY <1>1, Zenon DEF Min
<1> DEFINE m == Min(S)
<1>3. m \in Nat /\ m <= n /\ n <= m
  BY <1>1, <1>2
<1> HIDE DEF m
<1>4. m = n
  BY <1>1, <1>3
<1> QED
  BY <1>4 DEF m

-----------------------------------------------------------------------------
(* Cutting at a token.                                                     *)

LEMMA FreeOf ==
  ASSUME NEW s \in Seq(Tokens), NEW T, Free(s, T), NEW c \in T
  PROVE  \A i \in 1..Len(s) : s[i] # c
  BY DEF Free, ToSet

LEMMA Together ==
  ASSUME NEW s \in Seq(Tokens), NEW t \in Seq(Tokens)
  PROVE  /\ s \o t \in Seq(Tokens) /\ Len(s \o t) = Len(s) + Len(t)
         /\ Len(s) \in Nat /\ Len(t) \in Nat
         /\ \A i \in 1..Len(s) : (s \o t)[i] = s[i]
         /\ \A i \in 1..Len(t) : (s \o t)[Len(s) + i] = t[i]
<1>1. Len(s) \in Nat /\ Len(t) \in Nat
  OBVIOUS
<1>2. /\ s \o t \in Seq(Tokens) /\ Len(s \o t) = Len(s) + Len(t)
      /\ \A i \in 1..(Len(s) + Len(t)) :
           (s \o t)[i] = IF i <= Len(s) THEN s[i] ELSE t[i - Len(s)]
  BY ConcatProperties
<1>3. \A i \in 1..Len(s) : (s \o t)[i] = s[i]
  BY <1>1, <1>2
<1>4. ASSUME NEW i \in 1..Len(t) PROVE (s \o t)[Len(s) + i] = t[i]
  <2>1. Len(s) + i \in 1..(Len(s) + Len(t)) /\ ~(Len(s) + i <= Len(s))
        /\ (Len(s) + i) - Len(s) = i
    BY <1>1
  <2> QED
    BY <1>2, <2>1
<1> QED
  BY <1>1, <1>2, <1>3, <1>4

Regroups(s, t, u) == (s \o t) \o u = s \o (t \o u)

LEMMA Regroup == \A s, t, u \in Seq(Tokens) : Regroups(s, t, u)
  BY ConcatAssociative DEF Regroups

LEMMA Single == ASSUME NEW c \in Tokens
                PROVE  <<c>> \in Seq(Tokens) /\ Len(<<c>>) = 1 /\ <<c>>[1] = c
  OBVIOUS

LEMMA AfterConcat ==
  ASSUME NEW s \in Seq(Tokens), NEW t \in Seq(Tokens)
  PROVE  SubSeq(s \o t, Len(s) + 1, Len(s \o t)) = t
  BY ConcatProperties, SubSeqOfConcat2, SubSeqFull, SubSeqEmpty

(* What comes before the first of a token, and what after it.              *)
CutAt(w, s, c, t) ==
  /\ Contains(w, c) /\ Before(w, c) = s
  /\ SubSeq(w, Position(w, c) + 1, Len(w)) = t

LEMMA Cut ==
  ASSUME NEW s \in Seq(Tokens), NEW t \in Seq(Tokens), NEW c \in Tokens,
         \A i \in 1..Len(s) : s[i] # c
  PROVE  CutAt((s \o <<c>>) \o t, s, c, t)
<1> DEFINE first == s \o <<c>>
           w == first \o t
           at == {i \in 1..Len(w) : w[i] = c}
           n == Len(s)
<1>1. /\ first \in Seq(Tokens) /\ Len(first) = n + 1 /\ n \in Nat
      /\ \A i \in 1..n : first[i] = s[i]
      /\ first[n + 1] = c
  BY Single, Together
<1>2. /\ w \in Seq(Tokens) /\ Len(w) = (n + 1) + Len(t) /\ Len(t) \in Nat
      /\ \A i \in 1..(n + 1) : w[i] = first[i]
  BY <1>1, Together
<1>3. n + 1 \in at /\ at \in SUBSET Nat
  BY <1>1, <1>2
<1>4. \A i \in at : n + 1 <= i
  BY <1>1, <1>2
<1>5. Min(at) = n + 1
  BY <1>3, <1>4, Smallest
<1>6. Position(w, c) = n + 1
  <2>1. Position(w, c) = IF at # {} THEN Min(at) ELSE 0
    BY DEF Position, SelectInSeq
  <2> HIDE DEF at
  <2> QED
    BY <1>3, <1>5, <2>1
<1>7. Contains(w, c)
  BY <1>3 DEF Contains
<1>8. SubSeq(w, n + 1 + 1, Len(w)) = t
  <2> HIDE DEF first
  <2>1. SubSeq(w, Len(first) + 1, Len(w)) = t
    BY <1>1, AfterConcat
  <2> QED
    BY <1>1, <2>1
<1>9. SubSeq(w, 1, n) = s
  <2>1. SubSeq(w, 1, n) = SubSeq(first, 1, n)
    BY <1>1, SubSeqOfConcat1
  <2>2. SubSeq(first, 1, n) = SubSeq(s, 1, n)
    BY <1>1, Single, SubSeqOfConcat1
  <2> QED
    BY <2>1, <2>2, SubSeqFull
<1> HIDE DEF w
<1>10. Before(w, c) = SubSeq(w, 1, (n + 1) - 1)
  BY <1>6, <1>7 DEF Before
<1>11. (n + 1) - 1 = n
  BY <1>1
<1> QED
  BY <1>6, <1>7, <1>8, <1>9, <1>10, <1>11 DEF CutAt, w, n

LEMMA Uncut ==
  ASSUME NEW s \in Seq(Tokens), NEW c, \A i \in 1..Len(s) : s[i] # c
  PROVE  ~Contains(s, c) /\ Before(s, c) = s
  BY SubSeqFull DEF Contains, Before

LEMMA SmallestExists ==
  ASSUME NEW S \in SUBSET Nat, S # {}
  PROVE  \E n \in S : \A i \in S : n <= i
<1>1. IsWellFoundedOn(OpToRel(<, Nat), Nat)
  BY NatLessThanWellFounded
<1>2. PICK n \in S : \A i \in S : ~(<<i, n>> \in OpToRel(<, Nat))
  BY <1>1, WFMin, Zenon
<1>3. \A i \in S : ~(i < n)
  BY <1>2 DEF OpToRel
<1> QED
  BY <1>3

LEMMA FirstOf ==
  ASSUME NEW s \in Seq(Tokens), NEW c \in Tokens, Contains(s, c)
  PROVE  \E before \in Seq(Tokens), after \in Seq(Tokens) :
           /\ s = (before \o <<c>>) \o after
           /\ \A i \in 1..Len(before) : before[i] # c
<1> DEFINE at == {i \in 1..Len(s) : s[i] = c}
<1>1. at \in SUBSET Nat /\ at # {}
  BY DEF Contains
<1>2. PICK n \in at : \A i \in at : n <= i
  BY <1>1, SmallestExists
<1> DEFINE before == SubSeq(s, 1, n - 1)
           after == SubSeq(s, n + 1, Len(s))
<1>3. n \in 1..Len(s) /\ s[n] = c /\ Len(s) \in Nat
  BY <1>2
<1>4. /\ before \in Seq(Tokens) /\ Len(before) = n - 1
      /\ \A i \in 1..(n - 1) : before[i] = s[i]
  BY <1>3
<1>5. after \in Seq(Tokens) /\ Len(after) = Len(s) - n
      /\ \A i \in 1..(Len(s) - n) : after[i] = s[n + i]
  BY <1>3
<1>6. \A i \in 1..Len(before) : before[i] # c
  <2> SUFFICES ASSUME NEW i \in 1..Len(before), before[i] = c PROVE FALSE
    OBVIOUS
  <2> HIDE DEF before
  <2>1. i \in 1..(n - 1) /\ s[i] = c
    BY <1>3, <1>4
  <2>2. i \in at
    BY <1>3, <2>1
  <2> QED
    BY <1>2, <1>3, <2>1, <2>2
<1>7. s = (before \o <<c>>) \o after
  <2> DEFINE w == (before \o <<c>>) \o after
             first == before \o <<c>>
  <2> HIDE DEF before, after
  <2>1. /\ first \in Seq(Tokens) /\ Len(first) = n
        /\ \A i \in 1..(n - 1) : first[i] = s[i]
        /\ first[n] = c
    <3>1. Len(before) + 1 = n
      BY <1>3, <1>4
    <3>2. /\ first \in Seq(Tokens) /\ Len(first) = n
          /\ \A i \in 1..Len(before) : first[i] = before[i]
          /\ first[n] = c
      BY <1>4, <3>1, Single, Together, SMTT(20)
    <3> QED
      BY <1>4, <3>2
  <2> HIDE DEF first
  <2>2. /\ w \in Seq(Tokens) /\ Len(w) = n + (Len(s) - n)
        /\ \A i \in 1..n : w[i] = first[i]
        /\ \A i \in 1..(Len(s) - n) : w[n + i] = s[n + i]
    <3>1. w = first \o after
      BY DEF first
    <3> HIDE DEF w
    <3>2. /\ w \in Seq(Tokens) /\ Len(w) = Len(first) + Len(after)
          /\ \A i \in 1..Len(first) : w[i] = first[i]
          /\ \A i \in 1..Len(after) : w[Len(first) + i] = after[i]
      BY <1>5, <2>1, <3>1, Together
    <3> QED
      BY <1>5, <2>1, <3>2
  <2>3. Len(w) = Len(s)
    BY <1>3, <2>2
  <2> HIDE DEF w
  <2>4. ASSUME NEW i \in 1..Len(s) PROVE w[i] = s[i]
    <3>1. CASE i \in 1..(n - 1)
      <4>1. i \in 1..n
        BY <1>3, <3>1
      <4> QED
        BY <2>1, <2>2, <3>1, <4>1
    <3>2. CASE i = n
      BY <1>3, <2>1, <2>2, <3>2
    <3>3. CASE i > n
      <4>1. i - n \in 1..(Len(s) - n) /\ n + (i - n) = i
        BY <1>3, <3>3
      <4> QED
        BY <2>2, <4>1
    <3> QED
      BY <1>3, <3>1, <3>2, <3>3
  <2>5. w = s
    BY <2>2, <2>3, <2>4, SeqEqual
  <2> QED
    BY <2>5 DEF w, first
<1> QED
  BY <1>4, <1>5, <1>6, <1>7

-----------------------------------------------------------------------------
(* The end of a name.                                                      *)

Ends(q, parts) ==
  IF parts.digest # <<>> THEN (q \o <<"@">>) \o parts.digest
  ELSE IF parts.tag # <<>> THEN (q \o <<":">>) \o parts.tag ELSE q

HostPart(parts) == IF parts.host = <<>> THEN <<>> ELSE parts.host \o <<"/">>

LEMMA SeparatorsAreTokens == {"/", ":", "@"} \subseteq Tokens
  BY DEF Tokens

LEMMA HostPartType == ASSUME NEW parts \in Parts PROVE HostPart(parts) \in Seq(Tokens)
  BY SeparatorsAreTokens DEF HostPart, Parts

LEMMA WrittenEnds ==
  ASSUME NEW parts \in Parts, Clear(parts)
  PROVE  Written(parts) = Ends(HostPart(parts) \o parts.path, parts)
<1> DEFINE q == HostPart(parts) \o parts.path
           tag == IF parts.tag = <<>> THEN <<>> ELSE <<":">> \o parts.tag
           digest == IF parts.digest = <<>> THEN <<>> ELSE <<"@">> \o parts.digest
<1>1. q \in Seq(Tokens) /\ parts.tag \in Seq(Tokens) /\ parts.digest \in Seq(Tokens)
  BY HostPartType, Together DEF Parts
<1>2. Written(parts) = (q \o tag) \o digest
  BY DEF Written, HostPart
<1>3. \A s \in Seq(Tokens) : s \o <<>> = s
  BY ConcatEmptySeq
<1>4. <<":">> \in Seq(Tokens) /\ <<"@">> \in Seq(Tokens)
  BY SeparatorsAreTokens, Single
<1>5. parts.tag = <<>> \/ parts.digest = <<>>
  BY DEF Clear
<1> HIDE DEF q
<1>6. CASE parts.digest # <<>>
  <2>1. tag = <<>> /\ digest = <<"@">> \o parts.digest
    BY <1>5, <1>6
  <2>2. q \o tag = q
    BY <1>1, <1>3, <2>1
  <2>3. q \o (<<"@">> \o parts.digest) = (q \o <<"@">>) \o parts.digest
    <3>1. Regroups(q, <<"@">>, parts.digest)
      BY <1>1, <1>4, Regroup
    <3> QED
      BY <3>1, Zenon DEF Regroups
  <2> HIDE DEF tag, digest
  <2>4. Written(parts) = (q \o <<"@">>) \o parts.digest
    BY <1>2, <2>1, <2>2, <2>3, Zenon
  <2> QED
    BY <1>6, <2>4 DEF Ends, q
<1>7. CASE parts.digest = <<>> /\ parts.tag # <<>>
  <2>1. tag = <<":">> \o parts.tag /\ digest = <<>>
    BY <1>7
  <2>2. q \o tag \in Seq(Tokens)
    BY <1>1, <1>4, <2>1, Together
  <2>3. (q \o tag) \o digest = q \o tag
    BY <1>3, <2>1, <2>2
  <2>4. q \o (<<":">> \o parts.tag) = (q \o <<":">>) \o parts.tag
    <3>1. Regroups(q, <<":">>, parts.tag)
      BY <1>1, <1>4, Regroup
    <3> QED
      BY <3>1, Zenon DEF Regroups
  <2> HIDE DEF tag, digest
  <2>5. Written(parts) = (q \o <<":">>) \o parts.tag
    BY <1>2, <2>1, <2>3, <2>4, Zenon
  <2> QED
    BY <1>7, <2>5 DEF Ends, q
<1>8. CASE parts.digest = <<>> /\ parts.tag = <<>>
  BY <1>1, <1>2, <1>3, <1>8 DEF Ends, q
<1> QED
  BY <1>6, <1>7, <1>8

LEMMA EndsRegroup ==
  ASSUME NEW s \in Seq(Tokens), NEW q \in Seq(Tokens), NEW parts \in Parts
  PROVE  Ends(q, parts) \in Seq(Tokens) /\ s \o Ends(q, parts) = Ends(s \o q, parts)
<1>1. /\ <<":">> \in Seq(Tokens) /\ <<"@">> \in Seq(Tokens)
      /\ parts.tag \in Seq(Tokens) /\ parts.digest \in Seq(Tokens)
  BY SeparatorsAreTokens, Single DEF Parts
<1>2. q \o <<"@">> \in Seq(Tokens) /\ q \o <<":">> \in Seq(Tokens)
  BY <1>1, Together
<1>3. ASSUME NEW t \in Seq(Tokens), NEW u \in Seq(Tokens), q \o t \in Seq(Tokens)
      PROVE  s \o ((q \o t) \o u) = ((s \o q) \o t) \o u
  <2>1. Regroups(s, q \o t, u) /\ Regroups(s, q, t)
    BY <1>3, Regroup
  <2> QED
    BY <2>1, Zenon DEF Regroups
<1>4. Ends(q, parts) \in Seq(Tokens)
  BY <1>1, <1>2, Together DEF Ends
<1>5. /\ s \o ((q \o <<"@">>) \o parts.digest) = ((s \o q) \o <<"@">>) \o parts.digest
      /\ s \o ((q \o <<":">>) \o parts.tag) = ((s \o q) \o <<":">>) \o parts.tag
  BY <1>1, <1>2, <1>3, Zenon
<1> QED
  BY <1>4, <1>5, Zenon DEF Ends

(* Only the digest's "@" and the tag's ":" are cut at.                     *)
LEMMA ParseEnds ==
  ASSUME NEW parts \in Parts, Clear(parts), NEW q \in Seq(Tokens),
         \A i \in 1..Len(q) : q[i] \notin {":", "@"}
  PROVE  ParseContainerImage(Ends(q, parts)) =
           [name |-> q, reference |-> Meant(parts).reference]
<1> DEFINE e == Ends(q, parts)
<1>1. parts.tag \in Seq(Tokens) /\ parts.digest \in Seq(Tokens)
  BY DEF Parts
<1>2. /\ "@" \in Tokens /\ ":" \in Tokens
      /\ \A i \in 1..Len(q) : q[i] # "@" /\ q[i] # ":"
  BY SeparatorsAreTokens
<1>3. CASE parts.digest # <<>>
  <2>1. e = (q \o <<"@">>) \o parts.digest /\ Meant(parts).reference = parts.digest
    BY <1>3 DEF Ends, Meant
  <2> HIDE DEF e
  <2>2. /\ Contains(e, "@") /\ Before(e, "@") = q
        /\ SubSeq(e, Position(e, "@") + 1, Len(e)) = parts.digest
    <3>1. CutAt((q \o <<"@">>) \o parts.digest, q, "@", parts.digest)
      BY <1>1, <1>2, Cut
    <3> QED
      BY <2>1, <3>1, Zenon DEF CutAt
  <2> QED
    BY <2>1, <2>2 DEF ParseContainerImage, e
<1>4. CASE parts.digest = <<>> /\ parts.tag # <<>>
  <2> DEFINE first == q \o <<":">>
  <2>1. e = first \o parts.tag /\ Meant(parts).reference = parts.tag
    BY <1>4 DEF Ends, Meant
  <2>2. first \in Seq(Tokens) /\ \A i \in 1..Len(first) : first[i] # "@"
    <3>1. <<":">> \in Seq(Tokens) /\ Len(<<":">>) = 1 /\ <<":">>[1] = ":"
      BY <1>2, Single
    <3>2. /\ first \in Seq(Tokens) /\ Len(first) = Len(q) + 1 /\ Len(q) \in Nat
          /\ \A i \in 1..Len(q) : first[i] = q[i]
          /\ first[Len(q) + 1] = ":"
      BY <3>1, Together
    <3> HIDE DEF first
    <3> QED
      BY <3>2
  <2>3. \A i \in 1..Len(parts.tag) : parts.tag[i] # "@"
    BY <1>1, FreeOf DEF Clear
  <2>4. ~Contains(e, "@")
    <3> HIDE DEF first
    <3>1. /\ Len(e) = Len(first) + Len(parts.tag)
          /\ Len(first) \in Nat /\ Len(parts.tag) \in Nat
          /\ \A i \in 1..Len(first) : e[i] = first[i]
          /\ \A i \in 1..Len(parts.tag) : e[Len(first) + i] = parts.tag[i]
      BY <1>1, <2>1, <2>2, Together
    <3> HIDE DEF e
    <3> SUFFICES ASSUME NEW i \in 1..Len(e), e[i] = "@" PROVE FALSE
      BY DEF Contains
    <3>2. CASE i \in 1..Len(first)
      BY <2>2, <3>1, <3>2
    <3>3. CASE i \notin 1..Len(first)
      <4>1. i - Len(first) \in 1..Len(parts.tag) /\ Len(first) + (i - Len(first)) = i
        BY <3>1, <3>3
      <4> QED
        BY <2>3, <3>1, <4>1
    <3> QED
      BY <3>2, <3>3
  <2>5. /\ Contains(e, ":") /\ Before(e, ":") = q
        /\ SubSeq(e, Position(e, ":") + 1, Len(e)) = parts.tag
    <3> HIDE DEF e
    <3>1. CutAt((q \o <<":">>) \o parts.tag, q, ":", parts.tag)
      BY <1>1, <1>2, Cut
    <3> QED
      BY <2>1, <3>1, Zenon DEF CutAt
  <2> HIDE DEF e
  <2> QED
    BY <2>1, <2>4, <2>5 DEF ParseContainerImage, e
<1>5. CASE parts.digest = <<>> /\ parts.tag = <<>>
  <2>1. e = q /\ Meant(parts).reference = Latest
    BY <1>5 DEF Ends, Meant
  <2>2. ~Contains(q, "@") /\ ~Contains(q, ":") /\ Before(q, ":") = q
    BY Uncut
  <2> QED
    BY <2>1, <2>2 DEF ParseContainerImage
<1> QED
  BY <1>3, <1>4, <1>5

-----------------------------------------------------------------------------
(* The registry.                                                           *)

OnDockerHub(parts) == parts.host \in {<<>>, <<"docker.io">>}
Registry(parts)    == IF OnDockerHub(parts) THEN Hub ELSE parts.host

LEMMA SlashAtEnd ==
  ASSUME NEW parts \in Parts, Clear(parts), NEW q \in Seq(Tokens),
         \A i \in 1..Len(q) : q[i] # "/"
  PROVE  ~Contains(Ends(q, parts), "/")
<1> DEFINE e == Ends(q, parts)
<1>1. parts.tag \in Seq(Tokens) /\ parts.digest \in Seq(Tokens)
  BY DEF Parts
<1>2. /\ \A i \in 1..Len(parts.tag) : parts.tag[i] # "/"
      /\ \A i \in 1..Len(parts.digest) : parts.digest[i] # "/"
  BY <1>1, FreeOf DEF Clear
<1>3. ASSUME NEW c \in Tokens, c # "/", NEW t \in Seq(Tokens),
             \A i \in 1..Len(t) : t[i] # "/"
      PROVE  ~Contains((q \o <<c>>) \o t, "/")
  <2> DEFINE first == q \o <<c>>
             w == first \o t
  <2>1. <<c>> \in Seq(Tokens) /\ Len(<<c>>) = 1 /\ <<c>>[1] = c
    BY Single
  <2>2. /\ first \in Seq(Tokens) /\ Len(first) = Len(q) + 1 /\ Len(q) \in Nat
        /\ \A i \in 1..Len(q) : first[i] = q[i]
        /\ first[Len(q) + 1] = c
    BY <2>1, Together
  <2> HIDE DEF first
  <2>3. \A i \in 1..Len(first) : first[i] # "/"
    BY <1>3, <2>2
  <2>4. /\ Len(w) = Len(first) + Len(t) /\ Len(t) \in Nat
        /\ \A i \in 1..Len(first) : w[i] = first[i]
        /\ \A i \in 1..Len(t) : w[Len(first) + i] = t[i]
    BY <2>2, Together
  <2> HIDE DEF w
  <2>5. ASSUME NEW i \in 1..Len(w), w[i] = "/" PROVE FALSE
    <3>1. CASE i \in 1..Len(first)
      BY <2>3, <2>4, <2>5, <3>1
    <3>2. CASE i \notin 1..Len(first)
      <4>1. i - Len(first) \in 1..Len(t) /\ Len(first) + (i - Len(first)) = i
        BY <2>2, <2>4, <3>2
      <4> QED
        BY <1>3, <2>4, <2>5, <4>1
    <3> QED
      BY <3>1, <3>2
  <2> QED
    BY <2>5 DEF Contains, w, first
<1>4. ~Contains(q, "/")
  BY DEF Contains
<1>5. /\ ~Contains((q \o <<"@">>) \o parts.digest, "/")
      /\ ~Contains((q \o <<":">>) \o parts.tag, "/")
  BY <1>1, <1>2, <1>3, SeparatorsAreTokens
<1> QED
  BY <1>4, <1>5, Zenon DEF Ends

LEMMA BeginsWithDocker ==
  ASSUME NEW s \in Seq(Tokens), NEW t \in Seq(Tokens),
         \A i \in 1..Len(s) : s[i] # "/"
  PROVE  IsPrefix(<<"docker.io", "/">>, (s \o <<"/">>) \o t) <=> s = <<"docker.io">>
<1> DEFINE first == s \o <<"/">>
           w == first \o t
           d == <<"docker.io", "/">>
<1>1. <<"/">> \in Seq(Tokens) /\ Len(<<"/">>) = 1 /\ <<"/">>[1] = "/"
  BY SeparatorsAreTokens, Single
<1>2. /\ first \in Seq(Tokens) /\ Len(first) = Len(s) + 1 /\ Len(s) \in Nat
      /\ \A i \in 1..Len(s) : first[i] = s[i]
      /\ first[Len(s) + 1] = "/"
  BY <1>1, Together
<1> HIDE DEF first
<1>3. /\ w \in Seq(Tokens) /\ Len(w) = Len(first) + Len(t) /\ Len(t) \in Nat
      /\ \A i \in 1..Len(first) : w[i] = first[i]
  BY <1>2, Together
<1> HIDE DEF w
<1>4. d \in Seq(Tokens) /\ Len(d) = 2 /\ d[1] = "docker.io" /\ d[2] = "/"
  BY DEF Tokens
<1> HIDE DEF d
<1>5. SubSeq(d, 1, Len(d)) = d
  BY <1>4, SubSeqFull
<1>6. Len(w) >= 2 => /\ SubSeq(w, 1, 2) \in Seq(Tokens) /\ Len(SubSeq(w, 1, 2)) = 2
                     /\ SubSeq(w, 1, 2)[1] = w[1] /\ SubSeq(w, 1, 2)[2] = w[2]
  BY <1>3
<1>7. IsPrefix(d, w) <=> Len(w) >= 2 /\ w[1] = "docker.io" /\ w[2] = "/"
  <2> DEFINE part == SubSeq(w, 1, 2)
  <2>1. IsPrefix(d, w) <=> 2 <= Len(w) /\ d = part
    BY <1>4, <1>5 DEF IsPrefix
  <2> HIDE DEF part
  <2>2. Len(w) >= 2 => (d = part <=> d[1] = part[1] /\ d[2] = part[2])
    <3>1. ASSUME Len(w) >= 2, d[1] = part[1], d[2] = part[2] PROVE d = part
      <4>1. Len(d) = Len(part) /\ \A i \in 1..Len(d) : d[i] = part[i]
        BY <1>4, <1>6, <3>1 DEF part
      <4> QED
        BY <1>4, <1>6, <3>1, <4>1, SeqEqual DEF part
    <3> QED
      BY <3>1
  <2>3. Len(w) \in Nat
    BY <1>3
  <2> QED
    BY <1>4, <1>6, <2>1, <2>2, <2>3 DEF part
<1>8. ASSUME s = <<"docker.io">> PROVE IsPrefix(d, w)
  <2>1. Len(s) = 1 /\ s[1] = "docker.io"
    BY <1>8
  <2> QED
    BY <1>2, <1>3, <1>7, <2>1
<1>9. ASSUME IsPrefix(d, w) PROVE s = <<"docker.io">>
  <2>1. Len(w) >= 2 /\ w[1] = "docker.io" /\ w[2] = "/"
    BY <1>7, <1>9
  <2>2. Len(s) # 0
    <3>1. ASSUME Len(s) = 0 PROVE FALSE
      BY <1>2, <1>3, <2>1, <3>1
    <3> QED
      BY <3>1
  <2>3. s[1] = "docker.io"
    BY <1>2, <1>3, <2>1, <2>2
  <2>4. Len(s) < 2
    <3>1. ASSUME Len(s) >= 2 PROVE FALSE
      <4>1. w[2] = s[2]
        BY <1>2, <1>3, <3>1
      <4> QED
        BY <1>2, <2>1, <3>1, <4>1
    <3> QED
      BY <1>2, <3>1
  <2>5. Len(s) = 1
    <3>1. \A n \in Nat : n # 0 /\ n < 2 => n = 1
      OBVIOUS
    <3> QED
      BY <1>2, <2>2, <2>4, <3>1, Zenon
  <2> QED
    BY <2>3, <2>5
<1> QED
  BY <1>8, <1>9 DEF d, w, first

(* A name behind a registry, completed or as it is written.                *)
Behind(registry, parts) == (registry \o <<"/">>) \o Ends(Meant(parts).name, parts)

LEMMA LiteralsAreTokens ==
  /\ Hub \in Seq(Tokens) /\ <<"/">> \in Seq(Tokens) /\ <<"library", "/">> \in Seq(Tokens)
  /\ <<"docker.io">> \in Seq(Tokens)
  BY DEF Tokens, Hub

LEMMA NoSlashNoPrefix ==
  ASSUME NEW s \in Seq(Tokens), ~Contains(s, "/")
  PROVE  ~IsPrefix(<<"docker.io", "/">>, s)
<1> DEFINE d == <<"docker.io", "/">>
<1> SUFFICES ASSUME IsPrefix(d, s) PROVE FALSE
  OBVIOUS
<1>1. d \in Seq(Tokens) /\ Len(d) = 2 /\ d[2] = "/"
  BY DEF Tokens
<1> HIDE DEF d
<1>2. SubSeq(d, 1, Len(d)) = d
  BY <1>1, SubSeqFull
<1>3. Len(s) >= 2 /\ SubSeq(s, 1, 2) = d
  BY <1>1, <1>2 DEF IsPrefix
<1>4. SubSeq(s, 1, 2)[2] = s[2]
  BY <1>3
<1>5. 2 \in 1..Len(s) /\ s[2] = "/"
  BY <1>1, <1>3, <1>4
<1> QED
  BY <1>5 DEF Contains

LEMMA CompletedOfficial ==
  ASSUME NEW parts \in Parts, Clear(parts), parts.host = <<>>, ~Contains(parts.path, "/")
  PROVE  /\ FixDockerHubImage(Written(parts)) = Behind(Hub, parts)
         /\ Host(Written(parts)) = Hub
<1> DEFINE image == Ends(parts.path, parts)
           lib == <<"library", "/">>
<1>1. parts.path \in Seq(Tokens) /\ image \in Seq(Tokens)
  BY EndsRegroup DEF Parts
<1>2. Written(parts) = image
  <2>1. HostPart(parts) \o parts.path = parts.path
    BY <1>1, ConcatEmptySeq DEF HostPart
  <2> QED
    BY <2>1, WrittenEnds
<1>3. ~Contains(image, "/")
  <2>1. \A i \in 1..Len(parts.path) : parts.path[i] # "/"
    BY DEF Contains
  <2> QED
    BY <1>1, <2>1, SlashAtEnd
<1>4. Meant(parts).name = lib \o parts.path
  BY DEF Meant
<1>5. lib \o image = Ends(lib \o parts.path, parts)
  BY <1>1, LiteralsAreTokens, EndsRegroup
<1> HIDE DEF image
<1>6. OnHub(image) /\ Host(image) = Hub
  BY <1>3 DEF OnHub, Host
<1>7. FixDockerHubImage(image) = Hub \o <<"/", "library", "/">> \o image
  <2>1. ~IsPrefix(<<"docker.io", "/">>, image)
    BY <1>1, <1>3, NoSlashNoPrefix DEF image
  <2> QED
    BY <1>3, <1>6, <2>1, Zenon DEF FixDockerHubImage
<1>8. Hub \o <<"/", "library", "/">> = (Hub \o <<"/">>) \o lib
  BY DEF Hub
<1>9. Hub \o <<"/">> \in Seq(Tokens)
  BY LiteralsAreTokens, Together
<1> HIDE DEF lib
<1>10. lib \in Seq(Tokens)
  BY LiteralsAreTokens DEF lib
<1>11. ((Hub \o <<"/">>) \o lib) \o image = (Hub \o <<"/">>) \o (lib \o image)
  <2>1. Regroups(Hub \o <<"/">>, lib, image)
    BY <1>1, <1>9, <1>10, Regroup
  <2> QED
    BY <2>1, Zenon DEF Regroups
<1> QED
  BY <1>2, <1>4, <1>5, <1>6, <1>7, <1>8, <1>11, Zenon DEF Behind

LEMMA CompletedOrganization ==
  ASSUME NEW parts \in Parts, Clear(parts), parts.host = <<>>, Contains(parts.path, "/")
  PROVE  /\ FixDockerHubImage(Written(parts)) = Behind(Hub, parts)
         /\ Host(Written(parts)) = Hub
<1> DEFINE image == Ends(parts.path, parts)
<1>1. parts.path \in Seq(Tokens) /\ image \in Seq(Tokens) /\ "/" \in Tokens
  BY EndsRegroup, SeparatorsAreTokens DEF Parts
<1>2. Written(parts) = image
  <2>1. HostPart(parts) \o parts.path = parts.path
    BY <1>1, ConcatEmptySeq DEF HostPart
  <2> QED
    BY <2>1, WrittenEnds
<1>3. PICK s \in Seq(Tokens), t \in Seq(Tokens) :
        /\ parts.path = (s \o <<"/">>) \o t
        /\ \A i \in 1..Len(s) : s[i] # "/"
  BY <1>1, FirstOf
<1>4. Before(parts.path, "/") = s
  <2>1. CutAt((s \o <<"/">>) \o t, s, "/", t)
    BY <1>1, <1>3, Cut
  <2> QED
    BY <1>3, <2>1, Zenon DEF CutAt
<1>5. Free(s, Dotted)
  BY <1>4 DEF Clear
<1> DEFINE rest == Ends(t, parts)
<1>6. image = (s \o <<"/">>) \o rest /\ rest \in Seq(Tokens)
  <2> DEFINE first == s \o <<"/">>
  <2>1. first \in Seq(Tokens)
    BY LiteralsAreTokens, Together
  <2> HIDE DEF first
  <2>2. rest \in Seq(Tokens) /\ first \o rest = Ends(first \o t, parts)
    BY <2>1, EndsRegroup
  <2>3. image = Ends(first \o t, parts)
    BY <1>3, Zenon DEF first
  <2> QED
    BY <2>2, <2>3 DEF first
<1>7. Meant(parts).name = parts.path
  BY DEF Meant
<1> HIDE DEF image, rest
<1>8. Contains(image, "/") /\ Before(image, "/") = s
  <2>1. CutAt((s \o <<"/">>) \o rest, s, "/", rest)
    BY <1>1, <1>3, <1>6, Cut
  <2> QED
    BY <1>6, <2>1, Zenon DEF CutAt
<1>9. ~IsPrefix(<<"docker.io", "/">>, image)
  <2>1. s # <<"docker.io">>
    <3>1. ASSUME s = <<"docker.io">> PROVE FALSE
      <4>1. "docker.io" \in ToSet(s) /\ "docker.io" \in Dotted
        BY <3>1 DEF ToSet, Dotted
      <4> QED
        BY <1>5, <4>1 DEF Free
    <3> QED
      BY <3>1
  <2> QED
    BY <1>3, <1>6, <2>1, BeginsWithDocker
<1>10. OnHub(image) /\ Host(image) = Hub
  <2>1. Dotted \cap ToSet(Before(image, "/")) = {}
    BY <1>5, <1>8 DEF Free
  <2> QED
    BY <2>1, Zenon DEF OnHub, Host
<1>11. FixDockerHubImage(image) = (Hub \o <<"/">>) \o image
  BY <1>8, <1>9, <1>10, Zenon DEF FixDockerHubImage
<1> QED
  BY <1>2, <1>7, <1>10, <1>11, Zenon DEF Behind, image

LEMMA CompletedDocker ==
  ASSUME NEW parts \in Parts, Clear(parts), parts.host = <<"docker.io">>
  PROVE  /\ FixDockerHubImage(Written(parts)) = Behind(Hub, parts)
         /\ Host(Written(parts)) = Hub
<1> DEFINE rest == Ends(parts.path, parts)
           d == <<"docker.io">>
           image == (d \o <<"/">>) \o rest
<1>1. parts.path \in Seq(Tokens) /\ rest \in Seq(Tokens) /\ "/" \in Tokens
  BY EndsRegroup, SeparatorsAreTokens DEF Parts
<1>2. Written(parts) = image
  <2> DEFINE first == d \o <<"/">>
  <2>1. HostPart(parts) = first /\ first \in Seq(Tokens)
    BY LiteralsAreTokens, Together DEF HostPart
  <2> HIDE DEF first
  <2>2. Written(parts) = Ends(first \o parts.path, parts)
    BY <2>1, WrittenEnds
  <2>3. first \o rest = Ends(first \o parts.path, parts)
    BY <1>1, <2>1, EndsRegroup
  <2> QED
    BY <2>2, <2>3 DEF first
<1>3. Meant(parts).name = parts.path
  BY DEF Clear, Meant
<1> HIDE DEF rest
<1>4. d \in Seq(Tokens) /\ Len(d) = 1 /\ \A i \in 1..Len(d) : d[i] # "/"
  BY LiteralsAreTokens
<1>5. IsPrefix(<<"docker.io", "/">>, image)
  BY <1>1, <1>4, BeginsWithDocker
<1> HIDE DEF d
<1>6. Contains(image, "/")
  <2>1. CutAt(image, d, "/", rest)
    BY <1>1, <1>4, Cut
  <2> QED
    BY <2>1 DEF CutAt
<1>7. Tail(image) = <<"/">> \o rest
  <2> DEFINE after == <<"/">> \o rest
  <2>1. after \in Seq(Tokens) /\ Len(after) = 1 + Len(rest) /\ Len(rest) \in Nat
    BY <1>1, LiteralsAreTokens, Together
  <2>2. image = d \o after
    <3>1. Regroups(d, <<"/">>, rest)
      BY <1>1, <1>4, LiteralsAreTokens, Regroup
    <3> QED
      BY <3>1, Zenon DEF Regroups, after, image
  <2> HIDE DEF after, image
  <2>3. image \in Seq(Tokens) /\ Len(image) = 1 + Len(after)
    <3>1. Len(d \o after) = Len(d) + Len(after) /\ d \o after \in Seq(Tokens)
      BY <1>4, <2>1, Together
    <3> QED
      BY <1>4, <2>2, <3>1
  <2>4. Tail(image) = SubSeq(image, 2, Len(image))
    BY <2>1, <2>3, TailIsSubSeq
  <2>5. SubSeq(d \o after, Len(d) + 1, Len(d \o after)) = after
    BY <1>4, <2>1, AfterConcat
  <2> QED
    BY <1>4, <2>2, <2>4, <2>5 DEF after
<1> HIDE DEF image
<1>8. OnHub(image) /\ Host(image) = Hub
  BY <1>5 DEF OnHub, Host
<1>9. FixDockerHubImage(image) = Hub \o Tail(image)
  BY <1>5, <1>6, <1>8, Zenon DEF FixDockerHubImage
<1>10. Hub \o (<<"/">> \o rest) = (Hub \o <<"/">>) \o rest
  <2>1. Regroups(Hub, <<"/">>, rest)
    BY <1>1, LiteralsAreTokens, Regroup
  <2> QED
    BY <2>1, Zenon DEF Regroups
<1> QED
  BY <1>2, <1>3, <1>7, <1>8, <1>9, <1>10, Zenon DEF Behind, rest

LEMMA CompletedRegistry ==
  ASSUME NEW parts \in Parts, Clear(parts), ~OnDockerHub(parts)
  PROVE  /\ FixDockerHubImage(Written(parts)) = Behind(parts.host, parts)
         /\ Host(Written(parts)) = parts.host
<1> DEFINE rest == Ends(parts.path, parts)
           image == (parts.host \o <<"/">>) \o rest
<1>1. /\ parts.path \in Seq(Tokens) /\ rest \in Seq(Tokens) /\ "/" \in Tokens
      /\ parts.host \in Seq(Tokens)
  BY EndsRegroup, SeparatorsAreTokens DEF Parts
<1>2. Written(parts) = image
  <2> DEFINE first == parts.host \o <<"/">>
  <2>1. HostPart(parts) = first /\ first \in Seq(Tokens)
    BY <1>1, LiteralsAreTokens, Together DEF HostPart, OnDockerHub
  <2> HIDE DEF first
  <2>2. Written(parts) = Ends(first \o parts.path, parts)
    BY <2>1, WrittenEnds
  <2>3. first \o rest = Ends(first \o parts.path, parts)
    BY <1>1, <2>1, EndsRegroup
  <2> QED
    BY <2>2, <2>3 DEF first
<1>3. Meant(parts).name = parts.path
  BY DEF Meant, OnDockerHub
<1>4. Free(parts.host, {"/", "@"}) /\ ~Free(parts.host, Dotted)
  BY DEF Clear, OnDockerHub
<1>5. \A i \in 1..Len(parts.host) : parts.host[i] # "/"
  BY <1>1, <1>4, FreeOf
<1> HIDE DEF rest
<1>6. Contains(image, "/") /\ Before(image, "/") = parts.host
  <2>1. CutAt(image, parts.host, "/", rest)
    BY <1>1, <1>5, Cut
  <2> QED
    BY <2>1 DEF CutAt
<1>7. ~IsPrefix(<<"docker.io", "/">>, image)
  BY <1>1, <1>5, BeginsWithDocker DEF OnDockerHub
<1> HIDE DEF image
<1>8. ~OnHub(image)
  BY <1>4, <1>6, <1>7, Zenon DEF OnHub, Free
<1>9. FixDockerHubImage(image) = image /\ Host(image) = parts.host
  BY <1>6, <1>7, <1>8, Zenon DEF FixDockerHubImage, Host
<1> QED
  BY <1>2, <1>3, <1>9 DEF Behind, image, rest

LEMMA Completed ==
  ASSUME NEW parts \in Parts, Clear(parts)
  PROVE  /\ FixDockerHubImage(Written(parts)) = Behind(Registry(parts), parts)
         /\ Host(Written(parts)) = Registry(parts)
  BY CompletedOfficial, CompletedOrganization, CompletedDocker, CompletedRegistry
     DEF Registry, OnDockerHub

-----------------------------------------------------------------------------
(* What is asked for.                                                      *)

LEMMA Trimmed ==
  ASSUME NEW registry \in Seq(Tokens), NEW rest \in Seq(Tokens)
  PROVE  TrimPrefix((registry \o <<"/">>) \o rest, Append(registry, "/")) = rest
<1> DEFINE first == registry \o <<"/">>
           w == first \o rest
<1>1. Append(registry, "/") = first /\ first \in Seq(Tokens)
  BY SeparatorsAreTokens, AppendIsConcat, LiteralsAreTokens, Together
<1> HIDE DEF first
<1>2. SubSeq(w, Len(first) + 1, Len(w)) = rest
  BY <1>1, AfterConcat
<1>3. IsPrefix(first, w)
  <2>1. Len(w) = Len(first) + Len(rest) /\ Len(first) \in Nat /\ Len(rest) \in Nat
    BY <1>1, Together
  <2>2. SubSeq(w, 1, Len(first)) = SubSeq(first, 1, Len(first))
    BY <1>1, <2>1, SubSeqOfConcat1
  <2> HIDE DEF w
  <2>3. Len(first) <= Len(w)
    BY <2>1
  <2> QED
    BY <2>2, <2>3, Zenon DEF IsPrefix
<1> QED
  BY <1>1, <1>2, <1>3, Zenon DEF TrimPrefix, first

LEMMA FreeParts ==
  ASSUME NEW parts \in Parts, Clear(parts)
  PROVE  /\ \A i \in 1..Len(parts.path) : parts.path[i] \notin {":", "@"}
         /\ Meant(parts).name \in Seq(Tokens)
         /\ \A i \in 1..Len(Meant(parts).name) : Meant(parts).name[i] \notin {":", "@"}
<1> DEFINE lib == <<"library", "/">>
           long == lib \o parts.path
<1>1. parts.path \in Seq(Tokens)
  BY DEF Parts
<1>2. \A i \in 1..Len(parts.path) : parts.path[i] \notin {":", "@"}
  BY <1>1, FreeOf DEF Clear
<1>3. /\ lib \in Seq(Tokens) /\ Len(lib) = 2
      /\ \A i \in 1..Len(lib) : lib[i] \notin {":", "@"}
  BY LiteralsAreTokens
<1> HIDE DEF lib
<1>4. /\ long \in Seq(Tokens) /\ Len(long) = Len(lib) + Len(parts.path)
      /\ Len(parts.path) \in Nat
      /\ \A i \in 1..Len(lib) : long[i] = lib[i]
      /\ \A i \in 1..Len(parts.path) : long[Len(lib) + i] = parts.path[i]
  BY <1>1, <1>3, Together
<1> HIDE DEF long
<1>5. ASSUME NEW i \in 1..Len(long) PROVE long[i] \notin {":", "@"}
  <2>1. CASE i \in 1..Len(lib)
    BY <1>3, <1>4, <2>1
  <2>2. CASE i \notin 1..Len(lib)
    <3>1. i - Len(lib) \in 1..Len(parts.path) /\ Len(lib) + (i - Len(lib)) = i
      BY <1>3, <1>4, <2>2
    <3> QED
      BY <1>2, <1>4, <3>1
  <2> QED
    BY <2>1, <2>2
<1>6. Meant(parts).name \in {long, parts.path}
  BY DEF Meant, long, lib
<1> QED
  BY <1>1, <1>2, <1>4, <1>5, <1>6

(* For a clear name, a client that finds its registry asks that registry   *)
(* for the repository and the reference the name stands for.               *)
LEMMA ClearNamesResolve ==
  ASSUME NEW parts \in Parts, Clear(parts)
  PROVE  LET host == Host(Written(parts))
         IN  Asked(FixDockerHubImage(Written(parts)), host, Https \o host) = Meant(parts)
<1> DEFINE registry == Registry(parts)
           meant == Meant(parts)
           rest == Ends(meant.name, parts)
<1>1. registry \in Seq(Tokens)
  BY LiteralsAreTokens DEF Registry, Parts
<1>2. /\ meant.name \in Seq(Tokens)
      /\ \A i \in 1..Len(meant.name) : meant.name[i] \notin {":", "@"}
  BY FreeParts
<1>3. meant = [address |-> Https \o registry, name |-> meant.name,
               reference |-> meant.reference]
  BY DEF Meant, Registry, OnDockerHub
<1> HIDE DEF registry
<1>4. ParseContainerImage(rest) = [name |-> meant.name, reference |-> meant.reference]
  BY <1>2, ParseEnds
<1>5. rest \in Seq(Tokens)
  BY <1>2, EndsRegroup
<1> HIDE DEF meant
<1>6. TrimPrefix((registry \o <<"/">>) \o rest, Append(registry, "/")) = rest
  BY <1>1, <1>5, Trimmed
<1> HIDE DEF rest
<1>7. /\ FixDockerHubImage(Written(parts)) = (registry \o <<"/">>) \o rest
      /\ Host(Written(parts)) = registry
  BY Completed, Zenon DEF Behind, registry, rest, meant
<1>8. Asked((registry \o <<"/">>) \o rest, registry, Https \o registry) = meant
  BY <1>3, <1>4, <1>6 DEF Asked
<1> QED
  BY <1>7, <1>8, Zenon DEF meant

(* For a clear name without a port, the reference is seen in the name as   *)
(* it is written.                                                          *)
LEMMA ReferenceSeen ==
  ASSUME NEW parts \in Parts, Clear(parts), ~Contains(parts.host, ":")
  PROVE  ParseContainerImage(Written(parts)).reference = Meant(parts).reference
<1> DEFINE front == HostPart(parts)
           q == front \o parts.path
<1>1. parts.path \in Seq(Tokens) /\ parts.host \in Seq(Tokens)
  BY DEF Parts
<1>2. front \in Seq(Tokens) /\ \A i \in 1..Len(front) : front[i] \notin {":", "@"}
  <2>1. CASE parts.host = <<>>
    BY <2>1 DEF HostPart
  <2>2. CASE parts.host # <<>>
    <3>1. front = parts.host \o <<"/">>
      BY <2>2 DEF HostPart
    <3>2. \A i \in 1..Len(parts.host) : parts.host[i] \notin {":", "@"}
      <4>1. \A i \in 1..Len(parts.host) : parts.host[i] # ":"
        BY DEF Contains
      <4>2. \A i \in 1..Len(parts.host) : parts.host[i] # "@"
        <5>1. Free(parts.host, {"/", "@"})
          BY <2>2 DEF Clear
        <5> QED
          BY <1>1, <5>1, FreeOf
      <4> QED
        BY <4>1, <4>2
    <3> HIDE DEF front
    <3>3. /\ front \in Seq(Tokens) /\ Len(front) = Len(parts.host) + 1
          /\ Len(parts.host) \in Nat
          /\ \A i \in 1..Len(parts.host) : front[i] = parts.host[i]
          /\ front[Len(parts.host) + 1] = "/"
      BY <1>1, <3>1, SeparatorsAreTokens, Single, Together
    <3> QED
      BY <3>2, <3>3
  <2> QED
    BY <2>1, <2>2
<1> HIDE DEF front
<1>3. \A i \in 1..Len(parts.path) : parts.path[i] \notin {":", "@"}
  BY FreeParts
<1>4. /\ q \in Seq(Tokens) /\ Len(q) = Len(front) + Len(parts.path)
      /\ Len(front) \in Nat /\ Len(parts.path) \in Nat
      /\ \A i \in 1..Len(front) : q[i] = front[i]
      /\ \A i \in 1..Len(parts.path) : q[Len(front) + i] = parts.path[i]
  BY <1>1, <1>2, Together
<1> HIDE DEF q
<1>5. ASSUME NEW i \in 1..Len(q) PROVE q[i] \notin {":", "@"}
  <2>1. CASE i \in 1..Len(front)
    BY <1>2, <1>4, <2>1
  <2>2. CASE i \notin 1..Len(front)
    <3>1. i - Len(front) \in 1..Len(parts.path) /\ Len(front) + (i - Len(front)) = i
      BY <1>4, <2>2
    <3> QED
      BY <1>3, <1>4, <3>1
  <2> QED
    BY <2>1, <2>2
<1>6. Written(parts) = Ends(q, parts)
  BY WrittenEnds DEF q, front
<1>7. ParseContainerImage(Ends(q, parts)) = [name |-> q, reference |-> Meant(parts).reference]
  BY <1>4, <1>5, ParseEnds
<1> QED
  BY <1>6, <1>7
=============================================================================
