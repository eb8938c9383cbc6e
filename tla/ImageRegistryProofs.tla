------------------------ MODULE ImageRegistryProofs -------------------------
(***************************************************************************)
(* The safety properties of ImageRegistry, for any number of calls, any    *)
(* containers and pull secrets, and any bounds.                            *)
(***************************************************************************)
EXTENDS ImageRegistry, ImageNamesProofs, FiniteSetTheorems

-----------------------------------------------------------------------------
(* Types, and the counters, without which count has no bound.              *)

Typed(r) ==
  /\ req[r].pc \in Pcs /\ "pc" \in DOMAIN req[r]
  /\ ~At(r, "none") => "ctr" \in DOMAIN req[r] /\ req[r].ctr \in Containers
  /\ At(r, "secrets") => /\ "k" \in DOMAIN req[r]
                         /\ req[r].k \in 1..(Len(PullSecrets(r)) + 1)
  /\ At(r, "token") \/ At(r, "requested") => "expires" \notin DOMAIN req[r]

SharedTyped ==
  /\ published \in [Tags -> 1..MaxVersion]
  /\ DOMAIN imageCache \subseteq {Image(ctr) : ctr \in Containers}
  /\ \A a \in DOMAIN tokenCache : tokenCache[a].expires \in Nat
  /\ \A r \in Requests : HoldsToken(r) => req[r].expires \in Nat
  /\ now \in 0..MaxTime
  /\ count \in [Counters -> Nat]

TypeInv ==
  /\ DOMAIN req = Requests
  /\ \A r \in Requests : Typed(r)
  /\ SharedTyped

Succeeded == {r \in Requests : At(r, "answered")}
Failed    == {r \in Requests : At(r, "failed")}
LookedUp  == {r \in Requests : ~At(r, "none") /\ Cacheable(req[r].ctr)}

Active(r) == req[r].pc \in {"secrets", "token", "requested", "fetch", "blob"}

(* The steps of a call that is neither begun nor ended by them.            *)
Proceed(r) ==
  \/ NextSecret(r) \/ SecretMatches(r) \/ NoSecretLeft(r)
  \/ UseCachedToken(r) \/ RequestToken(r) \/ ReceiveToken(r) \/ TokenFails(r)
  \/ FetchManifest(r)

LEMMA PullSecretsAreFinite ==
  ASSUME NEW ctr \in Containers PROVE Len(ctr.secrets \o Default) \in Nat
  BY RegistryAssumption

LEMMA TypeInit == Init => TypeInv
  BY RegistryAssumption
     DEF Init, TypeInv, Typed, SharedTyped, HoldsToken, Fetching, At, Pcs, Counters

LEMMA TypeBegin ==
  ASSUME TypeInv, NEW r \in Requests, NEW ctr \in Containers,
         Hit(r, ctr) \/ Miss(r, ctr)
  PROVE  TypeInv'
<1>1. \A q \in Requests : Typed(q)'
  BY PullSecretsAreFinite
     DEF TypeInv, Typed, Hit, Miss, At, Pcs, PullSecrets
<1>2. SharedTyped'
  BY DEF TypeInv, SharedTyped, Hit, Miss, Counted, Counters, HoldsToken, Fetching, At, shared
<1> QED
  BY <1>1, <1>2 DEF TypeInv, Hit, Miss

(* The manifest adds the config to the call, and the call keeps the rest.  *)
LEMMA ManifestKeeps ==
  ASSUME TypeInv, NEW r \in Requests, FetchManifest(r)
  PROVE  /\ req[r].pc = "fetch" /\ req'[r].pc = "blob"
         /\ req'[r].ctr = req[r].ctr
         /\ req'[r].config = [of |-> req[r].place, version |-> Served(req[r].place)]
         /\ DOMAIN req'[r] = DOMAIN req[r] \cup {"config"}
         /\ \A f \in DOMAIN req[r] \ {"pc", "config"} : req'[r][f] = req[r][f]
         /\ DOMAIN req' = Requests
         /\ \A q \in Requests \ {r} : req'[q] = req[q]
<1>1. /\ At(r, "fetch") /\ DOMAIN req = Requests
      /\ "pc" \in DOMAIN req[r] /\ "ctr" \in DOMAIN req[r]
  BY DEF FetchManifest, TypeInv, Typed, At
<1> DEFINE config == [of |-> req[r].place, version |-> Served(req[r].place)]
<1>2. req'[r] = Put(Put(req[r], "pc", "blob"), "config", config)
  BY <1>1 DEF FetchManifest
<1>3. DOMAIN req' = Requests /\ \A q \in Requests \ {r} : req'[q] = req[q]
  BY <1>1 DEF FetchManifest
<1> HIDE DEF config
<1>4. /\ DOMAIN req'[r] = DOMAIN req[r] \cup {"config"}
      /\ req'[r]["pc"] = "blob" /\ req'[r]["config"] = config
      /\ \A f \in DOMAIN req[r] \ {"pc", "config"} : req'[r][f] = req[r][f]
  BY <1>1, <1>2 DEF Put
<1>5. req'[r]["ctr"] = req[r]["ctr"]
  BY <1>1, <1>4
<1> QED
  BY <1>1, <1>3, <1>4, <1>5 DEF config, At

LEMMA ManifestKeepsToken ==
  ASSUME TypeInv, NEW r \in Requests, FetchManifest(r), HoldsToken(r)'
  PROVE  /\ HoldsToken(r)
         /\ "expires" \in DOMAIN req[r]
         /\ req'[r].expires = req[r].expires
<1>1. req[r].pc = "fetch" /\ "expires" \in DOMAIN req'[r]
  BY ManifestKeeps DEF HoldsToken
<1>2. "expires" \in DOMAIN req[r]
  <2>1. DOMAIN req'[r] = DOMAIN req[r] \cup {"config"}
    BY ManifestKeeps
  <2> QED
    BY <1>1, <2>1
<1>3. req'[r]["expires"] = req[r]["expires"]
  BY <1>2, ManifestKeeps
<1> QED
  BY <1>1, <1>2, <1>3 DEF HoldsToken, Fetching, At

LEMMA TypeProceed ==
  ASSUME TypeInv, NEW r \in Requests, Proceed(r)
  PROVE  TypeInv'
<1> USE DEF NextSecret, SecretMatches, NoSecretLeft, Reading, Resolved,
            UseCachedToken, RequestToken, ReceiveToken, TokenFails, WithToken
<1>1. \A q \in Requests : Typed(q)'
  <2>1. \A q \in Requests \ {r} : Typed(q)'
    <3>1. \A q \in Requests \ {r} : req'[q] = req[q]
      BY ManifestKeeps DEF Proceed, TypeInv
    <3> QED
      BY <3>1 DEF TypeInv, Typed, At, PullSecrets
  <2>2. CASE NextSecret(r)
    <3>1. Len(PullSecrets(r)) \in Nat
      BY <2>2, PullSecretsAreFinite DEF TypeInv, Typed, At, PullSecrets
    <3>2. Typed(r)'
      BY <2>2, <3>1 DEF TypeInv, Typed, At, Pcs, PullSecrets
    <3> QED
      BY <2>1, <3>2
  <2>3. SecretMatches(r) => Typed(r)'
    BY DEF TypeInv, Typed, At, Pcs
  <2>4. NoSecretLeft(r) => Typed(r)'
    BY DEF TypeInv, Typed, At, Pcs
  <2>5. UseCachedToken(r) => Typed(r)'
    BY DEF TypeInv, Typed, At, Pcs
  <2>6. ReceiveToken(r) => Typed(r)'
    BY DEF TypeInv, Typed, At, Pcs
  <2>7. FetchManifest(r) => Typed(r)'
    BY ManifestKeeps DEF TypeInv, Typed, At, Pcs
  <2>8. RequestToken(r) => Typed(r)'
    BY DEF TypeInv, Typed, At, Pcs
  <2>9. TokenFails(r) => Typed(r)'
    BY DEF TypeInv, Typed, At, Pcs
  <2> QED
    BY <2>1, <2>2, <2>3, <2>4, <2>5, <2>6, <2>7, <2>8, <2>9 DEF Proceed
<1>2. SharedTyped'
  <2>1. UNCHANGED <<published, imageCache, now, count>>
    BY DEF Proceed, FetchManifest, shared
  <2>2. \A a \in DOMAIN tokenCache' : tokenCache'[a].expires \in Nat
    BY RegistryAssumption DEF Proceed, FetchManifest, TypeInv, SharedTyped, Put, shared
  <2>3. \A q \in Requests : HoldsToken(q)' => req'[q].expires \in Nat
    <3>1. \A q \in Requests \ {r} : HoldsToken(q)' => req'[q].expires \in Nat
      <4>1. \A q \in Requests \ {r} : req'[q] = req[q]
        BY ManifestKeeps DEF Proceed, TypeInv
      <4> QED
        BY <4>1 DEF TypeInv, SharedTyped, HoldsToken, Fetching, At
    <3>2. CASE UseCachedToken(r)
      BY <3>1, <3>2 DEF TypeInv, SharedTyped, Kept
    <3>3. CASE ReceiveToken(r)
      BY <3>1, <3>3, RegistryAssumption DEF TypeInv, SharedTyped
    <3>4. CASE FetchManifest(r)
      <4>1. HoldsToken(r)' => HoldsToken(r) /\ req'[r].expires = req[r].expires
        BY <3>4, ManifestKeepsToken
      <4> QED
        BY <3>1, <4>1 DEF TypeInv, SharedTyped
    <3>5. CASE NextSecret(r) \/ SecretMatches(r) \/ NoSecretLeft(r)
                 \/ RequestToken(r) \/ TokenFails(r)
      BY <3>1, <3>5, SMTT(20) DEF TypeInv, Typed, HoldsToken, Fetching, At
    <3> QED
      BY <3>2, <3>3, <3>4, <3>5 DEF Proceed
  <2> QED
    BY <2>1, <2>2, <2>3 DEF TypeInv, SharedTyped
<1> QED
  BY <1>1, <1>2, ManifestKeeps DEF Proceed, TypeInv

LEMMA TypeFail ==
  ASSUME TypeInv, NEW r \in Requests, Active(r), Fail(r)
  PROVE  TypeInv'
<1>1. \A q \in Requests : Typed(q)'
  BY DEF TypeInv, Typed, Active, Fail, At, Pcs, PullSecrets
<1>2. SharedTyped'
  BY DEF TypeInv, SharedTyped, Fail, Counted, Counters, HoldsToken, Fetching, At, shared
<1> QED
  BY <1>1, <1>2 DEF TypeInv, Fail

LEMMA TypeBlob ==
  ASSUME TypeInv, NEW r \in Requests, FetchBlob(r)
  PROVE  TypeInv'
<1>1. \A q \in Requests : Typed(q)'
  BY DEF TypeInv, Typed, FetchBlob, At, Pcs, PullSecrets
<1>2. SharedTyped'
  BY DEF TypeInv, Typed, SharedTyped, FetchBlob, Counted, Counters, HoldsToken, Fetching, At, Put
<1> QED
  BY <1>1, <1>2 DEF TypeInv, FetchBlob

LEMMA TypeWorld ==
  ASSUME TypeInv, Tick \/ \E t \in Tags : MoveTag(t)
  PROVE  TypeInv'
<1>1. \A q \in Requests : Typed(q)'
  BY DEF TypeInv, Typed, Tick, MoveTag, At, PullSecrets
<1>2. SharedTyped'
  <2>1. \A q \in Requests : HoldsToken(q)' => req'[q].expires \in Nat
    <3>1. UNCHANGED req
      BY DEF Tick, MoveTag
    <3> QED
      BY <3>1 DEF TypeInv, SharedTyped, HoldsToken, Fetching, At
  <2> QED
    BY <2>1, RegistryAssumption DEF TypeInv, SharedTyped, Tick, MoveTag
<1> QED
  BY <1>1, <1>2 DEF TypeInv, Tick, MoveTag

(* Next, by what its steps do to the calls: one is begun, goes on, fails   *)
(* or is answered, or the world changes around them.                       *)
LEMMA NextSplits ==
  ASSUME Next
  PROVE  \/ \E r \in Requests, ctr \in Containers : Hit(r, ctr) \/ Miss(r, ctr)
         \/ \E r \in Requests : Proceed(r) \/ FetchBlob(r)
         \/ \E r \in Requests : Active(r) /\ Fail(r)
         \/ Tick \/ \E t \in Tags : MoveTag(t)
  BY DEF Next, Step, Proceed, SecretFails, SecretUnusable, TokenUndecodable,
         FetchFails, Fetching, Reading, Active, At

LEMMA TypeStep == TypeInv /\ [Next]_vars => TypeInv'
<1>1. TypeInv /\ Next => TypeInv'
  BY NextSplits, TypeBegin, TypeProceed, TypeBlob, TypeFail, TypeWorld
<1>2. TypeInv /\ UNCHANGED vars => TypeInv'
  BY DEF TypeInv, Typed, SharedTyped, vars, At, PullSecrets, HoldsToken, Fetching
<1> QED
  BY <1>1, <1>2

-----------------------------------------------------------------------------
(* The counters count sets of calls: a step adds one to a counter and one  *)
(* call to its set, or nothing to either.                                  *)

LEMMA OneMore ==
  ASSUME NEW S, IsFiniteSet(S), NEW T \in SUBSET S, NEW x, x \notin T
  PROVE  Cardinality(T \cup {x}) = Cardinality(T) + 1
  BY FS_Subset, FS_AddElement

SetsAgree ==
  /\ count["success"] = Cardinality(Succeeded)
  /\ count["failed"] = Cardinality(Failed)
  /\ count["hits"] + count["misses"] = Cardinality(LookedUp)

LEMMA CountersAreSets == CountersAgree <=> SetsAgree
  BY DEF CountersAgree, SetsAgree, Succeeded, Failed, LookedUp

LEMMA CountInit == Init => SetsAgree
<1> SUFFICES ASSUME Init PROVE SetsAgree
  OBVIOUS
<1>1. Succeeded = {} /\ Failed = {} /\ LookedUp = {}
  BY DEF Init, Succeeded, Failed, LookedUp, At
<1>2. \A c \in Counters : count[c] = 0
  BY DEF Init
<1> QED
  BY <1>1, <1>2, FS_EmptySet DEF Counters, SetsAgree

(* What a step does to the sets.                                           *)
Grows(succeeded, failed, lookedUp) ==
  /\ Succeeded' = Succeeded \cup succeeded
  /\ Failed' = Failed \cup failed
  /\ LookedUp' = LookedUp \cup lookedUp

LEMMA CountHit ==
  ASSUME TypeInv, SetsAgree, NEW r \in Requests, NEW ctr \in Containers,
         Hit(r, ctr)
  PROVE  SetsAgree'
<1>1. Grows({r}, {}, {r}) /\ r \notin Succeeded /\ r \notin LookedUp
  BY DEF Grows, TypeInv, Succeeded, Failed, LookedUp, Hit, At
<1>2. /\ count'["success"] = count["success"] + 1
      /\ count'["failed"] = count["failed"]
      /\ count'["hits"] + count'["misses"] = count["hits"] + count["misses"] + 1
  BY DEF TypeInv, SharedTyped, Hit, Counted, Counters
<1>3. /\ Cardinality(Succeeded') = Cardinality(Succeeded) + 1
      /\ Cardinality(LookedUp') = Cardinality(LookedUp) + 1
  BY <1>1, OneMore, RegistryAssumption DEF Grows, Succeeded, LookedUp
<1> QED
  BY <1>1, <1>2, <1>3 DEF SetsAgree, Grows

LEMMA CountMiss ==
  ASSUME TypeInv, SetsAgree, NEW r \in Requests, NEW ctr \in Containers,
         Miss(r, ctr)
  PROVE  SetsAgree'
<1>1. Grows({}, {}, IF Cacheable(ctr) THEN {r} ELSE {}) /\ r \notin LookedUp
  BY DEF Grows, TypeInv, Succeeded, Failed, LookedUp, Miss, At
<1>2. /\ count'["success"] = count["success"] /\ count'["failed"] = count["failed"]
      /\ count'["hits"] + count'["misses"] =
           count["hits"] + count["misses"] + IF Cacheable(ctr) THEN 1 ELSE 0
  BY DEF TypeInv, SharedTyped, Miss, Counted, Counters
<1>3. Cacheable(ctr) => Cardinality(LookedUp') = Cardinality(LookedUp) + 1
  BY <1>1, OneMore, RegistryAssumption DEF Grows, LookedUp
<1>4. ~Cacheable(ctr) => LookedUp' = LookedUp
  BY <1>1 DEF Grows
<1>5. Succeeded' = Succeeded /\ Failed' = Failed
  BY <1>1 DEF Grows
<1>6. count["hits"] + count["misses"] \in Nat
  BY DEF TypeInv, SharedTyped, Counters
<1> QED
  BY <1>2, <1>3, <1>4, <1>5, <1>6 DEF SetsAgree

LEMMA CountEnd ==
  ASSUME TypeInv, SetsAgree, NEW r \in Requests,
         FetchBlob(r) \/ (Active(r) /\ Fail(r))
  PROVE  SetsAgree'
<1>1. LookedUp' = LookedUp
  <2>1. FetchBlob(r) => Active(r) /\ req'[r].pc # "none" /\ req'[r].ctr = req[r].ctr
    BY DEF TypeInv, Typed, FetchBlob, Active, At
  <2>2. Fail(r) => req'[r].pc # "none" /\ req'[r].ctr = req[r].ctr
    BY DEF TypeInv, Fail
  <2> QED
    BY <2>1, <2>2 DEF TypeInv, LookedUp, FetchBlob, Fail, Active, At
<1>2. /\ count'["hits"] + count'["misses"] = count["hits"] + count["misses"]
      /\ FetchBlob(r) => /\ count'["success"] = count["success"] + 1
                     /\ count'["failed"] = count["failed"]
      /\ Fail(r) => /\ count'["failed"] = count["failed"] + 1
                    /\ count'["success"] = count["success"]
  BY DEF TypeInv, SharedTyped, FetchBlob, Fail, Counted, Counters
<1>3. CASE FetchBlob(r)
  <2>1. Grows({r}, {}, {}) /\ r \notin Succeeded
    BY <1>1, <1>3 DEF Grows, TypeInv, Typed, Succeeded, Failed, FetchBlob, At
  <2> QED
    BY <1>2, <1>3, <2>1, OneMore, RegistryAssumption DEF SetsAgree, Grows, Succeeded
<1>4. CASE Active(r) /\ Fail(r)
  <2>1. /\ req[r].pc \notin {"answered", "failed"} /\ req'[r].pc = "failed"
        /\ \A q \in Requests \ {r} : req'[q] = req[q]
    BY <1>4 DEF TypeInv, Fail, Active
  <2>2. Grows({}, {r}, {}) /\ r \notin Failed
    BY <1>1, <2>1 DEF Grows, Succeeded, Failed, At
  <2> QED
    BY <1>2, <1>4, <2>2, OneMore, RegistryAssumption DEF SetsAgree, Grows, Failed
<1> QED
  BY <1>3, <1>4

(* A call that proceeds is in progress before and after, for the same      *)
(* container, and leaves the others alone.                                 *)
Goes(r) ==
  /\ Active(r) /\ Active(r)'
  /\ req'[r].ctr = req[r].ctr
  /\ \A q \in Requests \ {r} : req'[q] = req[q]

LEMMA Proceeding ==
  ASSUME TypeInv, NEW r \in Requests, Proceed(r)
  PROVE  Goes(r)
<1> USE DEF TypeInv, Typed, Active, Goes, At
<1>1. NextSecret(r) => Goes(r)
  BY DEF NextSecret, Reading
<1>2. SecretMatches(r) => Goes(r)
  BY DEF SecretMatches, Reading, Resolved
<1>3. NoSecretLeft(r) => Goes(r)
  BY DEF NoSecretLeft, Resolved
<1>4. UseCachedToken(r) => Goes(r)
  BY DEF UseCachedToken, WithToken
<1>5. ReceiveToken(r) => Goes(r)
  BY DEF ReceiveToken, WithToken
<1>6. FetchManifest(r) => Goes(r)
  BY ManifestKeeps
<1>7. RequestToken(r) => Goes(r)
  BY DEF RequestToken
<1>8. TokenFails(r) => Goes(r)
  BY DEF TokenFails
<1> QED
  BY <1>1, <1>2, <1>3, <1>4, <1>5, <1>6, <1>7, <1>8 DEF Proceed

LEMMA CountSame ==
  ASSUME TypeInv, SetsAgree,
         \/ \E r \in Requests : Proceed(r)
         \/ Tick \/ \E t \in Tags : MoveTag(t)
         \/ UNCHANGED vars
  PROVE  SetsAgree'
<1>1. UNCHANGED count
  BY DEF Proceed, NextSecret, SecretMatches, NoSecretLeft, UseCachedToken, RequestToken,
         ReceiveToken, TokenFails, FetchManifest, Tick, MoveTag, vars
<1>2. CASE \E r \in Requests : Proceed(r)
  <2> PICK r \in Requests : Proceed(r)
    BY <1>2
  <2>1. Goes(r)
    BY Proceeding
  <2>2. Succeeded' = Succeeded /\ Failed' = Failed /\ LookedUp' = LookedUp
    BY <2>1 DEF Goes, Active, Succeeded, Failed, LookedUp, At
  <2> QED
    BY <1>1, <2>2 DEF SetsAgree
<1>3. CASE UNCHANGED req
  BY <1>1, <1>3 DEF SetsAgree, Succeeded, Failed, LookedUp, At
<1> QED
  BY <1>2, <1>3 DEF Tick, MoveTag, vars

CountInv == TypeInv /\ SetsAgree

LEMMA CountInvariant == Spec => []CountInv
<1>1. Init => CountInv
  BY TypeInit, CountInit DEF CountInv
<1>2. CountInv /\ [Next]_vars => CountInv'
  <2>1. CountInv /\ Next => SetsAgree'
    BY NextSplits, CountHit, CountMiss, CountEnd, CountSame DEF CountInv
  <2> QED
    BY <2>1, TypeStep, CountSame DEF CountInv
<1> QED
  BY <1>1, <1>2, PTL DEF Spec

(* The counters of lookups, hits and misses (registry.go:94-133) agree     *)
(* with the calls and their answers, for any number of calls.              *)
THEOREM RegistryCounters == Spec => []CountersAgree
<1>1. CountInv => CountersAgree
  BY CountersAreSets DEF CountInv
<1> QED
  BY <1>1, CountInvariant, PTL

(* GetImageConfig leaves its calls, both caches and the counters           *)
(* (registry.go:60-137, 321-436) in states of the types they are declared  *)
(* with, whatever the calls' order.                                        *)
THEOREM RegistryTypeCorrect == Spec => []TypeOK
<1>1. CountInv => TypeOK
  <2> SUFFICES ASSUME CountInv PROVE TypeOK
    OBVIOUS
  <2>1. \A S \in SUBSET Requests : Cardinality(S) \in 0..Cardinality(Requests)
    BY RegistryAssumption, FS_Subset, FS_CardinalityType
  <2>2. \A S \in {Succeeded, Failed, LookedUp} :
          Cardinality(S) \in 0..Cardinality(Requests)
    BY <2>1 DEF Succeeded, Failed, LookedUp
  <2>3. Cardinality(Requests) \in Nat
    BY RegistryAssumption, FS_CardinalityType
  <2>4. \A c \in Counters : count[c] \in 0..Cardinality(Requests)
    BY <2>2, <2>3 DEF CountInv, SetsAgree, TypeInv, SharedTyped, Counters
  <2>5. count \in [Counters -> 0..Cardinality(Requests)]
    BY <2>4 DEF CountInv, TypeInv, SharedTyped
  <2> QED
    BY <2>5 DEF CountInv, TypeInv, Typed, SharedTyped, TypeOK
<1> QED
  BY <1>1, CountInvariant, PTL

-----------------------------------------------------------------------------
(* The answers.                                                            *)

NamesRead == \A ctr \in Containers : ReadAsMeant(ctr)

Resolves(ctr, name, address) ==
  Asked(FixDockerHubImage(Image(ctr)), name, address) = Meant(ctr.parts)

NamesResolve ==
  \A ctr \in Containers :
    /\ Resolves(ctr, Host(Image(ctr)), Https \o Host(Image(ctr)))
    /\ \A k \in DOMAIN (ctr.secrets \o Default) :
         (\A j \in 1..(k - 1) : Found(ctr, j) = {}) =>
           \A e \in Found(ctr, k) :
             e.usable => Resolves(ctr, RegistryName(e), RegistryAddress(e))

LEMMA PartsTypes == ASSUME NEW ctr \in Containers PROVE ctr.parts \in Parts
<1>1. ctr.parts \in [host : Seq(STRING), path : Seq(STRING), tag : Seq(STRING),
                     digest : Seq(STRING)]
  BY RegistryAssumption DEF Text
<1>2. \A s \in Seq(STRING) : s \in Seq(Tokens)
  BY DEF Tokens
<1> QED
  BY <1>1, <1>2 DEF Parts

(* Whichever entry is found, and if none is.                               *)
LEMMA NamesReadResolve == NamesRead => NamesResolve
<1>1. ASSUME NEW ctr \in Containers, ReadAsMeant(ctr)
      PROVE  Resolves(ctr, Host(Image(ctr)), Https \o Host(Image(ctr)))
  <2>1. ctr.parts \in Parts /\ Clear(ctr.parts)
    BY <1>1, PartsTypes DEF ReadAsMeant
  <2> QED
    BY <2>1, ClearNamesResolve DEF Resolves, Image
<1>2. ASSUME NEW ctr \in Containers, ReadAsMeant(ctr),
             NEW k \in DOMAIN (ctr.secrets \o Default),
             \A j \in 1..(k - 1) : Found(ctr, j) = {},
             NEW e \in Found(ctr, k), e.usable
      PROVE  RegistryName(e) = Host(Image(ctr)) /\ RegistryAddress(e) = Https \o Host(Image(ctr))
  BY <1>2 DEF ReadAsMeant, EntriesName
<1> QED
  BY <1>1, <1>2, Zenon DEF NamesRead, NamesResolve

HasPlace(r)  == At(r, "token") \/ At(r, "requested") \/ At(r, "fetch")
HasConfig(r) == At(r, "blob") \/ At(r, "answered")

PlaceInv ==
  /\ \A r \in Requests :
       /\ HasPlace(r) => "place" \in DOMAIN req[r] /\ req[r].place = Meant(req[r].ctr.parts)
       /\ HasConfig(r) => req[r].config.of = Meant(req[r].ctr.parts)
  /\ \A ctr \in Containers :
       Image(ctr) \in DOMAIN imageCache =>
         imageCache[Image(ctr)].of = Meant(ctr.parts)

(* The pull secrets a call has passed have no entry for it.                *)
PassedInv ==
  \A r \in Requests : At(r, "secrets") =>
    \A j \in 1..(req[r].k - 1) : Found(req[r].ctr, j) = {}

LEMMA PassedStep ==
  ASSUME TypeInv, PassedInv, Next
  PROVE  PassedInv'
<1> DEFINE Passed(ctr, k) == \A j \in 1..(k - 1) : Found(ctr, j) = {}
<1>1. ASSUME NEW r \in Requests, NEW ctr \in Containers, Miss(r, ctr)
      PROVE  PassedInv'
  <2>1. Passed(ctr, 1)
    OBVIOUS
  <2> HIDE DEF Passed
  <2>2. \A q \in Requests : At(q, "secrets") => Passed(req[q].ctr, req[q].k)
    BY DEF PassedInv, Passed
  <2>3. \A q \in Requests : At(q, "secrets")' => Passed(req'[q].ctr, req'[q].k)
    BY <1>1, <2>1, <2>2 DEF TypeInv, Miss, At
  <2> QED
    BY <2>3 DEF PassedInv, Passed
<1>2. ASSUME NEW r \in Requests, NextSecret(r)
      PROVE  PassedInv'
  <2>1. Passed(req[r].ctr, req[r].k + 1)
    <3>1. Found(req[r].ctr, req[r].k) = {}
      BY <1>2 DEF NextSecret, Entries, Found, PullSecrets, FullName
    <3>2. At(r, "secrets") /\ Passed(req[r].ctr, req[r].k)
      BY <1>2 DEF NextSecret, Reading, PassedInv
    <3>3. req[r].k \in Nat
      BY <3>2 DEF TypeInv, Typed
    <3> QED
      BY <3>1, <3>2, <3>3
  <2> HIDE DEF Passed
  <2>2. \A q \in Requests : At(q, "secrets") => Passed(req[q].ctr, req[q].k)
    BY DEF PassedInv, Passed
  <2>3. \A q \in Requests : At(q, "secrets")' => Passed(req'[q].ctr, req'[q].k)
    BY <1>2, <2>1, <2>2 DEF TypeInv, Typed, NextSecret, Reading, At
  <2> QED
    BY <2>3 DEF PassedInv, Passed
<1>3. ASSUME \A q \in Requests : At(q, "secrets")' => At(q, "secrets") /\ req'[q] = req[q]
      PROVE  PassedInv'
  BY <1>3 DEF PassedInv
<1>4. ASSUME NEW r \in Requests,
             \/ SecretMatches(r) \/ NoSecretLeft(r)
             \/ UseCachedToken(r) \/ RequestToken(r) \/ ReceiveToken(r) \/ TokenFails(r)
             \/ FetchManifest(r) \/ FetchBlob(r) \/ Fail(r) \/ \E ctr \in Containers : Hit(r, ctr)
      PROVE  PassedInv'
  <2>1. /\ \A q \in Requests : q # r => req'[q] = req[q]
        /\ req'[r].pc # "secrets"
    <3>1. SecretMatches(r) \/ NoSecretLeft(r) =>
            req'[r].pc # "secrets" /\ \A q \in Requests : q # r => req'[q] = req[q]
      BY DEF TypeInv, SecretMatches, NoSecretLeft, Resolved
    <3>2. UseCachedToken(r) \/ ReceiveToken(r) =>
            req'[r].pc # "secrets" /\ \A q \in Requests : q # r => req'[q] = req[q]
      <4>1. \A expires : WithToken(r, expires) =>
              req'[r].pc # "secrets" /\ \A q \in Requests : q # r => req'[q] = req[q]
        BY DEF TypeInv, WithToken
      <4>2. UseCachedToken(r) \/ ReceiveToken(r) => \E expires : WithToken(r, expires)
        BY Zenon DEF UseCachedToken, ReceiveToken
      <4> QED
        BY <4>1, <4>2, Zenon
    <3>3. RequestToken(r) \/ TokenFails(r) =>
            req'[r].pc # "secrets" /\ \A q \in Requests : q # r => req'[q] = req[q]
      BY DEF TypeInv, Typed, RequestToken, TokenFails
    <3>4. FetchManifest(r) \/ FetchBlob(r) \/ Fail(r) =>
            req'[r].pc # "secrets" /\ \A q \in Requests : q # r => req'[q] = req[q]
      <4>1. FetchManifest(r) =>
              req'[r].pc # "secrets" /\ \A q \in Requests : q # r => req'[q] = req[q]
        BY ManifestKeeps
      <4>2. FetchBlob(r) \/ Fail(r) =>
              req'[r].pc # "secrets" /\ \A q \in Requests : q # r => req'[q] = req[q]
        BY DEF TypeInv, FetchBlob, Fail
      <4> QED
        BY <4>1, <4>2
    <3>5. (\E ctr \in Containers : Hit(r, ctr)) =>
            req'[r].pc # "secrets" /\ \A q \in Requests : q # r => req'[q] = req[q]
      BY DEF TypeInv, Hit
    <3> QED
      BY <1>4, <3>1, <3>2, <3>3, <3>4, <3>5
  <2> QED
    BY <1>3, <2>1 DEF At
<1>5. ASSUME Tick \/ \E t \in Tags : MoveTag(t)
      PROVE  PassedInv'
  BY <1>3, <1>5 DEF Tick, MoveTag, At
<1> QED
  BY NextSplits, <1>1, <1>2, <1>4, <1>5 DEF Proceed

LEMMA PassedInvariant == Spec => []PassedInv
<1>1. Init => PassedInv
  BY DEF Init, PassedInv, At
<1>2. CountInv /\ PassedInv /\ [Next]_vars => PassedInv'
  <2>1. PassedInv /\ UNCHANGED vars => PassedInv'
    BY DEF PassedInv, vars, At
  <2> QED
    BY <2>1, PassedStep DEF CountInv
<1> QED
  BY <1>1, <1>2, CountInvariant, PTL DEF Spec

(* Two containers that write the same name mean the same image.            *)
LEMMA SameNameSameImage ==
  ASSUME NamesResolve, NEW c \in Containers, NEW d \in Containers,
         Image(c) = Image(d)
  PROVE  Meant(c.parts) = Meant(d.parts)
  BY DEF NamesResolve, Resolves

LEMMA PlaceStep ==
  ASSUME NamesResolve, TypeInv, PassedInv, PlaceInv, Next
  PROVE  PlaceInv'
<1>1. ASSUME NEW r \in Requests, NEW ctr \in Containers, Hit(r, ctr) \/ Miss(r, ctr)
      PROVE  PlaceInv'
  BY <1>1 DEF PlaceInv, TypeInv, Hit, Miss, HasPlace, HasConfig, At, shared
<1>2. ASSUME NEW r \in Requests, SecretMatches(r)
      PROVE  PlaceInv'
  <2>1. req'[r].place = Meant(req[r].ctr.parts)
    <3> DEFINE ctr == req[r].ctr
               k == req[r].k
    <3>1. At(r, "secrets") /\ k <= Len(ctr.secrets \o Default)
      BY <1>2 DEF SecretMatches, Reading, PullSecrets
    <3>2. ctr \in Containers /\ k \in DOMAIN (ctr.secrets \o Default)
      BY <3>1, PullSecretsAreFinite DEF TypeInv, Typed, At
    <3>3. \A j \in 1..(k - 1) : Found(ctr, j) = {}
      BY <3>1 DEF PassedInv
    <3>4. PICK e \in Entries(r) :
            e.usable /\ Resolved(r, RegistryName(e), RegistryAddress(e), "fetch")
      BY <1>2 DEF SecretMatches
    <3>5. e \in Found(ctr, k)
      BY <3>4 DEF Entries, Found, PullSecrets, FullName
    <3>6. Asked(FullName(r), RegistryName(e), RegistryAddress(e)) = Meant(ctr.parts)
      BY <3>2, <3>3, <3>4, <3>5 DEF NamesResolve, Resolves, FullName
    <3>7. req'[r].place = Asked(FullName(r), RegistryName(e), RegistryAddress(e))
      BY <3>4 DEF Resolved, TypeInv
    <3> QED
      BY <3>6, <3>7
  <2> QED
    BY <1>2, <2>1 DEF PlaceInv, TypeInv, SecretMatches, Resolved, HasPlace, HasConfig,
       At, shared
<1>3. ASSUME NEW r \in Requests, NoSecretLeft(r)
      PROVE  PlaceInv'
  <2>1. req'[r].place = Meant(req[r].ctr.parts)
    BY <1>3 DEF TypeInv, Typed, NoSecretLeft, Resolved, FullName, NamesResolve,
       Resolves, At
  <2> QED
    BY <1>3, <2>1 DEF PlaceInv, TypeInv, NoSecretLeft, Resolved, HasPlace, HasConfig,
       At, shared
<1>4. ASSUME NEW r \in Requests, NextSecret(r)
      PROVE  PlaceInv'
  BY <1>4 DEF PlaceInv, TypeInv, Typed, NextSecret, Reading, HasPlace, HasConfig, At, shared
<1>5. ASSUME NEW r \in Requests,
             UseCachedToken(r) \/ RequestToken(r) \/ ReceiveToken(r) \/ TokenFails(r)
      PROVE  PlaceInv'
  <2> USE DEF PlaceInv, TypeInv, Typed, HasPlace, HasConfig, At, shared
  <2>1. UseCachedToken(r) => PlaceInv'
    BY DEF UseCachedToken, WithToken
  <2>2. ReceiveToken(r) => PlaceInv'
    BY DEF ReceiveToken, WithToken
  <2>3. RequestToken(r) => PlaceInv'
    BY DEF RequestToken
  <2>4. TokenFails(r) => PlaceInv'
    BY DEF TokenFails
  <2> QED
    BY <1>5, <2>1, <2>2, <2>3, <2>4
<1>6. ASSUME NEW r \in Requests, FetchManifest(r)
      PROVE  PlaceInv'
  <2>1. UNCHANGED imageCache
    BY <1>6 DEF FetchManifest, shared
  <2>2. /\ req[r].pc = "fetch" /\ req'[r].pc = "blob"
        /\ req'[r].ctr = req[r].ctr
        /\ req'[r].config = [of |-> req[r].place, version |-> Served(req[r].place)]
        /\ \A q \in Requests \ {r} : req'[q] = req[q]
    BY <1>6, ManifestKeeps
  <2>3. req[r].place = Meant(req[r].ctr.parts)
    BY <2>2 DEF PlaceInv, HasPlace, At
  <2>4. req'[r].config.of = Meant(req'[r].ctr.parts)
    BY <2>2, <2>3
  <2>5. \A q \in Requests :
          /\ HasPlace(q)' => "place" \in DOMAIN req'[q] /\ req'[q].place = Meant(req'[q].ctr.parts)
          /\ HasConfig(q)' => req'[q].config.of = Meant(req'[q].ctr.parts)
    BY <2>2, <2>4 DEF PlaceInv, HasPlace, HasConfig, At
  <2> QED
    BY <2>1, <2>5 DEF PlaceInv
<1>7. ASSUME NEW r \in Requests, FetchBlob(r)
      PROVE  PlaceInv'
  <2>1. \A ctr \in Containers : Image(ctr) = Image(req[r].ctr) =>
          Meant(ctr.parts) = Meant(req[r].ctr.parts)
    BY <1>7, SameNameSameImage DEF TypeInv, Typed, FetchBlob, At
  <2> QED
    BY <1>7, <2>1 DEF PlaceInv, TypeInv, Typed, FetchBlob, HasPlace, HasConfig, At, Put
<1>8. ASSUME NEW r \in Requests, Fail(r)
      PROVE  PlaceInv'
  BY <1>8 DEF PlaceInv, TypeInv, Fail, HasPlace, HasConfig, At, shared
<1>9. ASSUME Tick \/ \E t \in Tags : MoveTag(t)
      PROVE  PlaceInv'
  BY <1>9 DEF PlaceInv, Tick, MoveTag, HasPlace, HasConfig, At
<1> QED
  BY NextSplits, <1>1, <1>2, <1>3, <1>4, <1>5, <1>6, <1>7, <1>8, <1>9 DEF Proceed

LEMMA PlaceInvariant == ASSUME NamesRead PROVE Spec => []PlaceInv
<1>1. Init => PlaceInv
  BY DEF Init, PlaceInv, HasPlace, HasConfig, At
<1>2. CountInv /\ PassedInv /\ PlaceInv /\ [Next]_vars => PlaceInv'
  <2>1. PlaceInv /\ UNCHANGED vars => PlaceInv'
    BY DEF PlaceInv, vars, HasPlace, HasConfig, At
  <2> QED
    BY <2>1, PlaceStep, NamesReadResolve DEF CountInv
<1> QED
  BY <1>1, <1>2, CountInvariant, PassedInvariant, PTL DEF Spec

(* If names are clear and entries of pull secrets name registries, no call *)
(* is ever answered for another image, whichever entry is found first and  *)
(* however calls share the caches (registry.go:88-137, 186-204, 227-307,   *)
(* 321-379).                                                               *)
THEOREM AnswersHold == ASSUME NamesRead PROVE Spec => []AnswersItsImage
<1>1. PlaceInv => AnswersItsImage
  BY DEF PlaceInv, HasConfig, AnswersItsImage
<1> QED
  BY <1>1, PlaceInvariant, PTL

-----------------------------------------------------------------------------
(* Freshness.  The version a call began with is no newer than the one      *)
(* served, so what it reads itself is no older; and an image that has to   *)
(* be read anew never meets the cache.                                     *)

LatestIsSeen == \A ctr \in Containers : LatestSeen(ctr)

FreshUncached == \A ctr \in Containers : MustBeFresh(ctr) => ~Cacheable(ctr)

FreshInv ==
  \A r \in Requests :
    /\ Active(r) => /\ "since" \in DOMAIN req[r] /\ req[r].since \in Nat
                    /\ req[r].since <= Served(Meant(req[r].ctr.parts))
    /\ At(r, "blob") \/ (At(r, "answered") /\ MustBeFresh(req[r].ctr)) =>
         /\ req[r].config.version \in Nat /\ req[r].since \in Nat
         /\ req[r].config.version >= req[r].since

LEMMA SeenIsUncached == NamesRead /\ LatestIsSeen => FreshUncached
<1> SUFFICES ASSUME NamesRead, LatestIsSeen,
                    NEW ctr \in Containers, MustBeFresh(ctr), ctr.policy # "Always"
             PROVE  ~Cacheable(ctr)
  BY DEF FreshUncached, Cacheable, IsAllowedToCache
<1>1. ctr.parts \in Parts /\ Clear(ctr.parts) /\ ~Contains(ctr.parts.host, ":")
  BY PartsTypes DEF NamesRead, ReadAsMeant, LatestIsSeen, LatestSeen
<1>2. ParseContainerImage(Image(ctr)).reference = Latest
  BY <1>1, ReferenceSeen DEF Image, MustBeFresh
<1> QED
  BY <1>2 DEF Cacheable, IsAllowedToCache

LEMMA ServedType == ASSUME TypeInv, NEW place PROVE Served(place) \in Nat
  BY RegistryAssumption DEF TypeInv, SharedTyped, Served

LEMMA FreshStep ==
  ASSUME FreshUncached, TypeInv, PlaceInv, FreshInv, Next
  PROVE  FreshInv'
<1>1. ASSUME NEW r \in Requests, NEW ctr \in Containers, Hit(r, ctr)
      PROVE  FreshInv'
  BY <1>1 DEF FreshInv, FreshUncached, TypeInv, Hit, Active, At, Served, shared
<1>2. ASSUME NEW r \in Requests, NEW ctr \in Containers, Miss(r, ctr)
      PROVE  FreshInv'
  <2>1. Since(ctr) \in Nat /\ Since(ctr) = Served(Meant(ctr.parts))
    BY ServedType DEF Since
  <2> QED
    BY <1>2, <2>1 DEF FreshInv, TypeInv, Miss, Active, At, Served, shared
<1>3. ASSUME NEW r \in Requests, FetchManifest(r)
      PROVE  FreshInv'
  <2>1. /\ req[r].pc = "fetch" /\ req'[r].pc = "blob" /\ req'[r].ctr = req[r].ctr
        /\ req'[r].config = [of |-> req[r].place, version |-> Served(req[r].place)]
        /\ \A q \in Requests \ {r} : req'[q] = req[q]
    BY <1>3, ManifestKeeps
  <2>2. /\ "since" \in DOMAIN req[r] /\ req[r].since \in Nat
        /\ req[r].since <= Served(Meant(req[r].ctr.parts))
        /\ req[r].place = Meant(req[r].ctr.parts)
    BY <2>1 DEF FreshInv, PlaceInv, HasPlace, Active, At
  <2>3. "since" \in DOMAIN req'[r] /\ req'[r]["since"] = req[r]["since"]
    BY <1>3, <2>2, ManifestKeeps
  <2>4. req'[r].config.version \in Nat /\ req'[r].config.version >= req'[r].since
    BY <2>1, <2>2, <2>3, ServedType
  <2>5. UNCHANGED published
    BY <1>3 DEF FetchManifest, shared
  <2> QED
    BY <2>1, <2>2, <2>3, <2>4, <2>5 DEF FreshInv, Active, At, Served
<1>4. ASSUME NEW r \in Requests, Proceed(r), ~FetchManifest(r)
      PROVE  FreshInv'
  <2> USE DEF FreshInv, TypeInv, Typed, Active, At, Served, shared
  <2>1. NextSecret(r) => FreshInv'
    BY DEF NextSecret, Reading
  <2>2. SecretMatches(r) => FreshInv'
    BY DEF SecretMatches, Reading, Resolved
  <2>3. NoSecretLeft(r) => FreshInv'
    BY DEF NoSecretLeft, Resolved
  <2>4. UseCachedToken(r) => FreshInv'
    BY DEF UseCachedToken, WithToken
  <2>5. ReceiveToken(r) => FreshInv'
    BY DEF ReceiveToken, WithToken
  <2>6. RequestToken(r) => FreshInv'
    BY DEF RequestToken
  <2>7. TokenFails(r) => FreshInv'
    BY DEF TokenFails
  <2> QED
    BY <1>4, <2>1, <2>2, <2>3, <2>4, <2>5, <2>6, <2>7 DEF Proceed
<1>5. ASSUME NEW r \in Requests, FetchBlob(r)
      PROVE  FreshInv'
  BY <1>5 DEF FreshInv, TypeInv, Typed, FetchBlob, Active, At, Served
<1>6. ASSUME NEW r \in Requests, Fail(r)
      PROVE  FreshInv'
  BY <1>6 DEF FreshInv, TypeInv, Fail, Active, At, Served, shared
<1>7. ASSUME NEW t \in Tags, MoveTag(t)
      PROVE  FreshInv'
  <2>1. \A place : Served(place) \in Nat /\ Served(place)' \in Nat
                     /\ Served(place) <= Served(place)'
    BY <1>7, RegistryAssumption DEF TypeInv, SharedTyped, MoveTag, Served
  <2> QED
    BY <1>7, <2>1 DEF FreshInv, MoveTag, Active, At
<1>8. ASSUME Tick
      PROVE  FreshInv'
  BY <1>8 DEF FreshInv, Tick, Active, At, Served
<1> QED
  BY NextSplits, <1>1, <1>2, <1>3, <1>4, <1>5, <1>6, <1>7, <1>8

(* With clear names, and no latest behind a port, no answer for an image   *)
(* that has to be read anew comes from before the call, whoever has filled *)
(* the cache for it under another policy (registry.go:71-80, 88-137).      *)
THEOREM FreshnessHolds ==
  ASSUME NamesRead, LatestIsSeen PROVE Spec => []LatestIsFresh
<1>1. Init => FreshInv
  BY DEF Init, FreshInv, Active, At
<1>2. CountInv /\ PlaceInv /\ FreshInv /\ [Next]_vars => FreshInv'
  <2>1. FreshInv /\ UNCHANGED vars => FreshInv'
    BY DEF FreshInv, vars, Active, At, Served
  <2> QED
    BY <2>1, FreshStep, SeenIsUncached DEF CountInv
<1>3. FreshInv => LatestIsFresh
  BY DEF FreshInv, LatestIsFresh, MustBeFresh
<1> QED
  BY <1>1, <1>2, <1>3, CountInvariant, PlaceInvariant, PTL DEF Spec

-----------------------------------------------------------------------------
(* The life of a token.                                                    *)

TokenInv ==
  /\ \A a \in DOMAIN tokenCache :
       /\ tokenCache[a].evict \in Nat
       /\ tokenCache[a].evict + Margin <= tokenCache[a].expires
  /\ \A r \in Requests : HoldsToken(r) =>
       /\ "taken" \in DOMAIN req[r] /\ req[r].taken \in Nat
       /\ now <= req[r].taken + Patience
       /\ req[r].taken + Patience <= req[r].expires

LEMMA TokenStep ==
  ASSUME TokenLifetimes, TypeInv, TokenInv, Next
  PROVE  TokenInv'
<1> USE RegistryAssumption
<1>1. ASSUME NEW r \in Requests, UseCachedToken(r)
      PROVE  TokenInv'
  BY <1>1 DEF TokenInv, TokenLifetimes, TypeInv, SharedTyped, UseCachedToken,
     WithToken, Kept, HoldsToken, Fetching, At, shared
<1>2. ASSUME NEW r \in Requests, ReceiveToken(r)
      PROVE  TokenInv'
  <2> PICK life \in Lifetimes :
        /\ WithToken(r, now + life)
        /\ tokenCache' = Put(tokenCache, Address(r),
                             [expires |-> now + life, evict |-> EvictAt(life)])
    BY <1>2 DEF ReceiveToken
  <2>1. life \in Nat /\ life > Margin /\ EvictAt(life) = now + life - Margin
    BY DEF TokenLifetimes, EvictAt
  <2>2. (\A a \in DOMAIN tokenCache :
           /\ tokenCache[a].evict \in Nat
           /\ tokenCache[a].evict + Margin <= tokenCache[a].expires)'
    BY <2>1, SMTT(20) DEF TokenInv, TypeInv, SharedTyped, Put
  <2>3. /\ now' = now /\ now \in Nat
        /\ \A q \in Requests \ {r} : req'[q] = req[q]
        /\ req'[r].taken = now /\ req'[r].expires = now + life
        /\ "taken" \in DOMAIN req'[r]
    BY <1>2 DEF TypeInv, SharedTyped, ReceiveToken, WithToken
  <2>4. \A q \in Requests \ {r} : HoldsToken(q)' => HoldsToken(q)
    BY <2>3 DEF HoldsToken, Fetching, At
  <2>5. Patience <= life /\ Patience \in Nat
    BY <2>1 DEF TokenLifetimes
  <2>6. (\A q \in Requests : HoldsToken(q) =>
           /\ "taken" \in DOMAIN req[q] /\ req[q].taken \in Nat
           /\ now <= req[q].taken + Patience
           /\ req[q].taken + Patience <= req[q].expires)'
    <3>1. /\ "taken" \in DOMAIN req'[r] /\ req'[r].taken \in Nat
          /\ now' <= req'[r].taken + Patience
          /\ req'[r].taken + Patience <= req'[r].expires
      BY <2>1, <2>3, <2>5
    <3>2. \A q \in Requests \ {r} : HoldsToken(q)' =>
            /\ "taken" \in DOMAIN req'[q] /\ req'[q].taken \in Nat
            /\ now' <= req'[q].taken + Patience
            /\ req'[q].taken + Patience <= req'[q].expires
      BY <2>3, <2>4, Zenon DEF TokenInv
    <3> QED
      BY <3>1, <3>2, Zenon
  <2> QED
    BY <2>2, <2>6, Zenon DEF TokenInv
<1>3. ASSUME NEW r \in Requests, TokenFails(r)
      PROVE  TokenInv'
  BY <1>3 DEF TokenInv, TypeInv, Typed, TokenFails, HoldsToken, Fetching, At, shared
<1>4. ASSUME Tick
      PROVE  TokenInv'
  BY <1>4 DEF TokenInv, TypeInv, SharedTyped, Tick, HoldsToken, Fetching, At
<1>5. ASSUME NEW r \in Requests,
             NextSecret(r) \/ SecretMatches(r) \/ NoSecretLeft(r) \/ RequestToken(r)
               \/ FetchBlob(r) \/ Fail(r)
      PROVE  TokenInv'
  <2>1. UNCHANGED <<tokenCache, now>>
    BY <1>5 DEF NextSecret, SecretMatches, NoSecretLeft, RequestToken, FetchBlob,
       Fail, shared
  <2>2. \A q \in Requests : HoldsToken(q)' => HoldsToken(q) /\ req'[q] = req[q]
    <3> USE DEF HoldsToken, Fetching, At, TypeInv
    <3>1. NextSecret(r) \/ RequestToken(r) \/ FetchBlob(r) =>
            \A q \in Requests : HoldsToken(q)' => HoldsToken(q) /\ req'[q] = req[q]
      BY DEF NextSecret, Reading, RequestToken, FetchBlob, Typed
    <3>2. SecretMatches(r) \/ NoSecretLeft(r) \/ Fail(r) =>
            \A q \in Requests : HoldsToken(q)' => HoldsToken(q) /\ req'[q] = req[q]
      BY DEF SecretMatches, NoSecretLeft, Resolved, Fail
    <3> QED
      BY <1>5, <3>1, <3>2
  <2> QED
    BY <2>1, <2>2 DEF TokenInv
<1>6. ASSUME NEW r \in Requests, NEW ctr \in Containers, Hit(r, ctr) \/ Miss(r, ctr)
      PROVE  TokenInv'
  <2>1. Hit(r, ctr) => TokenInv'
    BY DEF TokenInv, TypeInv, Hit, HoldsToken, Fetching, At, shared
  <2>2. Miss(r, ctr) => TokenInv'
    BY DEF TokenInv, TypeInv, Miss, HoldsToken, Fetching, At, shared
  <2> QED
    BY <1>6, <2>1, <2>2
<1>7. ASSUME NEW t \in Tags, MoveTag(t)
      PROVE  TokenInv'
  BY <1>7 DEF TokenInv, MoveTag, HoldsToken, Fetching, At
<1>8. ASSUME NEW r \in Requests, FetchManifest(r)
      PROVE  TokenInv'
  <2>1. UNCHANGED <<tokenCache, now>>
    BY <1>8 DEF FetchManifest, shared
  <2>2. \A q \in Requests \ {r} : HoldsToken(q)' => HoldsToken(q) /\ req'[q] = req[q]
    BY <1>8, ManifestKeeps DEF HoldsToken, Fetching, At
  <2>3. HoldsToken(r)' => HoldsToken(r) /\ req'[r].expires = req[r].expires
    BY <1>8, ManifestKeepsToken
  <2>4. HoldsToken(r) => /\ "taken" \in DOMAIN req'[r]
                         /\ req'[r]["taken"] = req[r]["taken"]
    BY <1>8, ManifestKeeps DEF TokenInv
  <2> QED
    BY <2>1, <2>2, <2>3, <2>4 DEF TokenInv
<1> QED
  BY NextSplits, <1>1, <1>2, <1>3, <1>4, <1>5, <1>6, <1>7, <1>8 DEF Proceed

(* If tokens live longer than the margin, and a manifest and its blob take *)
(* no longer than it, no fetch uses a token that has expired, up to the    *)
(* end of the blob, whether it requested the token, found it in the cache, *)
(* or had it replaced there by another call (registry.go:142-184, 383-427).*)
THEOREM TokensOutliveFetches ==
  ASSUME TokenLifetimes PROVE Spec => []TokensAlive
<1>1. Init => TokenInv
  BY DEF Init, TokenInv, HoldsToken, Fetching, At
<1>2. CountInv /\ TokenInv /\ [Next]_vars => TokenInv'
  <2>1. TokenInv /\ UNCHANGED vars => TokenInv'
    BY DEF TokenInv, vars, HoldsToken, Fetching, At
  <2> QED
    BY <2>1, TokenStep DEF CountInv
<1>3. CountInv /\ TokenInv => TokensAlive
  BY RegistryAssumption DEF CountInv, TypeInv, SharedTyped, TokenInv, TokensAlive
<1> QED
  BY <1>1, <1>2, <1>3, CountInvariant, PTL DEF Spec
=============================================================================
