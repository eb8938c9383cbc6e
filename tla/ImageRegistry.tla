--------------------------- MODULE ImageRegistry ----------------------------
(***************************************************************************)
(* The registry client (registry/registry.go): what GetImageConfig does    *)
(* for reviews in progress at the same time, for containers that do not    *)
(* say what they run.  The reviews share the cache of image configs, which *)
(* never expire, the cache of ECR tokens, which do, and the counters; tags *)
(* move in the registries and time passes meanwhile.                       *)
(*                                                                         *)
(* A container is [parts, policy, secrets]: the parts of its image's name, *)
(* imagePullPolicy, and the imagePullSecrets of its pod.  A config is the  *)
(* place it was read from and a version, counted up as its tag moves.      *)
(***************************************************************************)
EXTENDS ImageNames

CONSTANTS
  Requests,
  Containers,
  Secrets,      \* Secrets[s]: the auths of the docker config in s
  Default,      \* the default pull secret: <<s>>, or <<>> if not configured
  Tags,         \* the places that can change
  MaxVersion,   \* bound on their versions
  Lifetimes,    \* how long ECR tokens may live
  Margin,       \* the five minutes a cached token must have left
  Patience,     \* how long a manifest and its blob take at most
  DefaultTTL,   \* the twelve hours of credentialsCache
  MaxTime       \* bound on the clock

Text == Seq(STRING)

Auths == [registry : Text, server : Text, usable : BOOLEAN]

ASSUME RegistryAssumption ==
  /\ IsFiniteSet(Requests)
  /\ Secrets \in [DOMAIN Secrets -> SUBSET Auths]
  /\ Default \in Seq(DOMAIN Secrets)
  /\ Containers \subseteq
       [parts : [host : Text, path : Text, tag : Text, digest : Text],
        policy : STRING, secrets : Seq(DOMAIN Secrets)]
  /\ {Margin, Patience, DefaultTTL, MaxTime} \subseteq Nat
  /\ MaxVersion \in Nat \ {0}
  /\ Lifetimes \subseteq Nat

VARIABLES
  req,         \* req[r]: where the call of GetImageConfig is, and its locals
  published,   \* the version the registries serve of each of Tags
  imageCache,  \* imageCache[name]: a config, for the names cached
  tokenCache,  \* tokenCache[address]: when an ECR token expires and is evicted
  now,
  count        \* the counters of the client

vars == <<req, published, imageCache, tokenCache, now, count>>
shared == <<published, imageCache, tokenCache, now>>

Counters == {"hits", "misses", "success", "failed"}

Init ==
  /\ req = [r \in Requests |-> [pc |-> "none"]]
  /\ published = [t \in Tags |-> 1]
  /\ imageCache = <<>>
  /\ tokenCache = <<>>
  /\ now = 0
  /\ count = [c \in Counters |-> 0]

-----------------------------------------------------------------------------
At(r, pc)  == req[r].pc = pc
Image(ctr) == Written(ctr.parts)
Cacheable(ctr) == IsAllowedToCache(Image(ctr), ctr.policy)
Served(place)  == IF place \in Tags THEN published[place] ELSE 1

Counted(cs) == count' = [c \in Counters |-> count[c] + IF c \in cs THEN 1 ELSE 0]

(* The version when the call began, kept for the properties.               *)
Since(ctr) == Served(Meant(ctr.parts))

(* Set of go-cache, and of any map.                                        *)
Put(cache, key, value) ==
  [k \in DOMAIN cache \cup {key} |-> IF k = key THEN value ELSE cache[k]]

Hit(r, ctr) ==
  /\ At(r, "none")
  /\ Cacheable(ctr) /\ Image(ctr) \in DOMAIN imageCache
  /\ req' = [req EXCEPT ![r] = [pc |-> "answered", ctr |-> ctr, since |-> Since(ctr),
                                config |-> imageCache[Image(ctr)]]]
  /\ Counted({"hits", "success"})
  /\ UNCHANGED shared

MissCountsAll(r, ctr) ==                                           \* mutant
  /\ At(r, "none")
  /\ ~(Cacheable(ctr) /\ Image(ctr) \in DOMAIN imageCache)
  /\ req' = [req EXCEPT ![r] = [pc |-> "secrets", ctr |-> ctr, since |-> Since(ctr),
                                k |-> 1]]
  /\ Counted({"misses"})
  /\ UNCHANGED shared

Miss(r, ctr) ==
  /\ At(r, "none")
  /\ ~(Cacheable(ctr) /\ Image(ctr) \in DOMAIN imageCache)
  /\ req' = [req EXCEPT ![r] = [pc |-> "secrets", ctr |-> ctr, since |-> Since(ctr),
                                k |-> 1]]
  /\ Counted(IF Cacheable(ctr) THEN {"misses"} ELSE {})
  /\ UNCHANGED shared

Fail(r) ==
  /\ req' = [req EXCEPT ![r] = [pc |-> "failed", ctr |-> @.ctr]]
  /\ Counted({"failed"})
  /\ UNCHANGED shared

-----------------------------------------------------------------------------
(* Collect: the pull secrets of the pod, the default one, and ECR.         *)

(* With default_image_pull_secret, which is tried last.                    *)
PullSecrets(r) == req[r].ctr.secrets \o Default
FullName(r)    == FixDockerHubImage(Image(req[r].ctr))

Reading(r) == At(r, "secrets") /\ req[r].k <= Len(PullSecrets(r))
Entries(r) == Matching(Secrets[PullSecrets(r)[req[r].k]], FullName(r))

SecretFails(r) == Reading(r) /\ Fail(r)

SecretUnusable(r) ==
  /\ Reading(r)
  /\ \E e \in Entries(r) : ~e.usable
  /\ Fail(r)

NextSecretSkips(r) ==                                              \* mutant
  /\ Reading(r)
  /\ Entries(r) = {}
  /\ req' = [req EXCEPT ![r].k = @ + 2]
  /\ UNCHANGED <<shared, count>>

NextSecret(r) ==
  /\ Reading(r)
  /\ Entries(r) = {}
  /\ req' = [req EXCEPT ![r].k = @ + 1]
  /\ UNCHANGED <<shared, count>>

Resolved(r, name, address, pc) ==
  req' = [req EXCEPT ![r] =
            [pc |-> pc, ctr |-> @.ctr, since |-> @.since,
             place |-> Asked(FullName(r), name, address)]]

SecretMatches(r) ==
  /\ Reading(r)
  /\ \E e \in Entries(r) :
       e.usable /\ Resolved(r, RegistryName(e), RegistryAddress(e), "fetch")
  /\ UNCHANGED <<shared, count>>

NoSecretLeft(r) ==
  /\ At(r, "secrets") /\ ~Reading(r)
  /\ LET host == Host(Image(req[r].ctr))
     IN  Resolved(r, host, Https \o host,
                  IF ToSet(host) \cap ECR # {} THEN "token" ELSE "fetch")
  /\ UNCHANGED <<shared, count>>

Address(r) == req[r].place.address

Kept(r) == /\ Address(r) \in DOMAIN tokenCache
           /\ \/ now <= tokenCache[Address(r)].evict
              \/ tokenCache[Address(r)].evict = -1

WithToken(r, expires) ==
  req' = [req EXCEPT ![r] =
            [pc |-> "fetch", ctr |-> @.ctr, since |-> @.since,
             place |-> @.place, expires |-> expires, taken |-> now]]

UseCachedToken(r) ==
  /\ At(r, "token") /\ Kept(r)
  /\ WithToken(r, tokenCache[Address(r)].expires)
  /\ UNCHANGED <<shared, count>>

RequestToken(r) ==
  /\ At(r, "token") /\ ~Kept(r)
  /\ req' = [req EXCEPT ![r].pc = "requested"]
  /\ UNCHANGED <<shared, count>>

EvictAtExpiry(life) == now + life                                  \* mutant

(* go-cache: a duration of 0 is the default of the cache, and an entry set *)
(* with a negative one stays (-1).                                         *)
EvictAt(life) ==
  CASE life > Margin -> now + life - Margin
    [] life = Margin -> now + DefaultTTL
    [] life < Margin -> -1

ReceiveToken(r) ==
  /\ At(r, "requested")
  /\ \E life \in Lifetimes :
       /\ WithToken(r, now + life)
       /\ tokenCache' = Put(tokenCache, Address(r),
                            [expires |-> now + life, evict |-> EvictAt(life)])
  /\ UNCHANGED <<published, imageCache, now, count>>

TokenUndecodable(r) == At(r, "requested") /\ Fail(r)

(* Without credentials, then.                                              *)
TokenFails(r) ==
  /\ At(r, "requested")
  /\ req' = [req EXCEPT ![r].pc = "fetch"]
  /\ UNCHANGED <<shared, count>>

-----------------------------------------------------------------------------
(* getImageBlob, and the end of GetImageConfig.                            *)

(* The manifest settles which config it is.  The blob is downloaded with   *)
(* the same credentials.                                                   *)
FetchManifest(r) ==
  /\ At(r, "fetch")
  /\ req' = [req EXCEPT ![r] =
               Put(Put(@, "pc", "blob"), "config",
                   [of |-> @.place, version |-> Served(@.place)])]
  /\ UNCHANGED <<shared, count>>

FetchBlob(r) ==
  /\ At(r, "blob")
  /\ req' = [req EXCEPT ![r] = [pc |-> "answered", ctr |-> @.ctr,
                                since |-> @.since, config |-> @.config]]
  /\ imageCache' = IF Cacheable(req[r].ctr)
                     THEN Put(imageCache, Image(req[r].ctr), req[r].config)
                     ELSE imageCache
  /\ Counted({"success"})
  /\ UNCHANGED <<published, tokenCache, now>>

Fetching(r) == At(r, "fetch") \/ At(r, "blob")

FetchFails(r) == Fetching(r) /\ Fail(r)

-----------------------------------------------------------------------------
(* The rest of the world.                                                  *)

MoveTag(t) ==
  /\ published[t] < MaxVersion
  /\ published' = [published EXCEPT ![t] = @ + 1]
  /\ UNCHANGED <<req, imageCache, tokenCache, now, count>>

HoldsToken(r) == Fetching(r) /\ "expires" \in DOMAIN req[r]

(* From a token to the end of the blob it takes no longer than Patience.   *)
Tick ==
  /\ now < MaxTime
  /\ \A r \in Requests : HoldsToken(r) => now < req[r].taken + Patience
  /\ now' = now + 1
  /\ UNCHANGED <<req, published, imageCache, tokenCache, count>>

Step(r) ==
  \/ SecretFails(r) \/ SecretUnusable(r) \/ NextSecret(r) \/ SecretMatches(r)
  \/ NoSecretLeft(r)
  \/ UseCachedToken(r) \/ RequestToken(r) \/ ReceiveToken(r)
  \/ TokenUndecodable(r) \/ TokenFails(r)
  \/ FetchManifest(r) \/ FetchBlob(r) \/ FetchFails(r)

Next ==
  \/ \E r \in Requests : \/ \E ctr \in Containers : Hit(r, ctr) \/ Miss(r, ctr)
                         \/ Step(r)
  \/ \E t \in Tags : MoveTag(t)
  \/ Tick

Spec == Init /\ [][Next]_vars

-----------------------------------------------------------------------------
(* Properties.                                                             *)

Pcs == {"none", "secrets", "token", "requested", "fetch", "blob",
        "answered", "failed"}

TypeOK ==
  /\ DOMAIN req = Requests
  /\ \A r \in Requests :
       /\ req[r].pc \in Pcs
       /\ At(r, "none") \/ req[r].ctr \in Containers
       /\ At(r, "secrets") => req[r].k \in 1..(Len(PullSecrets(r)) + 1)
  /\ published \in [Tags -> 1..MaxVersion]
  /\ DOMAIN imageCache \subseteq {Image(ctr) : ctr \in Containers}
  /\ \A a \in DOMAIN tokenCache : tokenCache[a].expires \in Nat
  /\ now \in 0..MaxTime
  /\ count \in [Counters -> 0..Cardinality(Requests)]

(* GetImageConfig returns the entrypoint and the command of the container  *)
(* (registry.go:82): an answer, from the cache or not, was read where the  *)
(* name of the image says it is, whichever pull secret was found to match, *)
(* and however its registry is written there (registry.go:186-204,         *)
(* 227-307, 366-379).                                                      *)
AnswersItsImage ==
  \A r \in Requests :
    At(r, "answered") => req[r].config.of = Meant(req[r].ctr.parts)

(* An image that a node pulls anew, because of its policy or because its   *)
(* tag is latest, is not answered for from the past: the config is at      *)
(* least as new as the call, whoever has filled the cache for the same     *)
(* name under another policy (registry.go:71-80, 88-137).                  *)
LatestIsFresh ==
  \A r \in Requests :
    /\ At(r, "answered")
    /\ \/ req[r].ctr.policy = "Always"
       \/ Meant(req[r].ctr.parts).reference = Latest
    => req[r].config.version >= req[r].since

(* A token is alive until the fetch that uses it, the blob included, has   *)
(* ended, also if it comes from the cache and also if two calls have       *)
(* requested one each at the same time (registry.go:142-184, 383-427).     *)
TokensAlive == \A r \in Requests : HoldsToken(r) => now <= req[r].expires

(* The counters of lookups, hits and misses add up, whatever failed where  *)
(* (registry.go:94-133).                                                   *)
CountersAgree ==
  /\ count["success"] = Cardinality({r \in Requests : At(r, "answered")})
  /\ count["failed"] = Cardinality({r \in Requests : At(r, "failed")})
  /\ count["hits"] + count["misses"] =
       Cardinality({r \in Requests : ~At(r, "none") /\ Cacheable(req[r].ctr)})

-----------------------------------------------------------------------------
(* What the theorems assume of containers, pull secrets and tokens, and    *)
(* what would make the client ask for another image or use an old answer.  *)

Found(ctr, k) ==
  Matching(Secrets[(ctr.secrets \o Default)[k]], FixDockerHubImage(Image(ctr)))

(* An entry that matches an image, in the first pull secret that has any,  *)
(* names its registry and no more.                                         *)
EntriesName(ctr) ==
  LET host == Host(Image(ctr))
  IN  \A k \in DOMAIN (ctr.secrets \o Default) :
        (\A j \in 1..(k - 1) : Found(ctr, j) = {}) =>
          \A e \in Found(ctr, k) :
            e.usable => RegistryName(e) = host /\ RegistryAddress(e) = Https \o host

ReadAsMeant(ctr) == Clear(ctr.parts) /\ EntriesName(ctr)

MustBeFresh(ctr) == ctr.policy = "Always" \/ Meant(ctr.parts).reference = Latest

(* Behind a port, latest is not seen (registry.go:193).                    *)
LatestSeen(ctr) ==
  Contains(ctr.parts.host, ":") /\ MustBeFresh(ctr) => ctr.policy = "Always"

TokenLifetimes == Patience <= Margin /\ \A life \in Lifetimes : life > Margin
=============================================================================
