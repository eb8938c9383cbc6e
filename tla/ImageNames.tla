----------------------------- MODULE ImageNames -----------------------------
(***************************************************************************)
(* How the registry client takes an image name apart (registry/registry.go)*)
(* and what a name stands for: pure operators.                             *)
(*                                                                         *)
(* A name is a sequence of tokens, cut at "/", ":" and "@" at least, which *)
(* are tokens of their own.  A string that is a prefix of another has to   *)
(* be a sequence that is a prefix of the other: where names with a common  *)
(* beginning are wanted, they are cut there as well.                       *)
(***************************************************************************)
EXTENDS Integers, Sequences, FiniteSets, SequencesExt

Hub    == <<"index.docker.io">>
Https  == <<"https://">>
Latest == <<"latest">>

(* Tokens with a "." in them.                                              *)
Dotted == {"docker.io", "index.docker.io", "reg.corp", "other.corp",
           "id.dkr.ecr.eu.amazonaws.com"}

(* Registries whose address matches ecrHostPattern.                        *)
ECR == {"id.dkr.ecr.eu.amazonaws.com"}

TrimPrefix(s, t) == IF IsPrefix(t, s) THEN SubSeq(s, Len(t) + 1, Len(s)) ELSE s
TrimSuffix(s, t) == IF IsSuffix(t, s) THEN SubSeq(s, 1, Len(s) - Len(t)) ELSE s

Position(s, token) == SelectInSeq(s, LAMBDA t : t = token)

(* The part of s before its first token of that kind, or all of it.        *)
Before(s, token) ==
  SubSeq(s, 1, IF Contains(s, token) THEN Position(s, token) - 1 ELSE Len(s))

ParseContainerImage(image) ==
  LET separator == IF Contains(image, "@") THEN "@" ELSE ":"
  IN  [name |-> Before(image, separator),
       reference |-> IF Contains(image, separator)
                       THEN SubSeq(image, Position(image, separator) + 1, Len(image))
                       ELSE Latest]

IsAllowedToCacheLatest(image, policy) == policy # "Always"         \* mutant

IsAllowedToCache(image, policy) ==
  /\ policy # "Always"
  /\ ParseContainerImage(image).reference # Latest

(* The name completed with Docker Hub's registry, if it is taken for one   *)
(* of its images.                                                          *)
OnHub(image) ==
  \/ ~Contains(image, "/")
  \/ Dotted \cap ToSet(Before(image, "/")) = {}
  \/ IsPrefix(<<"docker.io", "/">>, image)

(* The registry of a name for which no docker config says anything.        *)
Host(image) == IF OnHub(image) THEN Hub ELSE Before(image, "/")

FixDockerHubImage(image) ==
  CASE ~OnHub(image)                          -> image
    [] ~Contains(image, "/")                  -> Hub \o <<"/", "library", "/">> \o image
    [] IsPrefix(<<"docker.io", "/">>, image)  -> Hub \o Tail(image)
    [] OTHER                                  -> Hub \o <<"/">> \o image

-----------------------------------------------------------------------------
(* The entries of a docker config: [registry, server, usable], the key of  *)
(* auths, its serveraddress or <<>>, and whether it has credentials.       *)

RegistryName(entry) ==
  LET name == TrimPrefix(entry.registry, Https)
  IN  TrimSuffix(TrimSuffix(TrimSuffix(name, <<"/", "v1", "/">>),
                            <<"/", "v2", "/">>), <<"/">>)

(* Auths are a map: any entry whose name is a prefix may be found first.   *)
Matching(auths, image) == {e \in auths : IsPrefix(RegistryName(e), image)}

RegistryAddress(entry) ==
  IF entry.server # <<>> THEN entry.server ELSE Https \o RegistryName(entry)

AskedUntrimmed(image, registryName, address) ==                    \* mutant
  LET parsed == ParseContainerImage(image)
  IN  [address |-> address, name |-> parsed.name, reference |-> parsed.reference]

(* What the client asks for, of a completed name and the registry it found *)
(* for it.                                                                 *)
Asked(image, registryName, address) ==
  LET parsed == ParseContainerImage(TrimPrefix(image, Append(registryName, "/")))
  IN  [address |-> address, name |-> parsed.name, reference |-> parsed.reference]

-----------------------------------------------------------------------------
(* What a name stands for, by the grammar of image references that the     *)
(* container runtimes use: the name is written from its parts.             *)

Written(parts) ==
  (IF parts.host = <<>> THEN <<>> ELSE parts.host \o <<"/">>)
    \o parts.path
    \o (IF parts.tag = <<>> THEN <<>> ELSE <<":">> \o parts.tag)
    \o (IF parts.digest = <<>> THEN <<>> ELSE <<"@">> \o parts.digest)

Meant(parts) ==
  LET onHub == parts.host \in {<<>>, <<"docker.io">>}
  IN  [address   |-> Https \o IF onHub THEN Hub ELSE parts.host,
       name      |-> IF onHub /\ ~Contains(parts.path, "/")
                       THEN <<"library", "/">> \o parts.path ELSE parts.path,
       reference |-> IF parts.digest # <<>> THEN parts.digest
                     ELSE IF parts.tag # <<>> THEN parts.tag ELSE Latest]

(* The names that the client reads as they are meant: with a tag or a      *)
(* digest but not both, behind a registry that can be told from an         *)
(* organization, and with an organization behind docker.io.                *)
Free(s, tokens) == ToSet(s) \cap tokens = {}

Clear(parts) ==
  /\ Free(parts.path, {":", "@"})
  /\ Free(parts.tag, {"/", ":", "@"}) /\ Free(parts.digest, {"/", "@"})
  /\ parts.tag = <<>> \/ parts.digest = <<>>
  /\ IF parts.host = <<>> THEN Free(Before(parts.path, "/"), Dotted)
     ELSE Free(parts.host, {"/", "@"}) /\ ~Free(parts.host, Dotted)
  /\ parts.host = <<"docker.io">> => Contains(parts.path, "/")
=============================================================================
