----------------------------- MODULE MCRotation -----------------------------
(* Instances of Rotation for TLC.                                          *)
EXTENDS Rotation, TLC

MCVersions == 1..MaxVersion

(* A provider that reports the version its backend holds, or fails.        *)
Live == [v \in MCVersions |-> {v, NoVersion, Failed}]

(* The GetCurrentVersion methods of the four providers as they are: a      *)
(* constant string, "1" for vault, azure and gcp and "AWSCURRENT" for aws. *)
Stub(name) == [v \in MCVersions |-> {IF name = "aws" THEN 2 ELSE 1}]

Vault       == <<"vault">>
VaultAndGCP == <<"vault", "gcp">>
VaultAndAWS == <<"vault", "aws">>

(* A provider without versions, such as one that the pods do not use.     *)
Quiet == [v \in MCVersions |-> {NoVersion, Failed}]

LiveReplies   == [p \in Backends |-> Live]
QuietGCP      == [p \in Backends |-> IF p = "gcp" THEN Quiet ELSE Live]
StubReplies   == [p \in Backends |-> Stub(p)]

ASSUME AnswersAssumption == OneAnswer <=> Providers # VaultAndAWS

PodSymmetry        == Permutations(Pods)
ControllerSymmetry == Permutations(Controllers)
=============================================================================
