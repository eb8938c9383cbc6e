CONSTANTS
  Pods = {p1}
  Controllers = {c1}
  Owners = {"ReplicaSet of Deployment"}
  Intervals = {"positive"}
  Providers <- VaultAndAWS
  Replies <- StubReplies
  Changing = {"vault", "aws"}
  Replicas = 1
  MaxVersion = 2
  PatchesShareSecond = FALSE
SPECIFICATION Spec
INVARIANTS RestartNeedsChange
