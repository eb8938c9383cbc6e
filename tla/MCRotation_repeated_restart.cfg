CONSTANTS
  Pods = {p1}
  Controllers = {c1}
  Owners = {"ReplicaSet of Deployment"}
  Intervals = {"positive"}
  Providers <- Vault
  Replies <- LiveReplies
  Changing = {"vault"}
  Replicas = 1
  MaxVersion = 2
  PatchesShareSecond = FALSE
SPECIFICATION Spec
PROPERTIES NoRepeatedRestart
