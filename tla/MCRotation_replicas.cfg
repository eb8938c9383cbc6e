CONSTANTS
  Pods = {p1}
  Controllers = {c1, c2}
  Owners = {"ReplicaSet of Deployment"}
  Intervals = {"positive"}
  Providers <- Vault
  Replies <- LiveReplies
  Changing = {"vault"}
  Replicas = 1
  MaxVersion = 2
  PatchesShareSecond = TRUE
SPECIFICATION RollingSpec
PROPERTIES RestartsSettle
