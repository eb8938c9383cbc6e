CONSTANTS
  Pods = {p1}
  Controllers = {c1}
  Owners = {"ReplicaSet of Deployment", "ReplicaSet"}
  Intervals = {"invalid", "positive"}
  Providers <- VaultAndGCP
  Replies <- QuietGCP
  Changing = {"vault"}
  Replicas = 1
  MaxVersion = 3
  PatchesShareSecond = FALSE
SPECIFICATION FairSpec
PROPERTIES StalePodsReplaced RestartsSettle
