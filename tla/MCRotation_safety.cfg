CONSTANTS
  Pods = {p1, p2}
  Controllers = {c1}
  Owners = {"ReplicaSet of Deployment"}
  Intervals = {"positive"}
  Providers <- Vault
  Replies <- LiveReplies
  Changing = {"vault"}
  Replicas = 1
  MaxVersion = 2
  PatchesShareSecond = FALSE
SPECIFICATION Spec
INVARIANTS TypeOK RestartNeedsChange OwnedPodsStayTracked StaleIsDetectable
SYMMETRY PodSymmetry
