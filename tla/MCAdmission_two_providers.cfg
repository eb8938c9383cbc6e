CONSTANTS
  Requests = {1}
  Pods <- MultiPods
  ExcludedNamespaces <- Kube
  Images <- WebImage
  PullSecrets <- PullSecret
  Versions <- SomeVersion
SPECIFICATION Spec
INVARIANTS ProvidersCombine
CHECK_DEADLOCK FALSE
