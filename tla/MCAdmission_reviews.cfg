CONSTANTS
  Requests = {1, 2}
  Pods <- AllPods
  ExcludedNamespaces <- Kube
  Images <- WebImage
  PullSecrets <- PullSecret
  Versions <- SomeVersion
SPECIFICATION FairSpec
INVARIANTS TypeOK OriginalCommandRuns SecretsInOrder InjectorInPlace CountersAgree
PROPERTIES ImplementsAtomic EventuallyAnswered
CHECK_DEADLOCK FALSE
