CONSTANTS
  Requests = {1, 2}
  Containers <- MCContainers
  Secrets <- MCSecrets
  Default <- MCDefault
  Tags <- MCTags
  MaxVersion = 2
  Lifetimes = {2, 3}
  Margin = 1
  Patience = 1
  DefaultTTL = 4
  MaxTime = 5
SPECIFICATION Spec
INVARIANTS TypeOK AnswersItsImage LatestIsFresh TokensAlive CountersAgree
CHECK_DEADLOCK FALSE
