CONSTANTS
  Requests = {1}
  Containers <- OtherNames
  Secrets <- MCSecrets
  Default <- MCDefault
  Tags <- MCTags
  MaxVersion = 2
  Lifetimes = {2, 3}
  Margin = 1
  Patience = 1
  DefaultTTL = 4
  MaxTime = 0
SPECIFICATION Spec
INVARIANTS AnswersItsImage
CHECK_DEADLOCK FALSE
