SPECIFICATION FairSpec
CONSTANTS
  Stages <- FewStages
  Stops <- FewStops
  MaxAsks = 2
  Unsteady = {1}
  Callers = {1, 2}
  NumSamples = 2
  PoolSize = 2
  Budget = 2
  Regains = 1
  Costs = {1}
  None = None
INVARIANTS
  TypeOK
  ShowsTheLastQuestion
  ToldUnlessUnreadable
  NobodyWaitsInVain
  AccountsErrOneWay
  ExactUntilOverlap
  NoStrayCompletions
PROPERTIES
  KeepsAskPromise
  QuestionsEnd
CHECK_DEADLOCK FALSE
