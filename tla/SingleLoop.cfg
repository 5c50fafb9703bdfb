SPECIFICATION FairSpec
CONSTANTS
  PoolSize = 3
  Kernels <- ForkKernels
  Waits <- ForkWaits
  Final = "last"
  Writer = "last"
  Timed <- ForkKernels
  DisableBlitter = FALSE
  None = None
  NumQueries = 5
  WarmUps = {TRUE, FALSE}
  Profiling = TRUE
CHECK_DEADLOCK FALSE
INVARIANTS TypeOK SlotOwnsEvent OwnAnswers AnsweredOnce ListsNotInFlight NobodyWaitsInVain PausesShift
PROPERTIES SourcesStable LoopEnds ImplementsService GoesForward
