SPECIFICATION FairSpec
CONSTANTS
  PoolSize = 2
  Kernels <- ForkKernels
  Waits <- ForkWaits
  Final = "last"
  Writer = "first"
  Timed <- ForkKernels
  DisableBlitter = FALSE
  None = None
  Free = Free
  NumQueries = 3
  WarmUp = TRUE
  Profiling = TRUE
  Logging = FALSE
INVARIANTS TypeOK InOnePlace AllAnswered OwnProfile QuietInPool EndsNormally
PROPERTIES SourcesStable Completes ImplementsService
