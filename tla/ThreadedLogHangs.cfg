SPECIFICATION FairSpec
CONSTANTS
  PoolSize = 1
  Kernels <- ChainKernels
  Waits <- ChainWaits
  Final = "last"
  Writer = "first"
  Timed <- ChainKernels
  DisableBlitter = TRUE
  None = None
  Free = Free
  NumQueries = 2
  WarmUp = FALSE
  Profiling = FALSE
  Logging = TRUE
CHECK_DEADLOCK FALSE
PROPERTIES Completes
