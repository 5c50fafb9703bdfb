SPECIFICATION FairSpec
CONSTANTS
  PoolSize = 1
  Kernels <- ChainKernels
  Waits <- ChainWaits
  Final = "last"
  Writer = "first"
  Timed <- ChainKernels
  DisableBlitter = FALSE
  None = None
  NumQueries = 1
  WarmUps = {FALSE}
  Profiling = TRUE
CHECK_DEADLOCK FALSE
PROPERTIES Completes
