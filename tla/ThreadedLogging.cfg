SPECIFICATION FairSpec
CONSTANTS
  PoolSize = 1
  Kernels <- ChainKernels
  Waits <- ChainWaits
  Final = "last"
  Writer = "first"
  Timed <- ChainKernels
  DisableBlitter = TRUE
  None = None
  Free = Free
  NumQueries = 3
  WarmUp = FALSE
  Profiling = FALSE
  Logging = TRUE
CHECK_DEADLOCK FALSE
INVARIANTS LogExclusive AllRecorded NobodyWaitsInVain
PROPERTIES ZenonsComeBack GoesForward
