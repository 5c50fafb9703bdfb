SPECIFICATION FairSpec
CONSTANTS
  PoolSize = 2
  Kernels <- ForkKernels
  Waits <- ForkWaits
  Final = "last"
  Writer = "last"
  Timed <- ForkKernels
  DisableBlitter = TRUE
  None = None
  NumQueries = 3
  WarmUps = {TRUE, FALSE}
  Profiling = TRUE
INVARIANTS SlotsFitQueries
PROPERTIES RunStops
