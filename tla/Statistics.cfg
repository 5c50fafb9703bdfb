SPECIFICATION Spec
CONSTANTS
  NumQueries = 3
  PoolSize = 2
  Timed = 3
  Executions <- SomeExecutions
  Resolution = 1
  Micro = 3
  IntMax = 15
  LongMax = 255
INVARIANTS MeansInRange TotalsAddUp SpanCovers
