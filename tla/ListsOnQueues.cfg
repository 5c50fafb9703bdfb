SPECIFICATION Spec
CONSTANTS
  DefaultQueries = 1
  DefaultConsumers = 1
  DefaultThreads = 32
  Pauses = {3, 12}
  Junk = Junk
  NoFile = NoFile
  Values <- ArgumentValues
  Platforms <- PlatformKinds
  UserFiles <- FileKinds
  MaxArguments = 2
  MaxProcesses = 3
CHECK_DEADLOCK FALSE
INVARIANTS ListOnItsQueue
