SPECIFICATION MainFairSpec
CONSTANTS
  owner = owner
  NoController = NoController
  Controllers <- OnlyOwner
  Owner = owner
  NumThreads = 3
  ThreadLimit = 3
  ConfiguredThreads = 3
INVARIANTS
  UpAndListening
  ProcessorsAlive
  CleanExit
PROPERTIES
  UsesRuntime
  EndsAfterSignal
CHECK_DEADLOCK FALSE
