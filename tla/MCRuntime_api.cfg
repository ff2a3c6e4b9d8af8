SPECIFICATION FairSpec
CONSTANTS
  owner = owner
  helper = helper
  NoController = NoController
  Controllers <- TwoControllers
  Owner = owner
  NumThreads = 2
  ThreadLimit = 4
INVARIANTS
  ThreadsTracked
  JoinedOnce
  ContextOpen
  StoppedMeansQuiet
PROPERTIES
  StopReturns
CHECK_DEADLOCK FALSE
