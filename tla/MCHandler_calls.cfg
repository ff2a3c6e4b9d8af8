\* Ids do not wrap, answers follow requests; no symmetry, for the liveness.
SPECIFICATION FairSpec
CONSTANTS
  main = main
  other = other
  l1 = l1
  l2 = l2
  NoThread = NoThread
  Requesters <- TwoRequesters
  Listeners <- TwoListeners
  IdModulus = 4
  MaxRequestorId = 2
  CallLimit = 2
  NumRetries = 1
  TimeoutFlag = TRUE
  Strays <- NoMessages
INVARIANTS
  NoLostWakeup
  OutcomeMatchesStore
  NeverDuplicate
PROPERTIES
  ImplementsService
  UsesTransmitter
  EveryCallReturns
  SuccessIsReturned
\* No more calls are made once the counter is at its bound.
CHECK_DEADLOCK FALSE
