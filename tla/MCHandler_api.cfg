\* Ids wrap, clear() is called, and verdicts come that nobody asked for.
SPECIFICATION ApiSpec
CONSTANTS
  main = main
  other = other
  l1 = l1
  l2 = l2
  NoThread = NoThread
  Requesters <- TwoRequesters
  Listeners <- OneListener
  IdModulus = 3
  MaxRequestorId = 1
  CallLimit = 3
  NumRetries = 0
  TimeoutFlag = TRUE
  Strays <- AnyVerdict
SYMMETRY RequesterSymmetry
INVARIANTS
  TypeOK
  ResponseStored
PROPERTIES
  FirstVerdictStands
