\* Outages within and beyond a round of attempts, gNodeBs that never answer, and
\* fewer ids than the longest outages need.
SPECIFICATION FairSpec
CONSTANTS
  main = main
  g1 = g1
  g2 = g2
  g3 = g3
  NodeList <- ThreeNodes
  MaxAttempts = 2
  MaxRequestorId = 8
  Outages <- AnyOutages
INVARIANTS
  DereferenceValid
  RemovedMeansAccepted
  NothingLost
PROPERTIES
  SubscribedInTurn
\* main() leaves the loop in the end.
CHECK_DEADLOCK FALSE
