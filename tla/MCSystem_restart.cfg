\* One restart; three calls for each process, the last not encodable.
SPECIFICATION SystemSpec
CONSTANTS
  main = main
  l1 = l1
  l2 = l2
  NoThread = NoThread
  Requesters <- JustMain
  Listeners <- TwoListeners
  IdModulus = 4
  MaxRequestorId = 2
  CallLimit = 3
  NumRetries = 0
  TimeoutFlag = TRUE
  Strays <- NoMessages
  NodeList <- TwoGNodeBs
  MaxRestarts = 1
INVARIANTS
  EntryOwned
  ReportedAsked
PROPERTIES
  EveryProcessServes
  RunsCampaign
\* The loop ends, or the ids that are drawn reach their bound.
CHECK_DEADLOCK FALSE
