SPECIFICATION FairSpec
CONSTANTS
  t1 = t1
  t2 = t2
  shared = shared
  gnb1 = gnb1
  gnb2 = gnb2
  bytes = bytes
  NoThread = NoThread
  NoReport = NoReport
  NoReply = NoReply
  Absent = Absent
  Null = Null
  Freed = Freed
  Threads <- TwoThreads
  Handlers <- OneHandler
  HandlerOf <- AllShared
  GNodeBs <- TwoGNodeBs
  Counts <- TwoCounts
  OtherKeys <- TheKeys
  MaxCalls = 4
INVARIANTS
  RepliesOwn
  OwnReportUsed
PROPERTIES
  AllHandled
CHECK_DEADLOCK FALSE
