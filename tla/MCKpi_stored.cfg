SPECIFICATION Spec
CONSTANTS
  t1 = t1
  t2 = t2
  shared = shared
  gnb1 = gnb1
  gnb2 = gnb2
  bytes = bytes
  NoThread = NoThread
  NoReport = NoReport
  NoReply = NoReply
  Absent = Absent
  Null = Null
  Freed = Freed
  Threads <- OneThread
  Handlers <- OneHandler
  HandlerOf <- OneShared
  GNodeBs <- TwoGNodeBs
  Counts <- TwoCounts
  OtherKeys <- TheKeys
  MaxCalls = 3
INVARIANTS
  ReportStored
CHECK_DEADLOCK FALSE
