SPECIFICATION FairSpec
CONSTANTS
  sub = sub
  tlv = tlv
  own = own
  long = long
  empty = empty
  NoMessage = NoMessage
  Messages <- AllMessages
  Overload <- AllOverloads
  Len <- AllLengths
  BufferSize = 4
  MsgSize = 4
  MaxWaitTime = 2
  MaxRetries = 2
  NumRetries = 1
INVARIANTS
  TriesBounded
  CountersAgree
PROPERTIES
  ImplementsSender
  EverySendReturns
CHECK_DEADLOCK FALSE
