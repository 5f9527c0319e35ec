SPECIFICATION FairSpec
CONSTANTS
  Senders = {s1, s2, s3}
  First = s1
  Rx = rx
  Kinds = {"bounded", "unbounded"}
  Capacity = 2
  MaxItems = 2
  MaxAbandons = 1
INVARIANTS TypeOK InOrder EndIsFinal EveryPlaceClaimed
PROPERTIES ImplementsStream Delivered AllFinish
CHECK_DEADLOCK FALSE
