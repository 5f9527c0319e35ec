SPECIFICATION Spec
CONSTANTS
  Senders = {s1, s2}
  First = s1
  Rx = rx
  Kinds = {"bounded"}
  Capacity = 1
  MaxItems = 1
  MaxAbandons = 0
INVARIANTS MultiProducer
CHECK_DEADLOCK FALSE
