SPECIFICATION FairSpec
CONSTANTS
  Producers = {p1, p2, p3}
  Consumers = {c1, c2}
  Pollers = {p1}
  Abandoners = {c1}
  MaxWaiters = 4
INVARIANTS OneEntryPerWait MutualExclusion NoStrandedLocker NoMissedNotify
PROPERTIES AllFinish
CHECK_DEADLOCK FALSE
