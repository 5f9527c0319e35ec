SPECIFICATION FairSpec
CONSTANTS
  Producers = {p1, p2, p3}
  Consumers = {}
  Pollers = {p1}
  Abandoners = {}
  MaxWaiters = 3
PROPERTIES SuspendsUntilAvailable
CHECK_DEADLOCK FALSE
