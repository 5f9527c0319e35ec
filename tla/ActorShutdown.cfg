SPECIFICATION FairSpec
CONSTANTS
  Actors = {a, b}
  Client = client
  NoActor = noactor
  Nesting = {b}
  Panicky = {}
  MaxSends = 1
PROPERTIES ShutdownReturns
CHECK_DEADLOCK FALSE
