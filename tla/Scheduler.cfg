SPECIFICATION FairSpec
CONSTANTS
  a = a
  b = b
  Main = Main
  NoOne = NoOne
  Tasks = {a, b}
  Workers = {w1, w2}
  Holder <- HolderOf
  Blocking = {b}
  Panicky = {a, b}
  Cancellable = {a}
  MaxSuspends = 1
INVARIANTS TypeOK PollExclusion HandleConsistent NoLostWakeup NoSleepOnWork
PROPERTIES ImplementsLifecycle AllThreadsEnd
