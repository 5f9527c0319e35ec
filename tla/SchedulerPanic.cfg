SPECIFICATION FairSpec
CONSTANTS
  a = a
  b = b
  Main = Main
  NoOne = NoOne
  Tasks = {a, b}
  Workers = {w1, w2}
  Holder <- HolderOf
  Blocking = {b}
  Panicky = {b}
  Cancellable = {}
  MaxSuspends = 1
PROPERTIES PanicReachesJoiner
