SPECIFICATION FairSpec
CONSTANTS
  Tasks = {t1, t2, t3, t4}
  Abandoners = {t1, t3}
  Joiners = {t2, t3}
  RwWriters = {t1, t2}
  Permits = 2
  MaxNeed = 3
  Threshold = 2
  BarRounds = 2
  OneSender = t1
  OneReceiver = t3
  PipeWriters = {t1, t2}
  PipeReaders = {t3, t4}
  Children = {t1, t2, t3}
  Capacity = 2
  BufLen = 1
  PipeBytes = 2
INVARIANTS TypeOK GuardsCounted BarTogether NoneStranded Delivers GroupJoined
CHECK_DEADLOCK FALSE
PROPERTIES OneImplementsStream AllServed
