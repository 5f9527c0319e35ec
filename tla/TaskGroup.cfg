SPECIFICATION GroupSpec
CONSTANTS
  Tasks = {t1, t2}
  Abandoners = {}
  Joiners = {}
  Children = {t1, t2}
INVARIANT ScopedLifecycle
CHECK_DEADLOCK FALSE
