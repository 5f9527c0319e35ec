SPECIFICATION Spec
CONSTANTS
  Users = {u1, u2}
  MaxDaemons = 2
  MaxCommands = 3
  NFiles = 2
  MaxContent = 3
  Broken = {3}
  Shape <- MCShape
  MaxEvents = 2
  Asked = {2}
  Builders = {p1, p2}
  Keys = {k1, k2}
  MaxEntries = 1
  MaxUses = 3
  Publishers = {p1, p2}
  Versions <- MCVersions
  Requirements <- MCRequirements
  Checksums = {c1, c2}
  MaxChanges = 3
INVARIANTS StopIsMeant WarmAnswer CacheWhole RegistryKept RegistryNewest
PROPERTIES StopIsHeard WarmEventually
CHECK_DEADLOCK FALSE
