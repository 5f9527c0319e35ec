SPECIFICATION RegistrySpec
CONSTANTS
  Publishers = {p1, p2}
  Versions <- MCVersions
  Requirements <- MCRequirements
  Checksums = {c1, c2}
  MaxChanges = 2
INVARIANT VersionsImmutable
CHECK_DEADLOCK FALSE
