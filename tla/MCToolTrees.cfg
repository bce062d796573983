SPECIFICATION Spec
CONSTANTS
  Folders = {f1, f2, f3}
  Contents <- MCContents
  VersionOf <- MCVersionOf
  Manifest = manifest
  MaxOps = 4
  MaxFaults = 1
  f1 = f1
  f2 = f2
  f3 = f3
  v1 = v1
  v2 = v2
  manifest = manifest
  code = code
  extra = extra
CHECK_DEADLOCK FALSE
INVARIANTS AnnouncedIsThere
PROPERTIES SnapshotsAreKept
