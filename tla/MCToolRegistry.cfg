SPECIFICATION FairSpec
CONSTANTS
  N = 2
  GitSources = {2}
  Tools = {t1}
  Syncers = {y1, y2}
  Callers = {c1}
  Holders = {h1}
  Wired = TRUE
  KeepRetired = TRUE
  MaxPopulate = 1
  MaxCalls = 2
  t1 = t1
  y1 = y1
  y2 = y2
  c1 = c1
  h1 = h1
CHECK_DEADLOCK FALSE
INVARIANTS SnapshotsAreSound
PROPERTIES RecomputeReturns
