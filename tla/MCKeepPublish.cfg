SPECIFICATION FairPublish
CONSTANTS
  c1 = c1
  c2 = c2
  NRows = 2
  Conns = {c1, c2}
  BufSize = 1
  RowScope <- OrgRows
  ConnScope <- TwoScopes
  MaxFaults = 1
CHECK_DEADLOCK FALSE
INVARIANTS OfferedOnceAndWhole
PROPERTIES PublisherProgress
