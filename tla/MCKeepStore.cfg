SPECIFICATION Spec
CONSTANTS
  Slots = {1, 2, 3}
  NConns = 2
  Requests <- MCRequests
  Humans0 <- MCHumans
  Wks0 <- MCWks
  ManifestOrg <- MCManifests
  Issuer = "keep"
  MaxLimit = 2
  DefLimit = 1
  MaxCalls = 3
  MaxFaults = 1
INVARIANTS FreshReads PooledConnectionsAreClean AckIsEffect NoDeadlock
PROPERTIES OneWayAndOwned
ACTION_CONSTRAINT OneWorkload
CHECK_DEADLOCK FALSE
