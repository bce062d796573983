SPECIFICATION FairSpec
CONSTANTS
  e1 = e1
  e2 = e2
  e3 = e3
  e4 = e4
  p1 = p1
  p2 = p2
  Events = {e1, e2, e3, e4}
  NoID = {e3}
  Malformed = {e4}
  Stoppers = {p1, p2}
  CacheSize = 1
  MaxTries = 2
  MaxAttempts = 2
  MaxFrames = 3
  MaxConns = 2
CHECK_DEADLOCK FALSE
INVARIANTS DeliveredOnceUntilStopped
PROPERTIES StopReturns
