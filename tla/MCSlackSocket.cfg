CONSTANTS
  NSlots = 1
  Jobs = {}
  Limits <- MCLimits
  Events <- MCEvents
  SigWindow = 0
  MaxAttempts = 2
  MaxTime = 0
  MaxJobs = 3
  MaxFaults = 2
SPECIFICATION Spec
CHECK_DEADLOCK FALSE
INVARIANTS SocketIsOwned
PROPERTIES EveryMessageHandled StopReturns
