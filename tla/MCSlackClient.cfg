CONSTANTS
  NSlots = 2
  Jobs <- MCJobs
  Limits <- MCLimits
  SigWindow = 0
  MaxTime = 1
  MaxJobs = 3
  MaxFaults = 1
SPECIFICATION ClientSpec
CHECK_DEADLOCK FALSE
INVARIANTS RateKept EffectOnce DMIsAccounted
PROPERTIES EveryJobEnds
