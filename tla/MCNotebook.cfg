CONSTANTS
  Slots = {1, 2}
  Jobs <- MCJobs
  Starts <- MCStarts
  Archive0 <- MCArchive0
  Stores = {"localfs", "s3"}
  Current <- MCCurrent
  MaxTopK = 2
  MaxPending = 2
  MaxTime = 1
  MaxTicks = 1
  MaxFaults = 1
SPECIFICATION Spec
INVARIANTS RowsInStep AckedIsKept RecallRespects ArchiveIsWhole
PROPERTY EveryCallEnds
