SPECIFICATION AgentSpec
CONSTANTS
  Slots = {1, 2}
  Scripts <- MCScripts
  Manifests <- MCManifests
  Handlers0 <- MCHandlers
  Lists0 <- MCLists
  Whitelist = {"summary", "assignee"}
  MaxItems = 3
  MaxPages = 3
  PageSize = 2
  MaxAge = 8
  MaxBriefing = 14
  MaxArgs = 2
  Now = 10
  MaxTouches = 1
  MaxFires = 2
  MaxFaults = 2
INVARIANTS
  ScanIsHonest
  AnswerIsTrue
  LessonHasCause
  DryRunIsReported
PROPERTIES
  TicksAreOwned
  EveryCallEnds
CHECK_DEADLOCK FALSE
