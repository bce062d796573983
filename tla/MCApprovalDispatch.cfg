SPECIFICATION FairSpec
CONSTANTS
  t1 = t1
  t2 = t2
  t3 = t3
  Calls = {c1, c2}
  Tokens = {t1, t2, t3}
  RetireTokens = {t3}
  ToolOf <- Tools
  Steps <- NoInstallSteps
  None = None
CHECK_DEADLOCK FALSE
INVARIANTS DecidedAndRunOnce SagaOutcome
PROPERTIES StartedSagaEnds
