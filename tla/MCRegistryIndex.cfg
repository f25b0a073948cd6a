CONSTANTS
  r1 = r1
  r2 = r2
  Requests <- MCPair
  CacheTtl = 2
  MaxInvalidations = 2
  MaxTime = 3
SPECIFICATION FairSpec
INVARIANTS TypeOK JoinableLoadIsRunning OneLoadAtATime TemplateNotOlderThanScenario CalmInvalidateForcesReload
PROPERTIES EveryRequestResumes
CHECK_DEADLOCK FALSE
