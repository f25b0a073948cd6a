CONSTANTS
  r1 = r1
  r2 = r2
  Requests <- MCPair
  CacheTtl = 2
  MaxInvalidations = 1
  MaxTime = 2
SPECIFICATION Spec
INVARIANTS InvalidateForcesReload
CHECK_DEADLOCK FALSE
