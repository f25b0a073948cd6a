CONSTANTS
  None = None
  FullConfidence = 100
  Registry <- MCRegistry
  Operators <- MCOperators
  Requests <- MCRequests
  LlmReplies <- MCLlmReplies
  Offsets <- MCOffsets
  Grid <- MCGrid
SPECIFICATION MCSpec
INVARIANTS HintsMergeOneByOne InputsReachTheScorers DeterministicRunsAreRuleBased BetterCaseNeverWorse
CHECK_DEADLOCK FALSE
