CONSTANTS
  fraud = fraud
  growth = growth
  Coordinator = risk
  FullConfidence = 3
  Specialists <- MCTwo
  Policies <- MCPolicies
  Opinions <- MCOpinions
  MayCrash <- MCTwo
SPECIFICATION FairSpec
INVARIANTS TypeOK NoEvaluationComesTooLate CommitsBeforeItSeesAVote CommitmentIsJustified UnanimousApprovalIsConfident
PROPERTIES SessionEnds
CHECK_DEADLOCK FALSE
