CONSTANTS
  fraud = fraud
  growth = growth
  Coordinator = risk
  FullConfidence = 3
  Specialists <- MCTwo
  Policies <- MCTwoPolicies
  Opinions <- MCFreeForm
  MayCrash <- MCNobody
SPECIFICATION Spec
INVARIANTS VotesFollowEvaluations
CHECK_DEADLOCK FALSE
