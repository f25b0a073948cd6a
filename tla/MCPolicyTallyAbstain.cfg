CONSTANTS
  a = a
  b = b
  c = c
  Participants <- MCParticipants
  Policies <- MCPolicies
  FullConfidence = 3
  Confidences = {1, 2, 3}
SPECIFICATION Spec
INVARIANTS AbstentionsExcluded
