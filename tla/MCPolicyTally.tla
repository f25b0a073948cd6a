--------------------------- MODULE MCPolicyTally ----------------------------
(* PolicyTally with three participants and the policy hints of the packs    *)
(* and templates; confidences 1, 2 and 3 stand for 0.5, 0.7 and 1.0.        *)
EXTENDS PolicyTally, TLC

CONSTANTS a, b, c

MCParticipants == {a, b, c}
ParticipantSymmetry == Permutations(MCParticipants)

Hints(type, num, den, veto, floor) ==
  [type |-> type, num |-> num, den |-> den, vetoEnabled |-> veto, vetoThreshold |-> 1,
   minimumConfidence |-> floor]

NoPolicy        == Hints("none", 1, 2, FALSE, 0)
ClaimsMajority  == Hints("majority", 1, 2, FALSE, 0)
FraudVeto       == Hints("majority", 1, 2, TRUE, 0)
LendingSuper    == Hints("supermajority", 67, 100, TRUE, 2)
FraudUnanimous  == Hints("unanimous", 1, 1, TRUE, 2)

MCPolicies == {NoPolicy, ClaimsMajority, FraudVeto, LendingSuper, FraudUnanimous}
=============================================================================
