--------------------------- MODULE MCDeliberation ---------------------------
(* Deliberation with two specialists; confidences 1, 2 and 3 stand for 0.5, *)
(* 0.7 and 1.0.                                                             *)
EXTENDS Deliberation

CONSTANTS fraud, growth

MCTwo == {fraud, growth}
MCNobody == {}

Hints(type, num, den, veto, floor, suspends) ==
  [type |-> type, num |-> num, den |-> den, vetoEnabled |-> veto, vetoThreshold |-> 1,
   minimumConfidence |-> floor, suspends |-> suspends]

NoPolicy        == Hints("none", 1, 2, FALSE, 0, FALSE)
ClaimsMajority  == Hints("majority", 1, 2, FALSE, 0, FALSE)
LendingSuper    == Hints("supermajority", 67, 100, TRUE, 2, FALSE)
FraudUnanimous  == Hints("unanimous", 1, 1, TRUE, 2, FALSE)

Suspending(p) == [p EXCEPT !.suspends = TRUE]

MCPolicies == {NoPolicy, ClaimsMajority, LendingSuper, FraudUnanimous,
               Suspending(ClaimsMajority), Suspending(FraudUnanimous)}
MCTwoPolicies == {ClaimsMajority, FraudUnanimous}

Opinion(recommendation, confidence) ==
  [recommendation |-> recommendation, confidence |-> confidence]

Sure == Opinion("APPROVE", 2)
Unsure == Opinion("APPROVE", 1)
Against == Opinion("REJECT", 2)
Undecided == Opinion("REVIEW", 2)

MCOpinions == {Sure, Unsure, Against, Undecided}
MCFreeForm == {Opinion("ACCEPT", 2)}
=============================================================================
