------------------------------ MODULE Analyses ------------------------------
(***************************************************************************)
(* The rule-based analyses of the specialists (agents/*_worker: mappers.py,  *)
(* chain.py, graph.py, crew.py).                                            *)
(*                                                                         *)
(* The numbers are exact: ratios, trust and confidences are in hundredths,   *)
(* money, days, months, years and counts are whole, and a weighted score is  *)
(* multiplied by the denominators of its weights (rounding in the last bits  *)
(* of a float is not modelled).  Fields keep the names the inputs have on    *)
(* the wire.                                                                *)
(***************************************************************************)
EXTENDS Integers

CONSTANT None \* Python's None

Domains == {"fraud", "lending", "claims"}

(* The first name of the scenario reference; anything unknown is fraud.      *)
detect_domain(scenario_ref) ==
  IF \E i \in DOMAIN scenario_ref : scenario_ref[i] = "/"
    THEN IF scenario_ref[1] \in Domains /\ scenario_ref[2] = "/" THEN scenario_ref[1] ELSE "fraud"
    ELSE "fraud"

FraudFields == {"transactionAmount", "isVipCustomer", "accountAgeDays", "deviceTrustScore",
                "priorChargebacks"}
LendingFields == {"creditScore", "debtToIncomeRatio", "employmentYears", "priorDefaults"}
ClaimsFields == {"claimAmount", "policyAge", "priorClaims", "isHighValuePolicy",
                 "incidentSeverity"}
FieldNames == FraudFields \cup LendingFields \cup ClaimsFields

FieldsOf(domain) == CASE domain = "fraud" -> FraudFields
                      [] domain = "lending" -> LendingFields
                      [] domain = "claims" -> ClaimsFields

(* map_kickoff_to_inputs, map_kickoff_to_state, map_kickoff_to_crew_inputs:   *)
(* a missing fraud field counts as 0 or False, the others stay missing.      *)
map_kickoff_to_inputs(context) ==
  [f \in FieldNames |->
     IF f \in DOMAIN context /\ context[f].kind # "null" THEN context[f].is
     ELSE IF f \in FraudFields THEN (IF f = "isVipCustomer" THEN FALSE ELSE 0)
     ELSE None]

(* Mutation: only what the nodes of the graph read is declared.              *)
FraudStateOfFraud == FraudFields

(* The fields langgraph's state schema declares: it drops any other.         *)
FraudState == FraudFields \cup LendingFields \cup ClaimsFields

Fields(framework, installed, context) ==
  LET all == map_kickoff_to_inputs(context)
  IN IF framework = "langgraph" /\ installed
       THEN [f \in FieldNames |-> IF f \in FraudState THEN all[f] ELSE None]
       ELSE all

-----------------------------------------------------------------------------
(* The scorers *)

Opinion(recommendation, confidence) ==
  [recommendation |-> recommendation, confidence |-> confidence]

InsufficientData == Opinion("REVIEW", 50)

ScoreFraudLangChain(f) ==
  IF f.isVipCustomer /\ f.accountAgeDays >= 7 /\ f.transactionAmount <= 5000
    THEN Opinion("APPROVE", 88)
  ELSE IF f.transactionAmount > 5000 \/ f.accountAgeDays < 3 THEN Opinion("REVIEW", 73)
  ELSE Opinion("APPROVE", 78)

ScoreFraudLangGraph(f) ==
  IF f.deviceTrustScore < 8 \/ f.priorChargebacks >= 2 THEN Opinion("BLOCK", 94)
  ELSE IF f.deviceTrustScore < 20 \/ f.priorChargebacks >= 1 THEN Opinion("REVIEW", 84)
  ELSE Opinion("APPROVE", 72)

(* BLOCK has no confidence: the worker takes 0.76 for it.                    *)
ScoreFraudCrewAI(f) ==
  IF \/ f.deviceTrustScore <= 8 \/ f.priorChargebacks >= 2
     \/ f.transactionAmount >= 3000 /\ f.accountAgeDays < 7
    THEN Opinion("BLOCK", None)
    ELSE Opinion("REVIEW", 76)

_clamp(value, lo, hi) == IF value < lo THEN lo ELSE IF value > hi THEN hi ELSE value

(* Approved from the score "high" on, rejected up to "low"; the confidence    *)
(* grows from 0.6 to 0.9 with the distance.                                  *)
Graded(score, low, high, top) ==
  CASE score >= high -> Opinion("APPROVE", 60 + (30 * (score - high)) \div (top - high))
    [] score <= low -> Opinion("REJECT", 60 + (30 * _clamp(low - score, 0, low)) \div low)
    [] OTHER -> Opinion("REVIEW", 50)

(* Mutation: the debt ratio is measured from the low end. *)
DtiReversed(f) == _clamp(f.debtToIncomeRatio - 20, 0, 23)

dti_component(f) == _clamp(43 - f.debtToIncomeRatio, 0, 23)

(* The composite in units of 1/39100: 0.5 / 170 = 115, 0.35 / 23 = 595,      *)
(* 0.15 / 5 = 1173.                                                         *)
score_lending(f) ==
  IF \E n \in LendingFields : f[n] = None THEN InsufficientData
  ELSE IF f.priorDefaults > 0 THEN Opinion("REJECT", 75)
  ELSE Graded(115 * _clamp(f.creditScore - 580, 0, 170) + 595 * dti_component(f)
                + 1173 * _clamp(f.employmentYears, 0, 5),
              13685, 27370, 39100)

CLAIMS_SEVERITY_SCORES == [minor |-> 240, moderate |-> 168, severe |-> 84, total_loss |-> 36]

(* The composite in units of 1/480. *)
score_claims(f) ==
  IF \/ \E n \in ClaimsFields : f[n] = None
     \/ f.incidentSeverity \notin DOMAIN CLAIMS_SEVERITY_SCORES
    THEN InsufficientData
    ELSE Graded(CLAIMS_SEVERITY_SCORES[f.incidentSeverity] + 5 * _clamp(f.policyAge, 0, 24)
                  + _clamp(120 - 36 * f.priorClaims, 0, 120)
                  - (IF f.isHighValuePolicy THEN 72 ELSE 0),
                144, 312, 480)

score_by_domain(framework, domain, f) ==
  CASE domain = "lending" -> score_lending(f)
    [] domain = "claims" -> score_claims(f)
    [] OTHER -> CASE framework = "langchain" -> ScoreFraudLangChain(f)
                  [] framework = "langgraph" -> ScoreFraudLangGraph(f)
                  [] framework = "crewai" -> ScoreFraudCrewAI(f)

(* What the worker sends of a score. *)
_score_result(framework, domain, f) ==
  LET o == score_by_domain(framework, domain, f)
  IN IF o.confidence = None THEN [o EXCEPT !.confidence = 76] ELSE o

-----------------------------------------------------------------------------
(* Whether the worker asks a hosted LLM: its framework is installed and it    *)
(* has a key.                                                               *)
AsksLlm(installed, env) ==
  installed /\ "OPENAI_API_KEY" \in DOMAIN env /\ env.OPENAI_API_KEY # ""

(* What an analysis may return.  For a reply that cannot be parsed the crew   *)
(* takes a plain REVIEW, the others fall back to the rules.                  *)
Analysis(framework, installed, env, scenario_ref, context, replies) ==
  LET domain == detect_domain(scenario_ref)
      rules == _score_result(framework, domain, Fields(framework, installed, context))
      fallback == IF framework = "crewai" THEN Opinion("REVIEW", 76) ELSE rules
  IN IF AsksLlm(installed, env) THEN replies \cup {fallback} ELSE {rules}
=============================================================================
