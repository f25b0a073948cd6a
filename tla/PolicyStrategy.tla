--------------------------- MODULE PolicyStrategy ---------------------------
(***************************************************************************)
(* The local decision rules of the risk-decider coordinator                *)
(* (src/example-agents/runtime/policy-strategy.ts) and the signals its      *)
(* message handlers feed them (risk-decider.worker.ts).                     *)
(*                                                                         *)
(* A policy is a record of the hints the strategy reads; its threshold is   *)
(* the fraction num/den, a confidence is a natural number.  A signal is     *)
(* what one participant said last: an evaluation with a recommendation and  *)
(* a confidence, or an objection with a severity; "says" holds either.      *)
(* signals maps the participants heard from to their signals.               *)
(***************************************************************************)
EXTENDS Integers, FiniteSets

CONSTANT FullConfidence \* confidence 1.0

ASSUME ConfidenceAssumption == FullConfidence \in Nat

PolicyTypes == {"none", "majority", "supermajority", "unanimous"}

(* What the rule schema asks of the rules the hints repeat (and the worker's *)
(* defaults keep): a threshold and a floor between 0 and 1, a veto that takes *)
(* at least one objection.  The worker itself checks none of it.             *)
WellFormed(policy) ==
  /\ policy.type \in PolicyTypes
  /\ policy.den \in Nat \ {0} /\ policy.num \in 0 .. policy.den
  /\ policy.vetoEnabled \in BOOLEAN /\ policy.vetoThreshold \in Nat \ {0}
  /\ policy.minimumConfidence \in 0 .. FullConfidence

-----------------------------------------------------------------------------
(* What a handler keeps of a message *)

(* Mutation: the vote is compared in lower case, as the strategy writes it. *)
VoteInLowerCase(vote) ==
  CASE vote = "approve" -> "APPROVE"
    [] vote = "ABSTAIN" -> "REVIEW"
    [] OTHER            -> "BLOCK"

VoteRecommendation(vote) ==
  CASE vote = "APPROVE" -> "APPROVE"
    [] vote = "ABSTAIN" -> "REVIEW"
    [] OTHER            -> "BLOCK"

SignalOf(m) ==
  IF m.type = "Vote"
    THEN [type |-> "Evaluation", says |-> VoteRecommendation(m.says),
          confidence |-> FullConfidence]
    ELSE [type |-> m.type, says |-> m.says, confidence |-> m.confidence]

(* signals.set: the last message of a participant replaces the earlier ones. *)
Observe(signals, m) ==
  [p \in DOMAIN signals \cup {m.sender} |-> IF p = m.sender THEN SignalOf(m) ELSE signals[p]]

-----------------------------------------------------------------------------
(* isQuorumMet *)

Ceiling(num, den) == (num + den - 1) \div den

AtLeast(n, m) == IF n < m THEN m ELSE n

isQuorumMet(policy, signals, expected) ==
  Cardinality(DOMAIN signals) >=
    IF policy.type \in {"unanimous", "none"}
      THEN expected
      ELSE AtLeast(Ceiling(expected * policy.num, policy.den), 1)

-----------------------------------------------------------------------------
(* decide *)

Evaluations(signals) == {p \in DOMAIN signals : signals[p].type = "Evaluation"}
Objections(signals)  == {p \in DOMAIN signals : signals[p].type = "Objection"}

(* Mutation: the confidence floor is not applied. *)
QualifiedAnyConfidence(policy, signals) == Evaluations(signals)

Qualified(policy, signals) ==
  {p \in Evaluations(signals) : signals[p].confidence >= policy.minimumConfidence}

Disqualified(policy, signals) ==
  {p \in Evaluations(signals) : signals[p].confidence < policy.minimumConfidence}

Saying(policy, signals, recommendations) ==
  Cardinality({p \in Qualified(policy, signals) : signals[p].says \in recommendations})

Vetoed(policy, signals) ==
  /\ policy.vetoEnabled
  /\ Cardinality({p \in Objections(signals) : signals[p].says = "critical"})
       >= policy.vetoThreshold

Approve == [action |-> "approve", vote |-> "approve"]
StepUp  == [action |-> "step_up", vote |-> "approve"]
Decline == [action |-> "decline", vote |-> "reject"]

(* Mutation: objections are left out of the opposition. *)
OpposedByVotesOnly(policy, signals) == Saying(policy, signals, {"BLOCK", "REJECT"})

Opposed(policy, signals) ==
  Saying(policy, signals, {"BLOCK", "REJECT"}) + Cardinality(Objections(signals))

decide(policy, signals) ==
  LET total     == Cardinality(DOMAIN signals)
      approvals == Saying(policy, signals, {"APPROVE"})
      effective == total - Saying(policy, signals, {"ABSTAIN"})
      opposed   == Opposed(policy, signals)
      (* approvals / effective >= threshold, 0 / 0 counting as 0 *)
      enough    == IF effective > 0 THEN approvals * policy.den >= policy.num * effective
                                    ELSE policy.num <= 0
  IN CASE Vetoed(policy, signals) -> Decline
       [] ~Vetoed(policy, signals) /\ policy.type = "unanimous" ->
            IF opposed > 0 THEN Decline
            ELSE IF Disqualified(policy, signals) = {} /\ total > 0 /\ approvals = total
                   THEN Approve
                   ELSE StepUp
       [] ~Vetoed(policy, signals) /\ policy.type \in {"majority", "supermajority"} ->
            IF enough THEN Approve
            ELSE IF opposed > approvals THEN Decline ELSE StepUp
       [] ~Vetoed(policy, signals) /\ policy.type = "none" ->
            IF opposed > 0 THEN Decline ELSE Approve
=============================================================================
