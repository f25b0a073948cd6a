---------------------------- MODULE PolicyTally -----------------------------
(***************************************************************************)
(* The coordinator's tally on its own: the Evaluation, Vote and Objection   *)
(* handlers of risk-decider.worker.ts fill the signals, from any            *)
(* participants and in any order, and the strategy is asked what it would   *)
(* decide.  Deliberation restricts the messages to those the specialists    *)
(* of this repository send; here they are those of any participant of the   *)
(* Decision mode.                                                           *)
(***************************************************************************)
EXTENDS PolicyStrategy

CONSTANTS Participants, \* the participants other than the coordinator
          Policies,     \* the policies a run may be launched with
          Confidences   \* the confidences an evaluation may carry

ASSUME TallyAssumption == /\ FullConfidence \in Confidences
                          /\ Confidences \subseteq Nat
                          /\ IsFiniteSet(Participants)
                          /\ \A p \in Policies : WellFormed(p)

VARIABLES policy,    \* the policy hints, fixed for a run
          signals,   \* the signals map
          ballot     \* history: the vote a participant's signal comes from, "" if none

vars == <<policy, signals, ballot>>

Recommendations == {"APPROVE", "REVIEW", "BLOCK", "REJECT"}
Votes == {"APPROVE", "ABSTAIN", "REJECT"}
Severities == {"high", "critical"}

Message(type, sender, says, confidence) ==
  [type |-> type, sender |-> sender, says |-> says, confidence |-> confidence]

Init ==
  /\ policy \in Policies
  /\ signals = [p \in {} |-> {}]
  /\ ballot = [p \in Participants |-> ""]

ObserveEvaluation(p) ==
  /\ \E r \in Recommendations, c \in Confidences :
       signals' = Observe(signals, Message("Evaluation", p, r, c))
  /\ ballot' = [ballot EXCEPT ![p] = ""]
  /\ UNCHANGED policy

ObserveVote(p) ==
  \E v \in Votes :
    /\ signals' = Observe(signals, Message("Vote", p, v, FullConfidence))
    /\ ballot' = [ballot EXCEPT ![p] = v]
    /\ UNCHANGED policy

ObserveObjection(p) ==
  \E s \in Severities :
    /\ signals' = Observe(signals, Message("Objection", p, s, FullConfidence))
    /\ ballot' = [ballot EXCEPT ![p] = ""]
    /\ UNCHANGED policy

Next == \E p \in Participants : ObserveEvaluation(p) \/ ObserveVote(p) \/ ObserveObjection(p)

Spec == Init /\ [][Next]_vars

-----------------------------------------------------------------------------
Rank(decision) == CASE decision.action = "approve" -> 2
                    [] decision.action = "step_up" -> 1
                    [] decision.action = "decline" -> 0

IsCritical(s, p) == p \in DOMAIN s /\ s[p].type = "Objection" /\ s[p].says = "critical"

Heard(p) == p \in DOMAIN signals' /\ (p \in DOMAIN signals => signals'[p] # signals[p])

(* More support never hurts: whatever else has been said, one participant   *)
(* voting APPROVE never makes the outcome less favourable, also when that    *)
(* participant had said something else before.                              *)
MoreSupportNeverHurts ==
  [][\A p \in Participants :
       ballot[p] # "APPROVE" /\ ballot'[p] = "APPROVE" =>
         Rank(decide(policy, signals')) >= Rank(decide(policy, signals))]_vars

(* More opposition never helps: an objection, or an evaluation or a vote     *)
(* against at full confidence, never makes the outcome more favourable, as   *)
(* long as it does not replace a critical objection of the same participant  *)
(* (which would take its veto back: the last message of a participant wins). *)
MoreOppositionNeverHelps ==
  [][\A p \in Participants :
       /\ Heard(p)
       /\ ~IsCritical(signals, p)
       /\ signals'[p].says \in {"BLOCK", "REJECT"} \cup Severities
       /\ signals'[p].confidence = FullConfidence
       => Rank(decide(policy, signals')) <= Rank(decide(policy, signals))]_vars

(* The same signals with every evaluation below the floor made neutral.      *)
Masked ==
  [p \in DOMAIN signals |->
     IF p \in Disqualified(policy, signals)
       THEN [type |-> "Evaluation", says |-> "REVIEW", confidence |-> FullConfidence]
       ELSE signals[p]]

(* The confidence floor: an evaluation below minimumConfidence neither earns *)
(* an approval nor causes a decline that a neutral REVIEW in its place would *)
(* not.                                                                     *)
UnconfidentSignalsDoNotCount ==
  /\ decide(policy, signals).action = "approve" => decide(policy, Masked).action = "approve"
  /\ decide(policy, signals).action = "decline" <=> decide(policy, Masked).action = "decline"

-----------------------------------------------------------------------------
(* What a comment of the strategy says. *)

(* "Exclude ABSTAIN votes from voting ratio denominator": when everyone has  *)
(* voted, the votes other than ABSTAIN decide whether the threshold is met.  *)
AbstentionsExcluded ==
  LET voted(v) == {p \in DOMAIN signals : ballot[p] = v}
      cast     == Cardinality(DOMAIN signals) - Cardinality(voted("ABSTAIN"))
  IN /\ policy.type = "majority"
     /\ \A p \in DOMAIN signals : ballot[p] # ""
     /\ cast > 0
     /\ Cardinality(voted("APPROVE")) * policy.den >= policy.num * cast
     => decide(policy, signals).action = "approve"
=============================================================================
