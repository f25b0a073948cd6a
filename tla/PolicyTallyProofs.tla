------------------------- MODULE PolicyTallyProofs --------------------------
(***************************************************************************)
(* The tally is fair for every number of participants, every threshold and  *)
(* every floor: two sets of signals are compared by who approves in them,    *)
(* who does not, who opposes and who has raised a critical objection.       *)
(***************************************************************************)
EXTENDS PolicyTally, FiniteSetTheorems, TLAPS

Signal == [type : {"Evaluation"}, says : Recommendations, confidence : Nat]
            \cup [type : {"Objection"}, says : Severities, confidence : Nat]

(* A map from some of the participants to what each said last. *)
Signals(s) ==
  /\ DOMAIN s \subseteq Participants
  /\ s = [p \in DOMAIN s |-> s[p]]
  /\ \A p \in DOMAIN s : s[p] \in Signal

Approvers(pol, s) == {p \in Qualified(pol, s) : s[p].says \in {"APPROVE"}}
Others(pol, s) == DOMAIN s \ Approvers(pol, s)
Rejectors(pol, s) == {p \in Qualified(pol, s) : s[p].says \in {"BLOCK", "REJECT"}}
Opponents(pol, s) == Rejectors(pol, s) \cup Objections(s)
Critics(s) == {p \in Objections(s) : s[p].says = "critical"}

(* The signals map holds signals, whatever the order of the messages.        *)
IInv == policy \in Policies /\ Signals(signals) /\ ballot \in [Participants -> Votes \cup {""}]

LEMMA InitIInv == Init => IInv
  BY DEF Init, IInv, Signals

(* A handler keeps one signal of its sender and leaves the others alone.     *)
LEMMA ObserveKeepsSignals ==
  ASSUME NEW s, Signals(s), NEW m, m.sender \in Participants, SignalOf(m) \in Signal
  PROVE  /\ Signals(Observe(s, m))
         /\ DOMAIN Observe(s, m) = DOMAIN s \cup {m.sender}
         /\ Observe(s, m)[m.sender] = SignalOf(m)
         /\ \A p \in DOMAIN s \ {m.sender} : Observe(s, m)[p] = s[p]
  BY DEF Signals, Observe

(* What a handler makes of its message. *)
LEMMA StepObserves ==
  ASSUME IInv, NEW p \in Participants,
         ObserveEvaluation(p) \/ ObserveVote(p) \/ ObserveObjection(p)
  PROVE  \E m : /\ m.sender = p /\ SignalOf(m) \in Signal /\ signals' = Observe(signals, m)
                /\ policy' = policy
                /\ ballot'[p] = "APPROVE" =>
                     SignalOf(m) = [type |-> "Evaluation", says |-> "APPROVE",
                                    confidence |-> FullConfidence]
                /\ \A q \in Participants \ {p} : ballot'[q] = ballot[q]
                /\ ballot' \in [Participants -> Votes \cup {""}]
<1> USE ConfidenceAssumption, TallyAssumption DEF IInv, Signal
<1>1. CASE ObserveEvaluation(p)
  <2>1. PICK r \in Recommendations, c \in Confidences :
          signals' = Observe(signals, Message("Evaluation", p, r, c))
    BY <1>1 DEF ObserveEvaluation
  <2> DEFINE m == Message("Evaluation", p, r, c)
  <2>2. m.sender = p /\ SignalOf(m) = [type |-> "Evaluation", says |-> r, confidence |-> c]
    BY DEF Message, SignalOf
  <2>3. [type |-> "Evaluation", says |-> r, confidence |-> c] \in Signal
    OBVIOUS
  <2>4. /\ ballot'[p] = "" /\ policy' = policy
        /\ \A q \in Participants \ {p} : ballot'[q] = ballot[q]
        /\ ballot' \in [Participants -> Votes \cup {""}]
    BY <1>1 DEF ObserveEvaluation
  <2> QED  BY <2>1, <2>2, <2>3, <2>4 DEF m
<1>2. CASE ObserveVote(p)
  <2>1. PICK v \in Votes : /\ signals' = Observe(signals, Message("Vote", p, v, FullConfidence))
                           /\ ballot' = [ballot EXCEPT ![p] = v]
                           /\ policy' = policy
    BY <1>2 DEF ObserveVote
  <2> DEFINE m == Message("Vote", p, v, FullConfidence)
  <2>2. /\ m.sender = p
        /\ SignalOf(m) = [type |-> "Evaluation", says |-> VoteRecommendation(v),
                          confidence |-> FullConfidence]
    BY DEF Message, SignalOf
  <2>3. VoteRecommendation(v) \in Recommendations /\ VoteRecommendation("APPROVE") = "APPROVE"
    BY DEF VoteRecommendation, Votes, Recommendations
  <2>4. [type |-> "Evaluation", says |-> VoteRecommendation(v),
         confidence |-> FullConfidence] \in Signal
    BY <2>3
  <2>5. /\ ballot'[p] = v
        /\ \A q \in Participants \ {p} : ballot'[q] = ballot[q]
        /\ ballot' \in [Participants -> Votes \cup {""}]
    BY <2>1
  <2> QED  BY <2>1, <2>2, <2>3, <2>4, <2>5 DEF m
<1>3. CASE ObserveObjection(p)
  <2>1. PICK v \in Severities :
          /\ signals' = Observe(signals, Message("Objection", p, v, FullConfidence))
          /\ ballot' = [ballot EXCEPT ![p] = ""]
          /\ policy' = policy
    BY <1>3 DEF ObserveObjection
  <2> DEFINE m == Message("Objection", p, v, FullConfidence)
  <2>2. /\ m.sender = p
        /\ SignalOf(m) = [type |-> "Objection", says |-> v, confidence |-> FullConfidence]
    BY DEF Message, SignalOf
  <2>3. [type |-> "Objection", says |-> v, confidence |-> FullConfidence] \in Signal
    OBVIOUS
  <2>4. /\ ballot'[p] = ""
        /\ \A q \in Participants \ {p} : ballot'[q] = ballot[q]
        /\ ballot' \in [Participants -> Votes \cup {""}]
    BY <2>1
  <2> QED  BY <2>1, <2>2, <2>3, <2>4 DEF m
<1> QED  BY <1>1, <1>2, <1>3

LEMMA IInvStep == IInv /\ [Next]_vars => IInv'
<1> SUFFICES ASSUME IInv, [Next]_vars PROVE IInv'
  OBVIOUS
<1>1. ASSUME NEW p \in Participants,
             ObserveEvaluation(p) \/ ObserveVote(p) \/ ObserveObjection(p)
      PROVE  IInv'
  <2>1. PICK m : /\ m.sender = p /\ SignalOf(m) \in Signal /\ signals' = Observe(signals, m)
                 /\ policy' = policy
                 /\ ballot' \in [Participants -> Votes \cup {""}]
    BY <1>1, StepObserves
  <2>2. Signals(Observe(signals, m))
    BY <2>1, ObserveKeepsSignals DEF IInv
  <2>3. Signals(signals')
    BY <2>1, <2>2
  <2> QED  BY <2>1, <2>3 DEF IInv, Signals
<1>2. CASE UNCHANGED vars
  BY <1>2 DEF IInv, Signals, vars
<1> QED  BY <1>1, <1>2 DEF Next

-----------------------------------------------------------------------------
(* What the strategy counts, as the sizes of four sets. *)
LEMMA Counts ==
  ASSUME NEW pol, NEW s, Signals(s)
  PROVE  /\ Saying(pol, s, {"APPROVE"}) = Cardinality(Approvers(pol, s))
         /\ Saying(pol, s, {"ABSTAIN"}) = 0
         /\ Opposed(pol, s) = Cardinality(Opponents(pol, s))
         /\ Cardinality(DOMAIN s) = Cardinality(Approvers(pol, s)) + Cardinality(Others(pol, s))
         /\ \A S \in {Approvers(pol, s), Others(pol, s), Opponents(pol, s), Critics(s),
                      DOMAIN s} :
              IsFiniteSet(S) /\ Cardinality(S) \in Nat
<1>1. IsFiniteSet(DOMAIN s)
  BY TallyAssumption, FS_Subset DEF Signals
<1>2. \A S \in SUBSET DOMAIN s : IsFiniteSet(S) /\ Cardinality(S) \in Nat
  BY <1>1, FS_Subset, FS_CardinalityType
<1>3. /\ Approvers(pol, s) \in SUBSET DOMAIN s /\ Others(pol, s) \in SUBSET DOMAIN s
      /\ Rejectors(pol, s) \in SUBSET DOMAIN s /\ Objections(s) \in SUBSET DOMAIN s
      /\ Opponents(pol, s) \in SUBSET DOMAIN s /\ Critics(s) \in SUBSET DOMAIN s
  BY DEF Approvers, Others, Rejectors, Opponents, Critics, Qualified, Evaluations, Objections
<1>4. Saying(pol, s, {"APPROVE"}) = Cardinality(Approvers(pol, s))
  BY DEF Saying, Approvers
<1>5. Saying(pol, s, {"ABSTAIN"}) = 0
  <2>1. {p \in Qualified(pol, s) : s[p].says \in {"ABSTAIN"}} = {}
    BY DEF Qualified, Evaluations, Signals, Signal, Recommendations, Severities
  <2> QED  BY <2>1, FS_EmptySet DEF Saying
<1>6. Opposed(pol, s) = Cardinality(Opponents(pol, s))
  <2>1. Rejectors(pol, s) \cap Objections(s) = {}
    BY DEF Rejectors, Qualified, Evaluations, Objections
  <2>2. /\ IsFiniteSet(Rejectors(pol, s)) /\ Cardinality(Rejectors(pol, s)) \in Nat
        /\ IsFiniteSet(Objections(s)) /\ Cardinality(Objections(s)) \in Nat
    BY <1>2, <1>3
  <2>3. Cardinality(Opponents(pol, s)) = Cardinality(Rejectors(pol, s)) + Cardinality(Objections(s))
    <3>1. Cardinality(Rejectors(pol, s) \cup Objections(s)) =
            Cardinality(Rejectors(pol, s)) + Cardinality(Objections(s))
              - Cardinality(Rejectors(pol, s) \cap Objections(s))
      BY <2>2, FS_Union
    <3>2. Cardinality(Rejectors(pol, s) \cap Objections(s)) = 0
      BY <2>1, FS_EmptySet
    <3> QED  BY <2>2, <3>1, <3>2 DEF Opponents
  <2>4. Saying(pol, s, {"BLOCK", "REJECT"}) = Cardinality(Rejectors(pol, s))
    BY DEF Saying, Rejectors
  <2> QED  BY <2>3, <2>4 DEF Opposed
<1>7. Cardinality(DOMAIN s) = Cardinality(Approvers(pol, s)) + Cardinality(Others(pol, s))
  <2>1. (DOMAIN s) \cap Approvers(pol, s) = Approvers(pol, s)
    BY <1>3
  <2>2. /\ Cardinality(DOMAIN s) \in Nat /\ Cardinality(Approvers(pol, s)) \in Nat
        /\ Cardinality(Others(pol, s)) \in Nat
    BY <1>2, <1>3
  <2>3. Cardinality(Others(pol, s)) = Cardinality(DOMAIN s) - Cardinality(Approvers(pol, s))
    BY <1>1, <2>1, FS_Difference DEF Others
  <2> QED  BY <2>2, <2>3
<1> QED  BY <1>2, <1>3, <1>4, <1>5, <1>6, <1>7

(* The outcome in terms of those sizes. *)
LEMMA Outcome ==
  ASSUME NEW pol, WellFormed(pol), NEW s, Signals(s),
         NEW A, A = Cardinality(Approvers(pol, s)),
         NEW N, N = Cardinality(Others(pol, s)),
         NEW O, O = Cardinality(Opponents(pol, s))
  PROVE  Rank(decide(pol, s)) =
           IF Vetoed(pol, s) THEN 0
           ELSE IF pol.type = "unanimous" THEN IF O > 0 THEN 0 ELSE IF N = 0 /\ A > 0 THEN 2 ELSE 1
           ELSE IF pol.type = "none" THEN IF O > 0 THEN 0 ELSE 2
           ELSE IF (IF A + N > 0 THEN A * pol.den >= pol.num * (A + N) ELSE pol.num <= 0) THEN 2
           ELSE IF O > A THEN 0 ELSE 1
<1> DEFINE T == Cardinality(DOMAIN s)
           apart == IF A + N > 0 THEN A * pol.den >= pol.num * (A + N) ELSE pol.num <= 0
<1>1. /\ A \in Nat /\ N \in Nat /\ O \in Nat /\ T = A + N
      /\ Saying(pol, s, {"APPROVE"}) = A /\ T - Saying(pol, s, {"ABSTAIN"}) = A + N
      /\ Opposed(pol, s) = O
  BY Counts
<1>2. Rank(Approve) = 2 /\ Rank(StepUp) = 1 /\ Rank(Decline) = 0
  BY DEF Rank, Approve, StepUp, Decline
<1>3. pol.type \in {"none", "majority", "supermajority", "unanimous"}
  BY DEF WellFormed, PolicyTypes
<1>4. CASE Vetoed(pol, s)
  BY <1>2, <1>4 DEF decide
<1>5. CASE ~Vetoed(pol, s) /\ pol.type = "unanimous"
  <2>1. N = 0 => Disqualified(pol, s) = {}
    <3>1. N = 0 => Others(pol, s) = {}
      BY Counts, FS_EmptySet
    <3>2. Disqualified(pol, s) \cap Approvers(pol, s) = {} /\ Disqualified(pol, s) \subseteq DOMAIN s
      <4>1. \A p \in Evaluations(s) : s[p].confidence \in Nat
        BY DEF Evaluations, Signals, Signal
      <4>2. pol.minimumConfidence \in Nat
        BY ConfidenceAssumption DEF WellFormed
      <4> QED  BY <4>1, <4>2 DEF Disqualified, Approvers, Qualified, Evaluations
    <3> QED  BY <3>1, <3>2 DEF Others
  <2>2. (Disqualified(pol, s) = {} /\ T > 0 /\ A = T) <=> (N = 0 /\ A > 0)
    BY <1>1, <2>1
  <2>3. decide(pol, s) = IF O > 0 THEN Decline
                         ELSE IF Disqualified(pol, s) = {} /\ T > 0 /\ A = T THEN Approve ELSE StepUp
    BY <1>1, <1>5 DEF decide
  <2> QED  BY <1>2, <1>5, <2>2, <2>3
<1>6. CASE ~Vetoed(pol, s) /\ pol.type = "none"
  <2>1. decide(pol, s) = IF O > 0 THEN Decline ELSE Approve
    BY <1>1, <1>6 DEF decide
  <2> QED  BY <1>2, <1>6, <2>1
<1>7. CASE ~Vetoed(pol, s) /\ pol.type \in {"majority", "supermajority"}
  <2>1. decide(pol, s) = IF apart THEN Approve ELSE IF O > A THEN Decline ELSE StepUp
    BY <1>1, <1>7 DEF decide
  <2> HIDE DEF apart
  <2>2. Rank(decide(pol, s)) = IF apart THEN 2 ELSE IF O > A THEN 0 ELSE 1
    BY <1>2, <2>1
  <2> QED  BY <1>7, <2>2 DEF apart
<1> QED  BY <1>3, <1>4, <1>5, <1>6, <1>7

(* More approvals and fewer others keep a threshold met.                     *)
LEMMA ThresholdMonotone ==
  ASSUME NEW num \in Nat, NEW den \in Nat \ {0}, num <= den,
         NEW A \in Nat, NEW N \in Nat, NEW B \in Nat, NEW M \in Nat, A <= B, M <= N,
         IF A + N > 0 THEN A * den >= num * (A + N) ELSE num <= 0
  PROVE  IF B + M > 0 THEN B * den >= num * (B + M) ELSE num <= 0
<1> DEFINE rest == den - num
<1>1. rest \in Nat /\ den = num + rest
  OBVIOUS
<1>2. A * rest >= num * N
  <2>1. CASE A + N > 0
    BY <1>1, <2>1
  <2>2. CASE A + N = 0
    BY <1>1, <2>2
  <2> QED  BY <2>1, <2>2
<1>3. B * rest >= A * rest
  BY <1>1
<1>4. num * N >= num * M
  OBVIOUS
<1> HIDE DEF rest
<1>5. B * rest >= num * M
  <2>1. /\ B * rest \in Nat /\ A * rest \in Nat /\ num * N \in Nat /\ num * M \in Nat
    BY <1>1
  <2> QED  BY <1>2, <1>3, <1>4, <2>1
<1>6. B * den >= num * (B + M)
  BY <1>1, <1>5
<1>7. ASSUME B + M = 0 PROVE num <= 0
  <2>1. A = 0 /\ B = 0 /\ M = 0
    BY <1>7
  <2>2. CASE N = 0
    BY <2>1, <2>2
  <2>3. CASE N > 0
    BY <1>2, <2>1, <2>3
  <2> QED  BY <2>2, <2>3
<1> QED  BY <1>6, <1>7

(* Whoever approves still approves, the others, the opponents and the critics *)
(* do not become more: the outcome is no less favourable.                    *)
LEMMA Favourable ==
  ASSUME NEW pol, WellFormed(pol), NEW s, Signals(s), NEW t, Signals(t),
         Approvers(pol, s) \subseteq Approvers(pol, t),
         Others(pol, t) \subseteq Others(pol, s),
         Opponents(pol, t) \subseteq Opponents(pol, s),
         Critics(t) \subseteq Critics(s)
  PROVE  Rank(decide(pol, t)) >= Rank(decide(pol, s))
<1> DEFINE A == Cardinality(Approvers(pol, s))
           B == Cardinality(Approvers(pol, t))
           N == Cardinality(Others(pol, s))
           M == Cardinality(Others(pol, t))
           O == Cardinality(Opponents(pol, s))
           P == Cardinality(Opponents(pol, t))
           enough == IF A + N > 0 THEN A * pol.den >= pol.num * (A + N) ELSE pol.num <= 0
           enoughNow == IF B + M > 0 THEN B * pol.den >= pol.num * (B + M) ELSE pol.num <= 0
<1>1. /\ A \in Nat /\ B \in Nat /\ N \in Nat /\ M \in Nat /\ O \in Nat /\ P \in Nat
      /\ A <= B /\ M <= N /\ P <= O
  BY Counts, FS_Subset
<1>2. Vetoed(pol, t) => Vetoed(pol, s)
  <2>1. /\ Cardinality(Critics(t)) <= Cardinality(Critics(s))
        /\ Cardinality(Critics(t)) \in Nat /\ Cardinality(Critics(s)) \in Nat
    BY Counts, FS_Subset
  <2>2. pol.vetoThreshold \in Nat
    BY DEF WellFormed
  <2> QED  BY <2>1, <2>2 DEF Vetoed, Critics
<1>3. Rank(decide(pol, s)) =
        IF Vetoed(pol, s) THEN 0
        ELSE IF pol.type = "unanimous" THEN IF O > 0 THEN 0 ELSE IF N = 0 /\ A > 0 THEN 2 ELSE 1
        ELSE IF pol.type = "none" THEN IF O > 0 THEN 0 ELSE 2
        ELSE IF enough THEN 2
        ELSE IF O > A THEN 0 ELSE 1
  BY Outcome
<1>4. Rank(decide(pol, t)) =
        IF Vetoed(pol, t) THEN 0
        ELSE IF pol.type = "unanimous" THEN IF P > 0 THEN 0 ELSE IF M = 0 /\ B > 0 THEN 2 ELSE 1
        ELSE IF pol.type = "none" THEN IF P > 0 THEN 0 ELSE 2
        ELSE IF enoughNow THEN 2
        ELSE IF P > B THEN 0 ELSE 1
  BY Outcome
<1>5. enough => enoughNow
  <2>1. pol.num \in Nat /\ pol.den \in Nat \ {0} /\ pol.num <= pol.den
    BY DEF WellFormed
  <2> HIDE DEF A, B, N, M
  <2> QED  BY <1>1, <2>1, ThresholdMonotone
<1> HIDE DEF A, B, N, M, O, P, enough, enoughNow
<1> QED  BY <1>1, <1>2, <1>3, <1>4, <1>5

-----------------------------------------------------------------------------
(* One step of the tally, in those sets: the others are left as they were.  *)

(* A vote APPROVE counts, whatever the floor. *)
LEMMA SupportStep ==
  ASSUME NEW pol, WellFormed(pol), NEW s, Signals(s), NEW t, Signals(t),
         NEW p \in Participants, DOMAIN t = DOMAIN s \cup {p},
         \A q \in DOMAIN s \ {p} : t[q] = s[q],
         t[p] = [type |-> "Evaluation", says |-> "APPROVE", confidence |-> FullConfidence]
  PROVE  Rank(decide(pol, t)) >= Rank(decide(pol, s))
<1>1. FullConfidence >= pol.minimumConfidence
  BY ConfidenceAssumption DEF WellFormed
<1>2. p \in Approvers(pol, t)
  BY <1>1 DEF Approvers, Qualified, Evaluations
<1>3. p \notin Objections(t) /\ p \notin Rejectors(pol, t)
  BY DEF Objections, Rejectors
<1>4. Approvers(pol, s) \subseteq Approvers(pol, t)
  BY <1>2 DEF Approvers, Qualified, Evaluations
<1>5. Others(pol, t) \subseteq Others(pol, s)
  BY <1>2 DEF Others, Approvers, Qualified, Evaluations
<1>6. Opponents(pol, t) \subseteq Opponents(pol, s)
  BY <1>3 DEF Opponents, Rejectors, Objections, Qualified, Evaluations
<1>7. Critics(t) \subseteq Critics(s)
  BY <1>3 DEF Critics, Objections
<1> QED  BY <1>4, <1>5, <1>6, <1>7, Favourable

(* An objection, or an evaluation against at full confidence, counts unless  *)
(* it takes back a critical objection.                                       *)
LEMMA OppositionStep ==
  ASSUME NEW pol, WellFormed(pol), NEW s, Signals(s), NEW t, Signals(t),
         NEW p \in Participants, DOMAIN t = DOMAIN s \cup {p},
         \A q \in DOMAIN s \ {p} : t[q] = s[q],
         ~IsCritical(s, p), t[p].confidence = FullConfidence,
         t[p].says \in {"BLOCK", "REJECT"} \cup Severities
  PROVE  Rank(decide(pol, t)) <= Rank(decide(pol, s))
<1>1. FullConfidence >= pol.minimumConfidence
  BY ConfidenceAssumption DEF WellFormed
<1>2. p \in Opponents(pol, t) /\ p \notin Approvers(pol, t)
  <2>1. p \in DOMAIN t /\ t[p] \in Signal
    BY DEF Signals
  <2>2. t[p].says # "APPROVE"
    BY DEF Severities
  <2>3. \/ t[p].type = "Objection"
        \/ t[p].type = "Evaluation" /\ t[p].says \in {"BLOCK", "REJECT"}
    <3>1. \A x \in Signal : \/ x.type = "Objection"
                            \/ x.type = "Evaluation" /\ x.says \in Recommendations
      BY DEF Signal
    <3>2. Recommendations \cap Severities = {}
      BY DEF Recommendations, Severities
    <3> QED  BY <2>1, <3>1, <3>2
  <2> QED  BY <1>1, <2>1, <2>2, <2>3
           DEF Opponents, Approvers, Rejectors, Qualified, Evaluations, Objections
<1>4. Approvers(pol, t) \subseteq Approvers(pol, s)
  BY <1>2 DEF Approvers, Qualified, Evaluations
<1>5. Others(pol, s) \subseteq Others(pol, t)
  BY <1>2 DEF Others, Approvers, Qualified, Evaluations
<1>6. Opponents(pol, s) \subseteq Opponents(pol, t)
  BY <1>2 DEF Opponents, Rejectors, Objections, Qualified, Evaluations
<1>7. Critics(s) \subseteq Critics(t)
  BY DEF Critics, Objections, IsCritical
<1>8. Rank(decide(pol, s)) >= Rank(decide(pol, t))
  BY <1>4, <1>5, <1>6, <1>7, Favourable
<1> QED  BY <1>8

(* The neutral evaluation of Masked. *)
Neutral == [type |-> "Evaluation", says |-> "REVIEW", confidence |-> FullConfidence]

(* Making the evaluations below the floor neutral changes no one's side.     *)
LEMMA MaskedKeepsSides ==
  ASSUME IInv
  PROVE  /\ WellFormed(policy) /\ Signals(signals) /\ Signals(Masked)
         /\ Approvers(policy, Masked) = Approvers(policy, signals)
         /\ Others(policy, Masked) = Others(policy, signals)
         /\ Opponents(policy, Masked) = Opponents(policy, signals)
         /\ Critics(Masked) = Critics(signals)
<1>1. WellFormed(policy) /\ Signals(signals)
  BY TallyAssumption DEF IInv
<1>2. /\ DOMAIN Masked = DOMAIN signals
      /\ \A p \in Disqualified(policy, signals) : p \in DOMAIN signals => Masked[p] = Neutral
      /\ \A p \in DOMAIN signals : p \notin Disqualified(policy, signals) =>
           Masked[p] = signals[p]
  BY DEF Masked, Neutral
<1>3. Signals(Masked)
  <2>1. Neutral \in Signal
    BY ConfidenceAssumption DEF Neutral, Signal, Recommendations
  <2>2. Masked = [p \in DOMAIN Masked |-> Masked[p]]
    BY DEF Masked
  <2>3. \A p \in DOMAIN Masked : Masked[p] \in Signal
    BY <1>1, <1>2, <2>1 DEF Signals
  <2> QED  BY <1>1, <1>2, <2>2, <2>3 DEF Signals
<1>4. \A p \in Disqualified(policy, signals) :
        /\ p \in Evaluations(signals) /\ p \notin Qualified(policy, signals)
        /\ p \in DOMAIN signals
  BY <1>1, ConfidenceAssumption
     DEF Disqualified, Qualified, Evaluations, Signals, Signal, WellFormed
<1>5. Neutral.type = "Evaluation" /\ Neutral.says = "REVIEW"
  BY DEF Neutral
<1>6. Objections(Masked) = Objections(signals)
  BY <1>2, <1>4, <1>5 DEF Objections, Evaluations
<1>7. Approvers(policy, Masked) = Approvers(policy, signals)
  BY <1>2, <1>4, <1>5 DEF Approvers, Qualified, Evaluations
<1>8. Rejectors(policy, Masked) = Rejectors(policy, signals)
  BY <1>2, <1>4, <1>5 DEF Rejectors, Qualified, Evaluations
<1>9. Critics(Masked) = Critics(signals)
  BY <1>2, <1>4, <1>5, <1>6 DEF Critics, Objections, Evaluations
<1> QED  BY <1>1, <1>2, <1>3, <1>6, <1>7, <1>8, <1>9 DEF Others, Opponents

(* The rank tells the decisions apart. *)
LEMMA RankTellsApart ==
  ASSUME NEW pol, WellFormed(pol), NEW s
  PROVE  /\ decide(pol, s).action = "approve" <=> Rank(decide(pol, s)) = 2
         /\ decide(pol, s).action = "decline" <=> Rank(decide(pol, s)) = 0
<1>1. decide(pol, s) \in {Approve, StepUp, Decline}
  BY DEF decide, WellFormed, PolicyTypes
<1> QED  BY <1>1 DEF Rank, Approve, StepUp, Decline

-----------------------------------------------------------------------------
(* The tally keeps its invariant, for every number of participants.          *)
THEOREM Invariance == Spec => []IInv
  BY InitIInv, IInvStep, PTL DEF Spec

(* The confidence floor, whatever the policy's threshold, veto and floor: an *)
(* evaluation below it decides nothing a neutral one would not.              *)
THEOREM FloorHolds == Spec => []UnconfidentSignalsDoNotCount
<1>1. ASSUME IInv PROVE UnconfidentSignalsDoNotCount
  <2>1. Rank(decide(policy, Masked)) = Rank(decide(policy, signals))
    <3> DEFINE A == Cardinality(Approvers(policy, signals))
               N == Cardinality(Others(policy, signals))
               O == Cardinality(Opponents(policy, signals))
    <3>1. /\ A = Cardinality(Approvers(policy, Masked))
          /\ N = Cardinality(Others(policy, Masked))
          /\ O = Cardinality(Opponents(policy, Masked))
          /\ Vetoed(policy, Masked) <=> Vetoed(policy, signals)
      BY <1>1, MaskedKeepsSides DEF Vetoed, Critics
    <3>2. WellFormed(policy) /\ Signals(signals) /\ Signals(Masked)
      BY <1>1, MaskedKeepsSides
    <3> HIDE DEF A, N, O
    <3>3. Rank(decide(policy, Masked)) =
            IF Vetoed(policy, Masked) THEN 0
            ELSE IF policy.type = "unanimous"
              THEN IF O > 0 THEN 0 ELSE IF N = 0 /\ A > 0 THEN 2 ELSE 1
            ELSE IF policy.type = "none" THEN IF O > 0 THEN 0 ELSE 2
            ELSE IF (IF A + N > 0 THEN A * policy.den >= policy.num * (A + N)
                                  ELSE policy.num <= 0) THEN 2
            ELSE IF O > A THEN 0 ELSE 1
      BY <3>1, <3>2, Outcome
    <3>4. Rank(decide(policy, signals)) =
            IF Vetoed(policy, signals) THEN 0
            ELSE IF policy.type = "unanimous"
              THEN IF O > 0 THEN 0 ELSE IF N = 0 /\ A > 0 THEN 2 ELSE 1
            ELSE IF policy.type = "none" THEN IF O > 0 THEN 0 ELSE 2
            ELSE IF (IF A + N > 0 THEN A * policy.den >= policy.num * (A + N)
                                  ELSE policy.num <= 0) THEN 2
            ELSE IF O > A THEN 0 ELSE 1
      BY <3>2, Outcome DEF A, N, O
    <3> QED  BY <3>1, <3>3, <3>4
  <2> QED  BY <1>1, <2>1, MaskedKeepsSides, RankTellsApart DEF UnconfidentSignalsDoNotCount
<1> QED  BY <1>1, Invariance, PTL

(* Support, whatever the policy and the other signals: a participant's vote  *)
(* APPROVE, also one that replaces what it said before, never makes the       *)
(* outcome less favourable.                                                  *)
THEOREM SupportNeverHurts == Spec => MoreSupportNeverHurts
<1>1. ASSUME IInv, [Next]_vars, NEW p \in Participants,
             ballot[p] # "APPROVE", ballot'[p] = "APPROVE"
      PROVE  Rank(decide(policy, signals')) >= Rank(decide(policy, signals))
  <2>1. PICK q \in Participants : ObserveEvaluation(q) \/ ObserveVote(q) \/ ObserveObjection(q)
    BY <1>1 DEF Next, vars
  <2>2. PICK m : /\ m.sender = q /\ SignalOf(m) \in Signal /\ signals' = Observe(signals, m)
                 /\ ballot'[q] = "APPROVE" => SignalOf(m) = [type |-> "Evaluation",
                                     says |-> "APPROVE", confidence |-> FullConfidence]
                 /\ \A r \in Participants \ {q} : ballot'[r] = ballot[r]
    BY <1>1, <2>1, StepObserves
  <2>3. q = p
    BY <1>1, <2>2
  <2>4. Signals(signals) /\ WellFormed(policy)
    BY <1>1, TallyAssumption DEF IInv
  <2>5. /\ Signals(signals') /\ DOMAIN signals' = DOMAIN signals \cup {p}
        /\ signals'[p] = SignalOf(m)
        /\ \A r \in DOMAIN signals \ {p} : signals'[r] = signals[r]
    BY <2>2, <2>3, <2>4, ObserveKeepsSignals
  <2>6. signals'[p] = [type |-> "Evaluation", says |-> "APPROVE", confidence |-> FullConfidence]
    BY <1>1, <2>2, <2>3, <2>5
  <2> QED  BY <2>4, <2>5, <2>6, SupportStep
<1>2. IInv /\ [Next]_vars => [\A p \in Participants :
        ballot[p] # "APPROVE" /\ ballot'[p] = "APPROVE" =>
          Rank(decide(policy, signals')) >= Rank(decide(policy, signals))]_vars
  BY <1>1
<1> QED  BY <1>2, Invariance, PTL DEF Spec, MoreSupportNeverHurts

(* Opposition, whatever the policy and the other signals: an objection, or an *)
(* evaluation or a vote against at full confidence, never makes the outcome  *)
(* more favourable, unless it takes back a critical objection.               *)
THEOREM OppositionNeverHelps == Spec => MoreOppositionNeverHelps
<1>1. ASSUME IInv, [Next]_vars, NEW p \in Participants,
             Heard(p), ~IsCritical(signals, p),
             signals'[p].says \in {"BLOCK", "REJECT"} \cup Severities,
             signals'[p].confidence = FullConfidence
      PROVE  Rank(decide(policy, signals')) <= Rank(decide(policy, signals))
  <2>1. PICK q \in Participants : ObserveEvaluation(q) \/ ObserveVote(q) \/ ObserveObjection(q)
    <3>1. signals' # signals
      BY <1>1 DEF Heard
    <3> QED  BY <1>1, <3>1 DEF Next, vars
  <2>2. PICK m : m.sender = q /\ SignalOf(m) \in Signal /\ signals' = Observe(signals, m)
    BY <1>1, <2>1, StepObserves
  <2>3. Signals(signals) /\ WellFormed(policy)
    BY <1>1, TallyAssumption DEF IInv
  <2>4. /\ Signals(signals') /\ DOMAIN signals' = DOMAIN signals \cup {q}
        /\ \A r \in DOMAIN signals \ {q} : signals'[r] = signals[r]
    BY <2>2, <2>3, ObserveKeepsSignals
  <2>5. q = p
    BY <1>1, <2>4 DEF Heard
  <2> QED  BY <1>1, <2>3, <2>4, <2>5, OppositionStep
<1>2. IInv /\ [Next]_vars => [\A p \in Participants :
        /\ Heard(p)
        /\ ~IsCritical(signals, p)
        /\ signals'[p].says \in {"BLOCK", "REJECT"} \cup Severities
        /\ signals'[p].confidence = FullConfidence
        => Rank(decide(policy, signals')) <= Rank(decide(policy, signals))]_vars
  BY <1>1
<1> QED  BY <1>2, Invariance, PTL DEF Spec, MoreOppositionNeverHelps
=============================================================================
