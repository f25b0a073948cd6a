------------------------ MODULE DeliberationProofs --------------------------
(* What a session keeps for every set of specialists, policies and opinions. *)
EXTENDS Deliberation, FiniteSetTheorems, WellFoundedInduction, TLAPS

IsBy(i, type, s) == log[i].type = type /\ log[i].sender = s

(* A specialist analyses before it deliberates, and knows only of           *)
(* evaluations the runtime has accepted.                                    *)
AgentInv ==
  \A s \in Specialists :
    /\ agents[s].pc = "waiting" => agents[s].evaluated = "no"
    /\ agents[s].pc \in {"deliberating", "stopped"} => agents[s].evaluated # "no"
    /\ \A t \in agents[s].seen : agents[t].evaluated = "accepted"

(* The log says of the specialists what their state says.                   *)
LogInv ==
  /\ log # <<>> /\ IsBy(1, "Proposal", Coordinator)
  /\ \A i \in 1 .. Len(log) :
       /\ log[i].sender \in Specialists => log[i].type \in {"Evaluation", "Vote"}
       /\ log[i].type = "Evaluation" =>
            /\ log[i].sender \in Specialists
            /\ agents[log[i].sender].evaluated = "accepted"
  /\ \A s \in Specialists : agents[s].evaluated = "accepted" =>
       \E i \in 1 .. Len(log) : IsBy(i, "Evaluation", s)

(* A vote of a specialist has passed the barrier: every evaluation is in the *)
(* log before it, unless the coordinator has begun its commit.               *)
VoteInv ==
  \A i \in 1 .. Len(log) : log[i].type = "Vote" =>
    /\ log[i].sender \in Specialists => agents[log[i].sender].pc = "stopped"
    /\ \/ committed
       \/ /\ log[i].sender \in Specialists
          /\ \A t \in Specialists : \E j \in 1 .. i - 1 : IsBy(j, "Evaluation", t)

(* Nothing ends or holds a session before the coordinator commits, which it  *)
(* does when it has heard everybody, or at its deadline.                     *)
CommitInv ==
  /\ turn # "listening" \/ waitTimer = "fired" \/ session \notin {"open", "expired"} => committed
  /\ committed /\ waitTimer # "fired" => Specialists \subseteq DOMAIN signals
  /\ Specialists # {} /\ Specialists \subseteq DOMAIN signals => committed

(* The coordinator has heard of those, and of all those, whose messages it   *)
(* has handled.                                                              *)
HeardInv ==
  /\ read[Coordinator] = 0 => waitTimer = "off"
  /\ \A s \in DOMAIN signals : agents[s].evaluated # "no"
  /\ \A i \in 1 .. read[Coordinator] :
       log[i].sender \in Specialists => log[i].sender \in DOMAIN signals

IInv == TypeOK /\ AgentInv /\ LogInv /\ VoteInv /\ CommitInv /\ HeardInv
          /\ NoEvaluationComesTooLate

-----------------------------------------------------------------------------
(* A quorum is never more than everybody: the fraction is at most one. *)
LEMMA CeilingBound ==
  ASSUME NEW n \in Nat, NEW den \in Nat \ {0}, NEW num \in 0 .. den
  PROVE  Ceiling(n * num, den) \in Int /\ Ceiling(n * num, den) <= n
<1> DEFINE a == n * num
<1>1. a \in Nat /\ n * den \in Nat /\ a <= n * den
  OBVIOUS
<1>2. (n + 1) * den = n * den + den
  OBVIOUS
<1> DEFINE b == a + den - 1
           q == b \div den
<1>3. b \in Nat /\ b < (n + 1) * den
  BY <1>1, <1>2
<1>4. q \in Int /\ q * den <= b
  BY <1>3
<1>5. q * den < (n + 1) * den
  BY <1>1, <1>2, <1>3, <1>4
<1>6. q <= n
  BY <1>4, <1>5
<1> QED  BY <1>4, <1>6 DEF Ceiling

(* When everybody has spoken there is a quorum. *)
LEMMA EverybodyIsAQuorum ==
  ASSUME NEW p \in Policies, NEW heard, DOMAIN heard = Specialists, Specialists # {}
  PROVE  isQuorumMet(p, heard, Expected) /\ Cardinality(DOMAIN heard) >= Expected
<1>1. Expected \in Nat /\ Expected >= 1
  BY DeliberationAssumption, FS_CardinalityType, FS_EmptySet DEF Expected
<1>2. p.den \in Nat \ {0} /\ p.num \in 0 .. p.den
  BY DeliberationAssumption DEF WellFormed
<1>3. Ceiling(Expected * p.num, p.den) \in Int /\ Ceiling(Expected * p.num, p.den) <= Expected
  BY <1>1, <1>2, CeilingBound
<1> QED  BY <1>1, <1>3 DEF isQuorumMet, AtLeast, Expected

(* As many as all specialists are all specialists. *)
LEMMA AllHeard ==
  ASSUME NEW heard, DOMAIN heard \subseteq Specialists, Cardinality(DOMAIN heard) >= Expected
  PROVE  DOMAIN heard = Specialists
<1> QED  BY DeliberationAssumption, FS_Subset, FS_CardinalityType DEF Expected

(* The policy decides one of three things. *)
LEMMA DecisionType ==
  ASSUME NEW p \in Policies, NEW heard
  PROVE  decide(p, heard) \in {Approve, StepUp, Decline}
<1>1. p.type \in {"none", "majority", "supermajority", "unanimous"}
  BY DeliberationAssumption DEF WellFormed, PolicyTypes
<1> QED  BY <1>1 DEF decide

-----------------------------------------------------------------------------
AgentRecord == [pc : {"waiting", "deliberating", "stopped", "crashed"},
                opinion : Opinions, evaluated : {"no", "accepted", "refused"},
                seen : SUBSET Specialists]

(* Any first opinion is as good as another. *)
LEMMA FirstOpinion == (CHOOSE o \in Opinions : TRUE) \in Opinions
  BY DeliberationAssumption

(* A session starts with the proposal, and nobody has said anything. *)
LEMMA InitIInv == Init => IInv
<1> SUFFICES ASSUME Init PROVE IInv
  OBVIOUS
<1>1. Envelope("Proposal", Coordinator, "", 0) \in EnvelopeType
  BY DEF Envelope, EnvelopeType, Participants, Sayings
<1>2. Len(log) = 1 /\ log[1].type = "Proposal" /\ log[1].sender = Coordinator
  BY DEF Init, Envelope
<1>3. TypeOK
  <2>1. log \in Seq(EnvelopeType)
    <3> DEFINE e == Envelope("Proposal", Coordinator, "", 0)
    <3>1. log = <<e>>
      BY DEF Init
    <3>2. e \in EnvelopeType
      BY <1>1
    <3> HIDE DEF e
    <3> QED  BY <3>1, <3>2
  <2>4. read \in [Participants -> 0 .. Len(log)]
    <3>1. read = [p \in Participants |-> 0]
      BY DEF Init
    <3> QED  BY <1>2, <3>1
  <2>2. agents \in [Specialists -> AgentRecord]
    BY FirstOpinion DEF Init, AgentRecord
  <2>3. DOMAIN signals = {}
    BY DEF Init
  <2> QED  BY <2>1, <2>2, <2>3, <2>4 DEF Init, TypeOK, Live, AgentRecord
<1>4. AgentInv /\ NoEvaluationComesTooLate
  BY DEF Init, AgentInv, NoEvaluationComesTooLate
<1>5. LogInv
  <2>1. log # <<>> /\ \A i \in 1 .. Len(log) : i = 1
    <3>1. Len(log) = 1
      BY <1>2
    <3>2. Len(log) # 0
      BY <3>1
    <3> QED  BY <3>1, <3>2
  <2>2. \A s \in Specialists : agents[s].evaluated = "no"
    BY DEF Init
  <2> QED  BY <1>2, <2>1, <2>2, DeliberationAssumption DEF LogInv, IsBy
<1>6. VoteInv
  <2>1. Len(log) = 1
    BY <1>2
  <2>2. \A i \in 1 .. Len(log) : i = 1
    BY <2>1
  <2> QED  BY <1>2, <2>2 DEF VoteInv
<1>7. CommitInv
  BY DEF Init, CommitInv
<1>8. HeardInv
  <2>1. DOMAIN signals = {} /\ read[Coordinator] = 0 /\ waitTimer = "off"
    BY DEF Init, Participants
  <2> QED  BY <2>1 DEF HeardInv
<1> QED  BY <1>3, <1>4, <1>5, <1>6, <1>7, <1>8 DEF IInv

(* Appending an envelope keeps the log, what is read of it, and their types. *)
LEMMA AppendType ==
  ASSUME TypeOK, NEW e \in EnvelopeType, log' = Append(log, e)
  PROVE  /\ log' \in Seq(EnvelopeType)
         /\ Len(log') = Len(log) + 1 /\ Len(log) \in Nat
         /\ log'[Len(log) + 1] = e
         /\ \A i \in 1 .. Len(log) : log'[i] = log[i]
  BY DEF TypeOK

(* Handling the next envelope never passes the end of the log. *)
LEMMA ReadType ==
  ASSUME TypeOK, NEW p \in Participants, NEW n \in 0 .. Len(log'),
         log' \in Seq(EnvelopeType), Len(log) <= Len(log'), Len(log) \in Nat,
         read' = [read EXCEPT ![p] = n]
  PROVE  read' \in [Participants -> 0 .. Len(log')]
  BY DEF TypeOK

(* Every step of the specialists keeps the types. *)
LEMMA SpecialistTypeStep ==
  ASSUME TypeOK, LogInv, NEW s \in Specialists, SpecialistStep(s) \/ Crash(s)
  PROVE  TypeOK'
<1> USE DEF coordinatorVars, runtimeVars
<1>0. /\ agents[s] \in AgentRecord /\ s \in Participants
      /\ Len(log) \in Nat /\ Len(log) >= 1
  BY DEF TypeOK, AgentRecord, Participants, LogInv
<1>1. CASE HandleProposal(s)
  <2>1. PICK o \in Opinions :
          /\ log' = IF TakesEvaluations
                      THEN Append(log, Envelope("Evaluation", s,
                                     EvalRecommendation(o.recommendation), o.confidence))
                      ELSE log
          /\ agents' = [agents EXCEPT ![s] =
               [pc |-> "deliberating", opinion |-> o, seen |-> {},
                evaluated |-> IF TakesEvaluations THEN "accepted" ELSE "refused"]]
    BY <1>1 DEF HandleProposal
  <2> DEFINE e == Envelope("Evaluation", s, EvalRecommendation(o.recommendation), o.confidence)
  <2>2. e \in EnvelopeType
    BY DeliberationAssumption, <1>0 DEF Envelope, EnvelopeType, Sayings, EvalRecommendation
  <2> HIDE DEF e
  <2>3. log' \in Seq(EnvelopeType) /\ Len(log') \in Nat /\ Len(log) <= Len(log')
    <3>1. CASE log' = Append(log, e)
      BY <3>1, <2>2, <1>0, AppendType
    <3>2. CASE log' = log
      BY <3>2, <1>0 DEF TypeOK
    <3> QED  BY <2>1, <3>1, <3>2 DEF e
  <2>4. read' \in [Participants -> 0 .. Len(log')]
    <3>1. read' = [read EXCEPT ![s] = 1] /\ 1 \in 0 .. Len(log')
      BY <1>0, <1>1, <2>3 DEF HandleProposal
    <3> QED  BY <1>0, <2>3, <3>1, ReadType
  <2>5. agents' \in [Specialists -> AgentRecord]
    BY <2>1 DEF TypeOK, AgentRecord
  <2> QED  BY <1>1, <2>3, <2>4, <2>5 DEF TypeOK, HandleProposal, AgentRecord
<1>2. CASE HandleEvent(s)
  <2> DEFINE m == log[read[s] + 1]
  <2>1. read[s] \in 0 .. Len(log) /\ read[s] < Len(log) /\ m \in EnvelopeType
    BY <1>0, <1>2 DEF TypeOK, HandleEvent
  <2>2. read' \in [Participants -> 0 .. Len(log')]
    BY <1>0, <1>2, <2>1, ReadType DEF HandleEvent, TypeOK
  <2>3. agents' \in [Specialists -> AgentRecord]
    <3>1. CASE agents' = agents
      BY <3>1 DEF TypeOK, AgentRecord
    <3>2. CASE /\ m.type = "Evaluation"
               /\ agents' = [agents EXCEPT ![s].seen = @ \cup {m.sender}]
      <4>1. m.sender \in Specialists
        BY <2>1, <3>2, <1>0 DEF LogInv
      <4> QED  BY <3>2, <4>1, <1>0 DEF TypeOK, AgentRecord
    <3> QED  BY <1>2, <3>1, <3>2 DEF HandleEvent
  <2> QED  BY <1>2, <2>2, <2>3 DEF TypeOK, HandleEvent, AgentRecord
<1>3. CASE MaybeVote(s)
  <2> DEFINE e == Envelope("Vote", s, StagedVote(agents[s].opinion.recommendation), 0)
  <2>1. e \in EnvelopeType
    BY <1>0 DEF Envelope, EnvelopeType, Sayings, StagedVote
  <2> HIDE DEF e
  <2>2. log' \in Seq(EnvelopeType) /\ Len(log') \in Nat /\ Len(log) <= Len(log')
    <3>1. CASE log' = Append(log, e)
      BY <3>1, <2>1, <1>0, AppendType
    <3>2. CASE log' = log
      BY <3>2, <1>0 DEF TypeOK
    <3> QED  BY <1>3, <3>1, <3>2 DEF e, MaybeVote
  <2>3. [agents[s] EXCEPT !.pc = "stopped"] \in AgentRecord
    BY <1>0 DEF AgentRecord
  <2>4. agents' \in [Specialists -> AgentRecord]
    BY <1>3, <2>3 DEF TypeOK, MaybeVote, AgentRecord
  <2>5. read' \in [Participants -> 0 .. Len(log')]
    BY <1>3, <1>0, <2>2 DEF TypeOK, MaybeVote
  <2> QED  BY <1>3, <2>2, <2>4, <2>5 DEF TypeOK, MaybeVote, AgentRecord
<1>4. CASE Crash(s)
  <2>1. [agents[s] EXCEPT !.pc = "crashed"] \in AgentRecord
    BY <1>0 DEF AgentRecord
  <2> QED  BY <1>4, <2>1 DEF TypeOK, Crash, AgentRecord
<1> QED  BY <1>1, <1>2, <1>3, <1>4 DEF SpecialistStep

(* What the coordinator has decided can be said. *)
LEMMA DecisionSaying == TypeOK => decision.vote \in Sayings /\ decision.action \in Sayings
<1> SUFFICES ASSUME TypeOK PROVE decision.vote \in Sayings /\ decision.action \in Sayings
  OBVIOUS
<1>1. decision \in {NoDecision, Approve, StepUp, Decline}
  BY DEF TypeOK
<1>2. NoDecision.vote \in Sayings /\ NoDecision.action \in Sayings
  BY DEF NoDecision, Sayings
<1>3. Approve.vote \in Sayings /\ Approve.action \in Sayings
  BY DEF Approve, Sayings
<1>4. StepUp.vote \in Sayings /\ StepUp.action \in Sayings
  BY DEF StepUp, Sayings
<1>5. Decline.vote \in Sayings /\ Decline.action \in Sayings
  BY DEF Decline, Sayings
<1> QED  BY <1>1, <1>2, <1>3, <1>4, <1>5

(* Every step of the coordinator keeps the types. *)
LEMMA CoordinatorTypeStep ==
  ASSUME TypeOK, LogInv, CoordinatorStep
  PROVE  TypeOK'
<1> USE DEF coordinatorVars, runtimeVars
<1>0. /\ Coordinator \in Participants /\ policy \in Policies
      /\ Len(log) \in Nat /\ Len(log) >= 1
      /\ read[Coordinator] \in 0 .. Len(log)
  BY DEF TypeOK, Participants, LogInv
<1>1. \A heard : decide(policy, heard) \in {Approve, StepUp, Decline}
  BY <1>0, DecisionType
<1>2. CASE ObserveProposal
  <2>1. read' \in [Participants -> 0 .. Len(log')]
    BY <1>0, <1>2 DEF TypeOK, ObserveProposal
  <2> QED  BY <1>2, <2>1 DEF TypeOK, ObserveProposal
<1>3. CASE ObserveOwn
  <2>1. read' \in [Participants -> 0 .. Len(log')]
    BY <1>0, <1>3 DEF TypeOK, ObserveOwn
  <2> QED  BY <1>3, <2>1 DEF TypeOK, ObserveOwn
<1>4. CASE ObserveSignal
  <2> DEFINE m == log[read[Coordinator] + 1]
             heard == Observe(signals, m)
  <2>1. m \in EnvelopeType /\ m.sender # Coordinator
    BY <1>0, <1>4 DEF ObserveSignal, Ignored, TypeOK
  <2>2. DOMAIN heard = DOMAIN signals \cup {m.sender}
    BY DEF Observe
  <2>3. DOMAIN heard \subseteq Specialists
    BY <2>1, <2>2 DEF TypeOK, EnvelopeType, Participants
  <2>4. read' \in [Participants -> 0 .. Len(log')]
    BY <1>0, <1>4 DEF TypeOK, ObserveSignal
  <2>5. decide(policy, heard) \in {Approve, StepUp, Decline}
    BY <1>1
  <2>6. signals' = heard
    BY <1>4 DEF ObserveSignal
  <2> HIDE DEF heard
  <2>7. /\ committed' \in BOOLEAN
        /\ waitTimer' \in {"off", "armed", "cleared", "fired"}
        /\ turn' \in {"listening", "suspending", "holding", "voting", "committing",
                      "cancelling", "done", "gaveUp"}
        /\ decision' \in {NoDecision, Approve, StepUp, Decline}
    BY <1>4, <2>5 DEF heard, ObserveSignal, BeginCommit, TypeOK
  <2> QED  BY <1>4, <2>3, <2>4, <2>6, <2>7 DEF TypeOK, ObserveSignal
<1>5. CASE Deadline
  BY <1>1, <1>5 DEF TypeOK, Deadline, BeginCommit
<1>6. CASE Suspend
  BY <1>1, <1>6 DEF TypeOK, Suspend, Live
<1>7. CASE Resume
  BY <1>1, <1>7 DEF TypeOK, Resume, Live
<1>8. CASE Vote \/ Commit
  <2> DEFINE v == Envelope("Vote", Coordinator, decision.vote, 0)
             w == Envelope("Commitment", Coordinator, decision.action, 0)
  <2>1. decision.vote \in Sayings /\ decision.action \in Sayings
    BY DecisionSaying
  <2>2. v \in EnvelopeType /\ w \in EnvelopeType
    BY <1>0, <2>1 DEF Envelope, EnvelopeType
  <2>3. log' \in {log, Append(log, v), Append(log, w)}
    BY <1>8 DEF Vote, Commit
  <2> HIDE DEF v, w
  <2>4. log' \in Seq(EnvelopeType) /\ Len(log') \in Nat /\ Len(log) <= Len(log')
    <3>1. CASE log' = log
      BY <1>0, <3>1 DEF TypeOK
    <3>2. CASE log' = Append(log, v)
      BY <1>0, <2>2, <3>2, AppendType
    <3>3. CASE log' = Append(log, w)
      BY <1>0, <2>2, <3>3, AppendType
    <3> QED  BY <2>3, <3>1, <3>2, <3>3
  <2>5. read' \in [Participants -> 0 .. Len(log')]
    BY <1>0, <1>8, <2>4 DEF TypeOK, Vote, Commit
  <2>6. CASE Vote
    BY <2>4, <2>5, <2>6 DEF TypeOK, Vote
  <2>7. CASE Commit
    BY <2>4, <2>5, <2>7 DEF TypeOK, Commit, Live
  <2> QED  BY <1>8, <2>6, <2>7
<1>9. CASE Cancel
  BY <1>9 DEF TypeOK, Cancel, Live
<1> QED  BY <1>2, <1>3, <1>4, <1>5, <1>6, <1>7, <1>8, <1>9 DEF CoordinatorStep

(* Every step of a session keeps the types. *)
LEMMA TypeStep ==
  ASSUME TypeOK, LogInv, [Next]_vars
  PROVE  TypeOK'
<1>1. CASE Expire
  BY <1>1 DEF TypeOK, Expire, coordinatorVars, Live
<1>2. CASE UNCHANGED vars
  BY <1>2 DEF TypeOK, vars
<1> QED  BY <1>1, <1>2, SpecialistTypeStep, CoordinatorTypeStep DEF Next

-----------------------------------------------------------------------------
(* A step of a specialist or a crash leaves the other specialists alone;    *)
(* a step of the coordinator or the TTL leaves all of them alone.           *)
LEMMA OthersKeepAgents ==
  ASSUME [Next]_vars, ~\E s \in Specialists : SpecialistStep(s) \/ Crash(s)
  PROVE  agents' = agents
  BY DEF Next, vars, CoordinatorStep, ObserveProposal, ObserveOwn, ObserveSignal, Deadline,
     Suspend, Resume, Vote, Commit, Cancel, Expire

(* What a specialist has done stays done.                                   *)
AgentsMoveForward ==
  \A t \in Specialists :
    /\ agents[t].evaluated # "no" => agents'[t].evaluated = agents[t].evaluated
    /\ agents[t].pc = "stopped" => agents'[t].pc = "stopped"

(* Every step keeps the order of a specialist's own steps. *)
LEMMA AgentStep ==
  ASSUME TypeOK, AgentInv, LogInv, [Next]_vars
  PROVE  AgentInv' /\ AgentsMoveForward
<1>1. ASSUME NEW s \in Specialists, HandleProposal(s)
      PROVE  AgentInv' /\ AgentsMoveForward
  <2>1. PICK a \in AgentRecord :
          /\ agents' = [agents EXCEPT ![s] = a]
          /\ a.pc = "deliberating" /\ a.seen = {} /\ a.evaluated # "no"
    <3>1. PICK o \in Opinions : agents' = [agents EXCEPT ![s] =
            [pc |-> "deliberating", opinion |-> o, seen |-> {},
             evaluated |-> IF TakesEvaluations THEN "accepted" ELSE "refused"]]
      BY <1>1 DEF HandleProposal
    <3> DEFINE a == [pc |-> "deliberating", opinion |-> o, seen |-> {},
                     evaluated |-> IF TakesEvaluations THEN "accepted" ELSE "refused"]
    <3>2. a \in AgentRecord /\ a.pc = "deliberating" /\ a.seen = {} /\ a.evaluated # "no"
      BY DEF AgentRecord
    <3> HIDE DEF a
    <3> QED  BY <3>1, <3>2 DEF a
  <2>2. agents[s].pc = "waiting" /\ agents[s].evaluated = "no"
    BY <1>1 DEF HandleProposal, AgentInv
  <2>3. /\ agents'[s] = a
        /\ \A t \in Specialists : t # s => agents'[t] = agents[t]
    BY <2>1 DEF TypeOK
  <2>4. AgentsMoveForward
    BY <2>2, <2>3 DEF AgentsMoveForward
  <2>5. AgentInv'
    <3> SUFFICES ASSUME NEW t \in Specialists
                 PROVE  /\ agents'[t].pc = "waiting" => agents'[t].evaluated = "no"
                        /\ agents'[t].pc \in {"deliberating", "stopped"} =>
                             agents'[t].evaluated # "no"
                        /\ \A u \in agents'[t].seen : agents'[u].evaluated = "accepted"
      BY DEF AgentInv
    <3>1. CASE t = s
      BY <3>1, <2>1, <2>3
    <3>2. CASE t # s
      <4>1. agents[t].seen \subseteq Specialists
        BY DEF TypeOK
      <4> QED  BY <3>2, <4>1, <2>2, <2>3 DEF AgentInv
    <3> QED  BY <3>1, <3>2
  <2> QED  BY <2>4, <2>5
<1>2. ASSUME NEW s \in Specialists, HandleEvent(s)
      PROVE  AgentInv' /\ AgentsMoveForward
  <2> DEFINE m == log[read[s] + 1]
  <2>1. CASE agents' = agents
    BY <2>1 DEF AgentInv, AgentsMoveForward
  <2>2. CASE /\ m.type = "Evaluation"
             /\ agents' = [agents EXCEPT ![s].seen = @ \cup {m.sender}]
    <3>1. read[s] + 1 \in 1 .. Len(log)
      BY <1>2 DEF HandleEvent, TypeOK, Participants
    <3>2. m.sender \in Specialists /\ agents[m.sender].evaluated = "accepted"
      BY <3>1, <2>2 DEF LogInv
    <3>3. /\ agents'[s].seen = agents[s].seen \cup {m.sender}
          /\ \A t \in Specialists :
               /\ agents'[t].pc = agents[t].pc /\ agents'[t].evaluated = agents[t].evaluated
               /\ t # s => agents'[t].seen = agents[t].seen
      BY <2>2 DEF TypeOK
    <3>4. \A t \in Specialists : agents[t].seen \subseteq Specialists
      BY DEF TypeOK
    <3>5. agents[s].pc = "deliberating"
      BY <1>2 DEF HandleEvent
    <3> QED  BY <3>2, <3>3, <3>4, <3>5 DEF AgentInv, AgentsMoveForward
  <2> QED  BY <1>2, <2>1, <2>2 DEF HandleEvent
<1>3. ASSUME NEW s \in Specialists, MaybeVote(s) \/ Crash(s)
      PROVE  AgentInv' /\ AgentsMoveForward
  <2>1. agents[s].pc \in {"waiting", "deliberating"}
    BY <1>3 DEF MaybeVote, ReadyToVote, Crash
  <2>2. /\ \A t \in Specialists : /\ agents'[t].evaluated = agents[t].evaluated
                                  /\ agents'[t].seen = agents[t].seen
                                  /\ t # s => agents'[t].pc = agents[t].pc
        /\ agents'[s].pc \in {"stopped", "crashed"}
        /\ agents'[s].pc = "stopped" => agents[s].pc = "deliberating"
    BY <1>3 DEF MaybeVote, ReadyToVote, Crash, TypeOK
  <2>3. \A t \in Specialists : agents[t].seen \subseteq Specialists
    BY DEF TypeOK
  <2> QED  BY <2>1, <2>2, <2>3 DEF AgentInv, AgentsMoveForward
<1>4. CASE agents' = agents
  BY <1>4 DEF AgentInv, AgentsMoveForward
<1> QED  BY <1>1, <1>2, <1>3, <1>4, OthersKeepAgents DEF SpecialistStep

(* What a step may add to the log: the evaluation of a specialist that has   *)
(* not evaluated before, the vote of one whose barrier is open, or a vote or *)
(* commitment of the coordinator.                                            *)
NewEvaluation(e) ==
  /\ e.type = "Evaluation" /\ e.sender \in Specialists
  /\ agents'[e.sender].evaluated = "accepted"
NewVote(e) ==
  /\ e.type = "Vote" /\ e.sender \in Specialists
  /\ ReadyToVote(e.sender) /\ session = "open"
  /\ agents'[e.sender].pc = "stopped"
OwnVote(e) == e.type = "Vote" /\ e.sender = Coordinator /\ turn # "listening"
OwnCommitment(e) == e.type = "Commitment" /\ e.sender = Coordinator

Appends(e) ==
  /\ log' = Append(log, e) /\ e \in EnvelopeType
  /\ NewEvaluation(e) \/ NewVote(e) \/ OwnVote(e) \/ OwnCommitment(e)

LEMMA LogStep ==
  ASSUME TypeOK, [Next]_vars
  PROVE  log' = log \/ \E e \in EnvelopeType : Appends(e)
<1> USE DEF coordinatorVars, runtimeVars
<1>1. ASSUME NEW s \in Specialists, HandleProposal(s), log' # log
      PROVE  \E e \in EnvelopeType : Appends(e)
  <2>1. TakesEvaluations
    BY <1>1 DEF HandleProposal
  <2>2. PICK o \in Opinions :
          /\ log' = Append(log, Envelope("Evaluation", s,
                                   EvalRecommendation(o.recommendation), o.confidence))
          /\ agents' = [agents EXCEPT ![s] =
               [pc |-> "deliberating", opinion |-> o, seen |-> {},
                evaluated |-> "accepted"]]
    BY <1>1, <2>1 DEF HandleProposal
  <2> DEFINE e == Envelope("Evaluation", s, EvalRecommendation(o.recommendation), o.confidence)
  <2>3. e \in EnvelopeType
    BY DeliberationAssumption DEF Envelope, EnvelopeType, Sayings, EvalRecommendation,
       Participants
  <2>4. e.type = "Evaluation" /\ e.sender = s
    BY DEF Envelope
  <2>5. agents'[s].evaluated = "accepted"
    BY <2>2 DEF TypeOK
  <2> HIDE DEF e
  <2>6. log' = Append(log, e)
    BY <2>2 DEF e
  <2> QED  BY <2>3, <2>4, <2>5, <2>6 DEF Appends, NewEvaluation
<1>2. ASSUME NEW s \in Specialists, MaybeVote(s), log' # log
      PROVE  \E e \in EnvelopeType : Appends(e)
  <2> DEFINE e == Envelope("Vote", s, StagedVote(agents[s].opinion.recommendation), 0)
  <2>1. TakesVotes /\ log' = Append(log, e)
    BY <1>2 DEF MaybeVote
  <2>2. e \in EnvelopeType
    BY DEF Envelope, EnvelopeType, Sayings, StagedVote, Participants
  <2>3. e.type = "Vote" /\ e.sender = s
    BY DEF Envelope
  <2>4. agents'[s].pc = "stopped"
    BY <1>2 DEF MaybeVote, TypeOK
  <2> HIDE DEF e
  <2> QED  BY <1>2, <2>1, <2>2, <2>3, <2>4 DEF Appends, NewVote, MaybeVote, TakesVotes
<1>3. ASSUME Vote \/ Commit, log' # log
      PROVE  \E e \in EnvelopeType : Appends(e)
  <2> DEFINE v == Envelope("Vote", Coordinator, decision.vote, 0)
             w == Envelope("Commitment", Coordinator, decision.action, 0)
  <2>1. v \in EnvelopeType /\ w \in EnvelopeType
    BY DecisionSaying DEF Envelope, EnvelopeType, Participants
  <2>2. /\ v.type = "Vote" /\ v.sender = Coordinator
        /\ w.type = "Commitment" /\ w.sender = Coordinator
    BY DEF Envelope
  <2>3. \/ log' = Append(log, v) /\ turn # "listening"
        \/ log' = Append(log, w)
    BY <1>3 DEF Vote, Commit
  <2> HIDE DEF v, w
  <2> QED  BY <2>1, <2>2, <2>3 DEF Appends, OwnVote, OwnCommitment
<1>4. ASSUME NEW s \in Specialists, HandleEvent(s) \/ Crash(s)
      PROVE  log' = log
  BY <1>4 DEF HandleEvent, Crash
<1>5. CASE \/ ObserveProposal \/ ObserveOwn \/ ObserveSignal \/ Deadline
           \/ Suspend \/ Resume \/ Cancel \/ Expire \/ UNCHANGED vars
  BY <1>5 DEF ObserveProposal, ObserveOwn, ObserveSignal, Deadline, Suspend, Resume, Cancel,
     Expire, vars
<1> QED  BY <1>1, <1>2, <1>3, <1>4, <1>5 DEF Next, CoordinatorStep, SpecialistStep

(* The log keeps agreeing with the specialists. *)
LEMMA LogInvStep ==
  ASSUME TypeOK, LogInv, AgentsMoveForward, [Next]_vars,
         log' = log \/ \E e \in EnvelopeType : Appends(e)
  PROVE  LogInv'
<1>0. Len(log) \in Nat /\ Len(log) >= 1
  BY DEF LogInv, TypeOK
<1>1. ASSUME NEW s \in Specialists, agents'[s].evaluated = "accepted",
             agents[s].evaluated # "accepted"
      PROVE  \E o \in Opinions :
               log' = Append(log, Envelope("Evaluation", s,
                                    EvalRecommendation(o.recommendation), o.confidence))
  <2>1. agents' # agents
    BY <1>1
  <2>2. PICK t \in Specialists : SpecialistStep(t) \/ Crash(t)
    BY <2>1, OthersKeepAgents
  <2>3. CASE HandleProposal(t)
    <3>1. t = s
      BY <1>1, <2>3 DEF HandleProposal, TypeOK
    <3>2. TakesEvaluations
      BY <1>1, <2>3, <3>1 DEF HandleProposal, TypeOK
    <3> QED  BY <2>3, <3>1, <3>2 DEF HandleProposal
  <2>4. CASE HandleEvent(t)
    BY <1>1, <2>4 DEF HandleEvent, TypeOK
  <2>5. CASE MaybeVote(t) \/ Crash(t)
    BY <1>1, <2>5 DEF MaybeVote, Crash, TypeOK
  <2> QED  BY <2>2, <2>3, <2>4, <2>5 DEF SpecialistStep
<1>2. \A i \in 1 .. Len(log) : i \in 1 .. Len(log') /\ log'[i] = log[i]
  <2>1. ASSUME NEW e \in EnvelopeType, Appends(e)
        PROVE  \A i \in 1 .. Len(log) : i \in 1 .. Len(log') /\ log'[i] = log[i]
    BY <1>0, <2>1, AppendType DEF Appends
  <2> QED  BY <2>1
<1>3. log' # <<>> /\ IsBy(1, "Proposal", Coordinator)'
  <2>1. 1 \in 1 .. Len(log)
    BY <1>0
  <2>2. log'[1] = log[1] /\ Len(log') # 0
    BY <1>2, <2>1
  <2> QED  BY <2>2 DEF LogInv, IsBy
<1>4. \A i \in 1 .. Len(log') :
        /\ log'[i].sender \in Specialists => log'[i].type \in {"Evaluation", "Vote"}
        /\ log'[i].type = "Evaluation" =>
             /\ log'[i].sender \in Specialists
             /\ agents'[log'[i].sender].evaluated = "accepted"
  <2>1. \A i \in 1 .. Len(log) :
          /\ log[i].sender \in Specialists => log[i].type \in {"Evaluation", "Vote"}
          /\ log[i].type = "Evaluation" =>
               /\ log[i].sender \in Specialists
               /\ agents'[log[i].sender].evaluated = "accepted"
    BY DEF LogInv, AgentsMoveForward
  <2>2. CASE log' = log
    BY <2>1, <2>2
  <2>3. ASSUME NEW e \in EnvelopeType, Appends(e)
        PROVE  \A i \in 1 .. Len(log') : i \in 1 .. Len(log) \/ log'[i] = e
    BY <1>0, <2>3, AppendType DEF Appends
  <2>4. ASSUME NEW e \in EnvelopeType, Appends(e)
        PROVE  /\ e.sender \in Specialists => e.type \in {"Evaluation", "Vote"}
               /\ e.type = "Evaluation" => /\ e.sender \in Specialists
                                           /\ agents'[e.sender].evaluated = "accepted"
    BY <2>4, DeliberationAssumption DEF Appends, NewEvaluation, NewVote, OwnVote, OwnCommitment
  <2> QED  BY <1>2, <2>1, <2>2, <2>3, <2>4
<1>5. ASSUME NEW s \in Specialists, agents'[s].evaluated = "accepted"
      PROVE  \E i \in 1 .. Len(log') : IsBy(i, "Evaluation", s)'
  <2>1. CASE agents[s].evaluated = "accepted"
    <3>1. PICK i \in 1 .. Len(log) : IsBy(i, "Evaluation", s)
      BY <2>1 DEF LogInv
    <3> QED  BY <1>2, <3>1 DEF IsBy
  <2>2. CASE agents[s].evaluated # "accepted"
    <3>1. PICK o \in Opinions :
            log' = Append(log, Envelope("Evaluation", s,
                                 EvalRecommendation(o.recommendation), o.confidence))
      BY <1>1, <1>5, <2>2
    <3> DEFINE e == Envelope("Evaluation", s, EvalRecommendation(o.recommendation),
                             o.confidence)
    <3>2. e.type = "Evaluation" /\ e.sender = s
      BY DEF Envelope
    <3> HIDE DEF e
    <3>3. log' = Append(log, e)
      BY <3>1 DEF e
    <3>4. Len(log') = Len(log) + 1 /\ log'[Len(log) + 1] = e
      BY <3>3 DEF TypeOK
    <3>5. Len(log) + 1 \in 1 .. Len(log')
      BY <1>0, <3>4
    <3> QED  BY <3>2, <3>4, <3>5 DEF IsBy
  <2> QED  BY <2>1, <2>2
<1> QED  BY <1>3, <1>4, <1>5 DEF LogInv

(* The flags of the coordinator are set once, and an expired session stays   *)
(* expired.                                                                  *)
FlagsMoveForward ==
  /\ committed => committed'
  /\ waitTimer = "fired" => waitTimer' = "fired"
  /\ session = "expired" => session' = "expired"
  /\ DOMAIN signals \subseteq DOMAIN signals'

LEMMA FlagStep ==
  ASSUME TypeOK, CommitInv, HeardInv, [Next]_vars
  PROVE  FlagsMoveForward
<1> USE DEF coordinatorVars, runtimeVars, FlagsMoveForward
<1>1. ASSUME NEW s \in Specialists, SpecialistStep(s) \/ Crash(s)
      PROVE  FlagsMoveForward
  BY <1>1 DEF SpecialistStep, HandleProposal, HandleEvent, MaybeVote, Crash
<1>2. CASE ObserveProposal \/ ObserveOwn
  BY <1>2 DEF ObserveProposal, ObserveOwn, HeardInv
<1>3. CASE ObserveSignal
  <2>1. waitTimer = "fired" => committed
    BY DEF CommitInv
  <2>2. DOMAIN signals \subseteq DOMAIN signals'
    BY <1>3 DEF ObserveSignal, Observe
  <2> QED  BY <1>3, <2>1, <2>2 DEF ObserveSignal, CommitsOn, BeginCommit
<1>4. CASE Deadline
  BY <1>4 DEF Deadline, BeginCommit
<1>5. CASE Suspend \/ Resume \/ Vote \/ Commit \/ Cancel
  BY <1>5 DEF Suspend, Resume, Vote, Commit, Cancel, Live
<1>6. CASE Expire \/ UNCHANGED vars
  BY <1>6 DEF Expire, Live, vars
<1> QED  BY <1>1, <1>2, <1>3, <1>4, <1>5, <1>6 DEF Next, CoordinatorStep

(* A specialist whose barrier opens in an open session votes after every     *)
(* evaluation: its peers' because it has seen them, its own because it was   *)
(* not refused.                                                              *)
LEMMA OpenBarrier ==
  ASSUME IInv, NEW s \in Specialists, ReadyToVote(s), session = "open"
  PROVE  committed \/ \A t \in Specialists : \E j \in 1 .. Len(log) : IsBy(j, "Evaluation", t)
<1> SUFFICES ASSUME ~committed, NEW t \in Specialists
             PROVE  agents[t].evaluated = "accepted"
  BY DEF IInv, LogInv
<1>1. CASE t # s
  BY <1>1 DEF IInv, AgentInv, ReadyToVote, Peers
<1>2. CASE t = s
  <2>1. agents[s].evaluated \in {"accepted", "refused"}
    BY DEF IInv, TypeOK, AgentInv, ReadyToVote
  <2>2. waitTimer # "fired"
    BY DEF IInv, CommitInv
  <2> QED  BY <1>2, <2>1, <2>2 DEF IInv, NoEvaluationComesTooLate
<1> QED  BY <1>1, <1>2

(* Votes keep coming after the evaluations. *)
LEMMA VoteInvStep ==
  ASSUME IInv, AgentsMoveForward, FlagsMoveForward,
         log' = log \/ \E e \in EnvelopeType : Appends(e)
  PROVE  VoteInv'
<1>0. Len(log) \in Nat /\ TypeOK
  BY DEF IInv, TypeOK
<1>1. \A i \in 1 .. Len(log) : log[i].type = "Vote" =>
        /\ log[i].sender \in Specialists => agents'[log[i].sender].pc = "stopped"
        /\ \/ committed'
           \/ /\ log[i].sender \in Specialists
              /\ \A t \in Specialists : \E j \in 1 .. i - 1 : IsBy(j, "Evaluation", t)
  BY DEF IInv, VoteInv, AgentsMoveForward, FlagsMoveForward
<1>2. CASE log' = log
  BY <1>1, <1>2 DEF VoteInv, IsBy
<1>3. ASSUME NEW e \in EnvelopeType, Appends(e)
      PROVE  VoteInv'
  <2>1. /\ Len(log') = Len(log) + 1 /\ log'[Len(log) + 1] = e
        /\ \A i \in 1 .. Len(log) : log'[i] = log[i]
    BY <1>0, <1>3, AppendType DEF Appends
  <2>2. ASSUME e.type = "Vote"
        PROVE  /\ e.sender \in Specialists => agents'[e.sender].pc = "stopped"
               /\ \/ committed'
                  \/ /\ e.sender \in Specialists
                     /\ \A t \in Specialists :
                          \E j \in 1 .. Len(log) : IsBy(j, "Evaluation", t)
    <3>1. CASE NewVote(e)
      BY <3>1, OpenBarrier DEF NewVote, FlagsMoveForward
    <3>2. CASE OwnVote(e)
      BY <3>2, DeliberationAssumption DEF OwnVote, IInv, CommitInv, FlagsMoveForward
    <3> QED  BY <1>3, <2>2, <3>1, <3>2 DEF Appends, NewEvaluation, OwnCommitment
  <2> SUFFICES ASSUME NEW i \in 1 .. Len(log'), log'[i].type = "Vote"
               PROVE  /\ log'[i].sender \in Specialists =>
                           agents'[log'[i].sender].pc = "stopped"
                      /\ \/ committed'
                         \/ /\ log'[i].sender \in Specialists
                            /\ \A t \in Specialists :
                                 \E j \in 1 .. i - 1 : IsBy(j, "Evaluation", t)'
    BY DEF VoteInv
  <2>3. \A j \in 1 .. Len(log), t \in Specialists :
          IsBy(j, "Evaluation", t) => IsBy(j, "Evaluation", t)'
    BY <2>1 DEF IsBy
  <2>4. CASE i = Len(log) + 1
    BY <1>0, <2>1, <2>2, <2>3, <2>4
  <2>5. CASE i \in 1 .. Len(log)
    <3>1. \A j \in 1 .. i - 1 : j \in 1 .. Len(log)
      BY <1>0, <2>5
    <3> QED  BY <1>1, <2>1, <2>3, <2>5, <3>1
  <2> QED  BY <1>0, <2>1, <2>4, <2>5
<1> QED  BY <1>2, <1>3

(* No step makes an evaluation come too late. *)
LEMMA BarrierStep ==
  ASSUME IInv, AgentsMoveForward, FlagsMoveForward, [Next]_vars
  PROVE  NoEvaluationComesTooLate'
<1> SUFFICES ASSUME NEW s \in Specialists, agents'[s].evaluated = "refused"
             PROVE  waitTimer' = "fired" \/ session' = "expired"
  BY DEF NoEvaluationComesTooLate
<1>1. CASE agents[s].evaluated = "refused"
  BY <1>1 DEF IInv, NoEvaluationComesTooLate, FlagsMoveForward
<1>2. CASE agents[s].evaluated # "refused"
  <2>1. agents' # agents
    BY <1>2
  <2>2. PICK t \in Specialists : SpecialistStep(t) \/ Crash(t)
    BY <2>1, OthersKeepAgents
  <2>3. CASE HandleProposal(t)
    <3>1. t = s
      BY <1>2, <2>3 DEF HandleProposal, IInv, TypeOK
    <3>2. ~TakesEvaluations
      BY <1>2, <2>3, <3>1 DEF HandleProposal, IInv, TypeOK
    <3>3. agents[s].evaluated = "no"
      BY <2>3, <3>1 DEF HandleProposal, IInv, AgentInv
    <3>4. committed \/ session = "expired"
      <4>1. CASE session # "open"
        BY <4>1 DEF IInv, CommitInv
      <4>2. CASE Voting
        <5>1. PICK i \in 1 .. Len(log) : log[i].type = "Vote"
          BY <4>2 DEF Voting
        <5>2. \A j \in 1 .. i - 1 : ~IsBy(j, "Evaluation", s)
          BY <3>3, <5>1 DEF IInv, TypeOK, LogInv, IsBy
        <5> QED  BY <5>1, <5>2 DEF IInv, VoteInv
      <4> QED  BY <3>2, <4>1, <4>2 DEF TakesEvaluations
    <3>5. committed => waitTimer = "fired"
      BY <3>3 DEF IInv, CommitInv, HeardInv
    <3> QED  BY <3>4, <3>5 DEF FlagsMoveForward
  <2>4. CASE HandleEvent(t)
    BY <1>2, <2>4 DEF HandleEvent, IInv, TypeOK
  <2>5. CASE MaybeVote(t) \/ Crash(t)
    BY <1>2, <2>5 DEF MaybeVote, Crash, IInv, TypeOK
  <2> QED  BY <2>2, <2>3, <2>4, <2>5 DEF SpecialistStep
<1> QED  BY <1>1, <1>2

(* The coordinator commits exactly when it has heard everybody, or at its    *)
(* deadline.                                                                 *)
LEMMA CommitInvStep ==
  ASSUME IInv, TypeOK', [Next]_vars
  PROVE  CommitInv'
<1> USE DEF coordinatorVars, runtimeVars
<1>0. CommitInv /\ TypeOK
  BY DEF IInv
<1>1. ASSUME NEW s \in Specialists, SpecialistStep(s) \/ Crash(s)
      PROVE  CommitInv'
  BY <1>0, <1>1 DEF CommitInv, SpecialistStep, HandleProposal, HandleEvent, MaybeVote, Crash
<1>2. CASE ObserveProposal
  <2>1. waitTimer # "fired"
    BY <1>2 DEF ObserveProposal, IInv, HeardInv
  <2> QED  BY <1>0, <1>2, <2>1 DEF CommitInv, ObserveProposal
<1>3. CASE ObserveOwn
  BY <1>0, <1>3 DEF CommitInv, ObserveOwn
<1>4. CASE ObserveSignal
  <2> DEFINE heard == Observe(signals, log[read[Coordinator] + 1])
  <2>1. /\ signals' = heard /\ session' = session
        /\ \/ CommitsOn(heard) /\ BeginCommit(heard) /\ waitTimer' = "cleared"
           \/ ~CommitsOn(heard) /\ UNCHANGED <<committed, waitTimer, turn, decision>>
    BY <1>4 DEF ObserveSignal
  <2>2. DOMAIN signals \subseteq DOMAIN heard
    BY DEF Observe
  <2> HIDE DEF heard
  <2>3. DOMAIN heard \subseteq Specialists
    BY <2>1 DEF TypeOK
  <2>4. CASE CommitsOn(heard)
    <3>1. DOMAIN heard = Specialists
      BY <2>3, <2>4, AllHeard DEF CommitsOn
    <3> QED  BY <2>1, <2>4, <3>1 DEF CommitInv, BeginCommit
  <2>5. CASE ~CommitsOn(heard)
    <3>1. Specialists # {} /\ Specialists \subseteq DOMAIN heard => committed
      <4> SUFFICES ASSUME Specialists # {}, DOMAIN heard = Specialists PROVE committed
        BY <2>3
      <4>1. policy \in Policies
        BY <1>0 DEF TypeOK
      <4>2. isQuorumMet(policy, heard, Expected) /\ Cardinality(DOMAIN heard) >= Expected
        BY <4>1, EverybodyIsAQuorum
      <4> QED  BY <2>5, <4>2 DEF CommitsOn
    <3> QED  BY <1>0, <2>1, <2>2, <2>5, <3>1 DEF CommitInv
  <2> QED  BY <2>4, <2>5
<1>5. CASE Deadline
  BY <1>0, <1>5 DEF CommitInv, Deadline, BeginCommit
<1>6. CASE Suspend \/ Resume \/ Vote \/ Commit \/ Cancel
  BY <1>0, <1>6 DEF CommitInv, Suspend, Resume, Vote, Commit, Cancel
<1>7. CASE Expire \/ UNCHANGED vars
  BY <1>0, <1>7 DEF CommitInv, Expire, vars
<1> QED  BY <1>1, <1>2, <1>3, <1>4, <1>5, <1>6, <1>7 DEF Next, CoordinatorStep

(* The coordinator keeps hearing everyone whose message it handles, and only *)
(* specialists that have analysed have sent one.                             *)
LEMMA HeardInvStep ==
  ASSUME IInv, AgentsMoveForward, FlagsMoveForward, [Next]_vars,
         log' = log \/ \E e \in EnvelopeType : Appends(e)
  PROVE  HeardInv'
<1> USE DEF coordinatorVars, runtimeVars
<1>0. /\ TypeOK /\ Len(log) \in Nat /\ Len(log) >= 1
      /\ read[Coordinator] \in 0 .. Len(log)
      /\ Coordinator \in Participants
  BY DEF IInv, TypeOK, LogInv, Participants
<1>1. \A i \in 1 .. Len(log) : log'[i] = log[i]
  <2>1. ASSUME NEW e \in EnvelopeType, Appends(e)
        PROVE  \A i \in 1 .. Len(log) : log'[i] = log[i]
    BY <1>0, <2>1, AppendType DEF Appends
  <2> QED  BY <2>1
<1>2. /\ \A s \in DOMAIN signals : agents'[s].evaluated # "no"
      /\ \A i \in 1 .. read[Coordinator] :
           log'[i].sender \in Specialists => log'[i].sender \in DOMAIN signals'
  <2>1. DOMAIN signals \subseteq Specialists
    BY <1>0 DEF TypeOK
  <2>2. \A i \in 1 .. read[Coordinator] : i \in 1 .. Len(log)
    BY <1>0
  <2> QED  BY <1>1, <2>1, <2>2 DEF IInv, HeardInv, AgentsMoveForward, FlagsMoveForward
<1>3. CASE UNCHANGED <<read, signals, waitTimer>>
  BY <1>2, <1>3 DEF HeardInv, IInv
<1>4. ASSUME NEW s \in Specialists, HandleProposal(s) \/ HandleEvent(s)
      PROVE  HeardInv'
  <2>1. read'[Coordinator] = read[Coordinator]
    BY <1>0, <1>4, DeliberationAssumption DEF HandleProposal, HandleEvent, TypeOK
  <2>2. UNCHANGED <<signals, waitTimer>>
    BY <1>4 DEF HandleProposal, HandleEvent
  <2> QED  BY <1>2, <2>1, <2>2 DEF HeardInv, IInv
<1>5. CASE ObserveProposal
  <2>1. read'[Coordinator] = 1 /\ signals' = signals
    BY <1>0, <1>5 DEF ObserveProposal, TypeOK
  <2>2. log'[1].sender \notin Specialists
    BY <1>0, <1>1, DeliberationAssumption DEF IInv, LogInv, IsBy
  <2>3. \A i \in 1 .. read'[Coordinator] : i = 1
    BY <2>1
  <2> QED  BY <1>2, <2>1, <2>2, <2>3 DEF HeardInv
<1>6. CASE ObserveOwn \/ ObserveSignal
  <2> DEFINE n == read[Coordinator] + 1
             m == log[n]
  <2>1. read'[Coordinator] = n /\ n \in 1 .. Len(log) /\ read[Coordinator] >= 1
    BY <1>0, <1>6 DEF ObserveOwn, ObserveSignal, TypeOK
  <2>2. log'[n] = m /\ \A i \in 1 .. read'[Coordinator] : i = n \/ i \in 1 .. read[Coordinator]
    BY <1>0, <1>1, <2>1
  <2>3. CASE ObserveOwn
    <3>1. m.sender \notin Specialists /\ signals' = signals
      BY <2>3, DeliberationAssumption DEF ObserveOwn, Ignored
    <3> QED  BY <1>0, <1>2, <2>1, <2>2, <3>1 DEF HeardInv
  <2>4. CASE ObserveSignal
    <3>1. m.sender \in Specialists
      <4>1. m \in EnvelopeType
        BY <1>0, <2>1 DEF TypeOK
      <4>2. m.sender # Coordinator
        BY <2>4 DEF ObserveSignal, Ignored
      <4> QED  BY <4>1, <4>2 DEF EnvelopeType, Participants
    <3>2. agents[m.sender].evaluated # "no"
      BY <2>1, <3>1 DEF IInv, LogInv, VoteInv, AgentInv
    <3>3. DOMAIN signals' = DOMAIN signals \cup {m.sender}
      BY <2>4 DEF ObserveSignal, Observe
    <3>4. agents'[m.sender].evaluated # "no"
      BY <3>1, <3>2 DEF AgentsMoveForward
    <3> QED  BY <1>0, <1>2, <2>1, <2>2, <3>3, <3>4 DEF HeardInv
  <2> QED  BY <1>6, <2>3, <2>4
<1>7. CASE Deadline
  BY <1>0, <1>2, <1>7 DEF Deadline, HeardInv, IInv
<1>8. ASSUME NEW s \in Specialists, MaybeVote(s) \/ Crash(s)
      PROVE  UNCHANGED <<read, signals, waitTimer>>
  BY <1>8 DEF MaybeVote, Crash
<1>9. CASE Suspend \/ Resume \/ Vote \/ Commit \/ Cancel \/ Expire \/ UNCHANGED vars
  BY <1>3, <1>9 DEF Suspend, Resume, Vote, Commit, Cancel, Expire, vars
<1> QED  BY <1>3, <1>4, <1>5, <1>6, <1>7, <1>8, <1>9 DEF Next, CoordinatorStep, SpecialistStep

-----------------------------------------------------------------------------
(* The invariant of the session is inductive. *)
LEMMA IInvStep == IInv /\ [Next]_vars => IInv'
<1> SUFFICES ASSUME IInv, [Next]_vars PROVE IInv'
  OBVIOUS
<1>1. TypeOK /\ AgentInv /\ LogInv /\ CommitInv /\ HeardInv
  BY DEF IInv
<1>2. TypeOK'
  BY <1>1, TypeStep
<1>3. AgentInv' /\ AgentsMoveForward
  BY <1>1, AgentStep
<1>4. log' = log \/ \E e \in EnvelopeType : Appends(e)
  BY <1>1, LogStep
<1>5. FlagsMoveForward
  BY <1>1, FlagStep
<1>6. LogInv'
  BY <1>1, <1>3, <1>4, LogInvStep
<1>7. VoteInv'
  BY <1>3, <1>4, <1>5, VoteInvStep
<1>8. CommitInv' /\ HeardInv'
  BY <1>2, <1>3, <1>4, <1>5, CommitInvStep, HeardInvStep
<1>9. NoEvaluationComesTooLate'
  BY <1>3, <1>5, BarrierStep
<1> QED  BY <1>2, <1>3, <1>6, <1>7, <1>8, <1>9 DEF IInv

(* A vote the coordinator has handled came after every evaluation, all of    *)
(* which it has handled too: it has heard everybody.                         *)
LEMMA VotesSeenLate == IInv => CommitsBeforeItSeesAVote
<1> SUFFICES ASSUME IInv, NEW i \in 1 .. read[Coordinator], log[i].type = "Vote", ~committed
             PROVE  FALSE
  BY DEF CommitsBeforeItSeesAVote
<1>1. read[Coordinator] \in 0 .. Len(log) /\ Len(log) \in Nat
  BY DEF IInv, TypeOK, Participants
<1>2. i \in 1 .. Len(log)
  BY <1>1
<1>3. /\ log[i].sender \in Specialists
      /\ \A t \in Specialists : \E j \in 1 .. i - 1 : IsBy(j, "Evaluation", t)
  BY <1>2 DEF IInv, VoteInv
<1>4. \A j \in 1 .. i - 1 : j \in 1 .. read[Coordinator]
  BY <1>1
<1>5. Specialists \subseteq DOMAIN signals
  BY <1>3, <1>4 DEF IInv, HeardInv, IsBy
<1> QED  BY <1>3, <1>5 DEF IInv, CommitInv

(* The session keeps its invariant, for every number of specialists.         *)
THEOREM Invariance == Spec => []IInv
  BY InitIInv, IInvStep, PTL DEF Spec

(* Runtime, coordinator and specialists stay within their types: only the    *)
(* specialists enter the coordinator's signals map.                          *)
THEOREM Typing == Spec => []TypeOK
<1>1. IInv => TypeOK
  BY DEF IInv
<1> QED  BY <1>1, Invariance, PTL

(* The two-phase barrier of the three workers: whatever the number of        *)
(* specialists, their opinions and the order of events, no evaluation is     *)
(* refused unless the deadline has struck or the session has expired.        *)
THEOREM BarrierHolds == Spec => []NoEvaluationComesTooLate
<1>1. IInv => NoEvaluationComesTooLate
  BY DEF IInv
<1> QED  BY <1>1, Invariance, PTL

(* When the coordinator handles a vote it has already begun its commit.      *)
THEOREM CommitsOnEvaluations == Spec => []CommitsBeforeItSeesAVote
  BY VotesSeenLate, Invariance, PTL

-----------------------------------------------------------------------------
(* The commitment: what the coordinator decides, and on what.                *)

(* The coordinator's signals are what the log it has handled says.           *)
SignalsInv == signals = SignalsUpTo(read[Coordinator])

(* The first k envelopes are enough to decide on.                            *)
Grounds(k) ==
  /\ isQuorumMet(policy, SignalsUpTo(k), Expected)
  /\ Speakers(k) = Specialists \/ waitTimer = "fired"

(* While it commits it has grounds to, and what it has decided had grounds   *)
(* when it was decided.                                                      *)
TurnInv ==
  /\ turn \in {"suspending", "holding", "voting", "committing"} =>
       read[Coordinator] >= 1 /\ Grounds(read[Coordinator])
  /\ turn \in {"voting", "committing"} =>
       \E k \in 1 .. Len(log) : decision = decide(policy, SignalsUpTo(k)) /\ Grounds(k)

(* A specialist has evaluated APPROVE above the floor.                       *)
Confident(s, k) ==
  \E i \in 1 .. k : /\ log[i].type = "Evaluation" /\ log[i].sender = s
                    /\ log[i].says = "APPROVE"
                    /\ log[i].confidence >= policy.minimumConfidence

(* It commits once, and an approval under unanimity rests on the evaluations *)
(* of all unless it suspends first.                                          *)
UnanimityInv ==
  /\ waitTimer \in {"off", "armed"} => ~committed
  /\ turn \in {"suspending", "holding"} => policy.suspends
  /\ policy.type = "unanimous" /\ ~policy.suspends /\ decision.action = "approve" =>
       \A s \in Specialists : Confident(s, Len(log))

JInv == IInv /\ SignalsInv /\ TurnInv /\ CommitmentIsJustified /\ UnanimityInv

(* What the log has said stays said. *)
LEMMA LogStays ==
  ASSUME TypeOK, log' = log \/ \E e \in EnvelopeType : Appends(e)
  PROVE  /\ Len(log) \in Nat /\ Len(log') \in Nat /\ Len(log) <= Len(log')
         /\ \A i \in 1 .. Len(log) : log'[i] = log[i]
<1>1. Len(log) \in Nat
  BY DEF TypeOK
<1>2. ASSUME NEW e \in EnvelopeType, Appends(e)
      PROVE  Len(log') = Len(log) + 1 /\ \A i \in 1 .. Len(log) : log'[i] = log[i]
  BY <1>2, AppendType DEF Appends
<1> QED  BY <1>1, <1>2

(* A non-empty set of natural numbers has a minimum. *)
LEMMA Minimum ==
  ASSUME NEW T \in SUBSET Nat, T # {}
  PROVE  \E x \in T : \A y \in T : x <= y
<1>1. PICK x \in T : \A y \in T : ~(<<y, x>> \in OpToRel(<, Nat))
  BY WFMin, NatLessThanWellFounded
<1>2. \A y \in T : ~(y < x)
  BY <1>1 DEF OpToRel
<1>3. x \in Nat /\ \A y \in T : y \in Nat
  OBVIOUS
<1> QED  BY <1>2, <1>3

(* A non-empty set of numbers up to k has a maximum. *)
LEMMA Maximum ==
  ASSUME NEW k \in Nat, NEW T \in SUBSET (1 .. k), T # {}
  PROVE  \E x \in T : \A y \in T : y <= x
<1> DEFINE U == {k - y : y \in T}
<1>1. U \in SUBSET Nat /\ U # {}
  <2>1. \A y \in T : y \in 1 .. k
    OBVIOUS
  <2>2. \A y \in T : k - y \in Nat
    BY <2>1
  <2> QED  BY <2>2
<1>2. PICK u \in U : \A v \in U : u <= v
  BY <1>1, Minimum
<1>3. PICK x \in T : u = k - x
  OBVIOUS
<1>4. ASSUME NEW y \in T PROVE y <= x
  <2>1. k - y \in U
    OBVIOUS
  <2>2. k - x <= k - y
    BY <1>2, <1>3, <2>1
  <2> QED  BY <2>2
<1> QED  BY <1>4

(* The greatest of some numbers, and what identifies it. *)
LEMMA MaxOfNumbers ==
  ASSUME NEW k \in Nat, NEW T \in SUBSET (1 .. k), T # {}
  PROVE  Max(T) \in T /\ \A y \in T : y <= Max(T)
<1>1. \E x \in T : \A y \in T : x >= y
  BY Maximum
<1> QED  BY <1>1 DEF Max

(* What the first k envelopes say, as long as they are the same. *)
LEMMA SaidStays ==
  ASSUME NEW k \in Nat, \A i \in 1 .. k : log'[i] = log[i]
  PROVE  /\ \A s : SaidBy(s, k)' = SaidBy(s, k)
         /\ Speakers(k)' = Speakers(k)
         /\ SignalsUpTo(k)' = SignalsUpTo(k)
<1>1. \A s : SaidBy(s, k)' = SaidBy(s, k)
  BY DEF SaidBy
<1>2. Speakers(k)' = Speakers(k)
  BY <1>1 DEF Speakers
<1>3. ASSUME NEW s \in Speakers(k)
      PROVE  log'[Max(SaidBy(s, k)')] = log[Max(SaidBy(s, k))]
  <2>1. SaidBy(s, k) # {} /\ SaidBy(s, k) \in SUBSET (1 .. k)
    BY DEF Speakers, SaidBy
  <2>2. Max(SaidBy(s, k)) \in 1 .. k
    BY <2>1, MaxOfNumbers
  <2>3. SaidBy(s, k)' = SaidBy(s, k)
    BY <1>1
  <2> QED  BY <2>2, <2>3
<1> QED  BY <1>1, <1>2, <1>3 DEF SignalsUpTo

(* The signals after one more envelope: its sender's is new. *)
LEMMA NextSignal ==
  ASSUME TypeOK, NEW n \in Nat, n + 1 \in 1 .. Len(log)
  PROVE  /\ log[n + 1].sender \notin Specialists => SignalsUpTo(n + 1) = SignalsUpTo(n)
         /\ log[n + 1].sender \in Specialists =>
              SignalsUpTo(n + 1) = Observe(SignalsUpTo(n), log[n + 1])
<1> DEFINE m == log[n + 1]
<1>1. ASSUME NEW s PROVE s # m.sender => SaidBy(s, n + 1) = SaidBy(s, n)
  <2>1. \A i \in 1 .. n + 1 : i \in 1 .. n \/ i = n + 1
    OBVIOUS
  <2>2. \A i \in 1 .. n : i \in 1 .. n + 1
    OBVIOUS
  <2> QED  BY <2>1, <2>2 DEF SaidBy
<1>2. n + 1 \in SaidBy(m.sender, n + 1) /\ Max(SaidBy(m.sender, n + 1)) = n + 1
  <2>1. n + 1 \in SaidBy(m.sender, n + 1) /\ SaidBy(m.sender, n + 1) \in SUBSET (1 .. n + 1)
    BY DEF SaidBy
  <2>2. /\ Max(SaidBy(m.sender, n + 1)) \in 1 .. n + 1
        /\ n + 1 <= Max(SaidBy(m.sender, n + 1))
    <3>1. n + 1 \in Nat /\ SaidBy(m.sender, n + 1) # {}
      BY <2>1
    <3> HIDE DEF m
    <3>2. /\ Max(SaidBy(m.sender, n + 1)) \in SaidBy(m.sender, n + 1)
          /\ \A y \in SaidBy(m.sender, n + 1) : y <= Max(SaidBy(m.sender, n + 1))
      BY <2>1, <3>1, MaxOfNumbers
    <3> QED  BY <2>1, <3>2
  <2> QED  BY <2>1, <2>2
<1> HIDE DEF m
<1>3. ASSUME m.sender \notin Specialists PROVE SignalsUpTo(n + 1) = SignalsUpTo(n)
  <2>1. \A s \in Specialists : SaidBy(s, n + 1) = SaidBy(s, n)
    BY <1>1, <1>3
  <2>2. Speakers(n + 1) = Speakers(n)
    BY <2>1 DEF Speakers
  <2>3. \A s \in Speakers(n) : SaidBy(s, n + 1) = SaidBy(s, n)
    BY <2>1 DEF Speakers
  <2> QED  BY <2>2, <2>3 DEF SignalsUpTo
<1>4. ASSUME m.sender \in Specialists PROVE SignalsUpTo(n + 1) = Observe(SignalsUpTo(n), m)
  <2>1. Speakers(n + 1) = Speakers(n) \cup {m.sender}
    BY <1>1, <1>2, <1>4 DEF Speakers
  <2>2. ASSUME NEW s \in Speakers(n + 1)
        PROVE  SignalOf(log[Max(SaidBy(s, n + 1))]) =
                 IF s = m.sender THEN SignalOf(m) ELSE SignalsUpTo(n)[s]
    <3>1. CASE s = m.sender
      BY <1>2, <3>1 DEF m
    <3>2. CASE s # m.sender
      <4>1. s \in Speakers(n) /\ SaidBy(s, n + 1) = SaidBy(s, n)
        BY <1>1, <2>1, <2>2, <3>2
      <4>2. SignalsUpTo(n)[s] = SignalOf(log[Max(SaidBy(s, n))])
        BY <4>1 DEF SignalsUpTo
      <4> QED  BY <3>2, <4>1, <4>2
    <3> QED  BY <3>1, <3>2
  <2>3. DOMAIN SignalsUpTo(n) = Speakers(n)
    BY DEF SignalsUpTo
  <2>4. SignalsUpTo(n + 1) = [s \in Speakers(n + 1) |-> SignalOf(log[Max(SaidBy(s, n + 1))])]
    BY DEF SignalsUpTo
  <2>5. Observe(SignalsUpTo(n), m) =
          [s \in Speakers(n + 1) |->
             IF s = m.sender THEN SignalOf(m) ELSE SignalsUpTo(n)[s]]
    BY <2>1, <2>3 DEF Observe
  <2> QED  BY <2>2, <2>4, <2>5
<1> QED  BY <1>3, <1>4 DEF m

LEMMA SenderType ==
  ASSUME TypeOK, NEW i \in 1 .. Len(log)
  PROVE  log[i] \in EnvelopeType /\ log[i].sender \in Specialists \cup {Coordinator}
<1>1. log[i] \in EnvelopeType
  BY DEF TypeOK
<1> QED  BY <1>1 DEF EnvelopeType, Participants

(* The coordinator keeps its signals in step with the log. *)
LEMMA SignalsInvStep ==
  ASSUME IInv, SignalsInv, [Next]_vars, log' = log \/ \E e \in EnvelopeType : Appends(e)
  PROVE  SignalsInv'
<1> USE DEF coordinatorVars, runtimeVars
<1> DEFINE n == read[Coordinator]
<1>0. /\ TypeOK /\ n \in 0 .. Len(log) /\ Coordinator \in Participants
      /\ Coordinator \notin Specialists
  BY DeliberationAssumption DEF IInv, TypeOK, Participants
<1>1. \A i \in 1 .. Len(log) : log'[i] = log[i] /\ Len(log) \in Nat
  BY <1>0, LogStays
<1>2. ASSUME NEW k \in 0 .. Len(log) PROVE SignalsUpTo(k)' = SignalsUpTo(k)
  <2>1. k \in Nat /\ \A i \in 1 .. k : log'[i] = log[i]
    BY <1>0, <1>1, LogStays
  <2> QED  BY <2>1, SaidStays
<1>3. ASSUME NEW k \in 0 .. Len(log), read'[Coordinator] = k, signals' = SignalsUpTo(k)
      PROVE  SignalsInv'
  <2>1. SignalsUpTo(read[Coordinator])' = SignalsUpTo(k)'
    BY <1>3
  <2> QED  BY <1>2, <1>3, <2>1 DEF SignalsInv
<1>4. CASE read'[Coordinator] = read[Coordinator] /\ signals' = signals
  <2>1. signals' = SignalsUpTo(n)
    BY <1>4 DEF SignalsInv
  <2> HIDE DEF n
  <2> QED  BY <1>0, <1>3, <1>4, <2>1 DEF n
<1>5. ASSUME NEW s \in Specialists, SpecialistStep(s) \/ Crash(s)
      PROVE  read'[Coordinator] = read[Coordinator] /\ signals' = signals
  BY <1>0, <1>5 DEF TypeOK, SpecialistStep, HandleProposal, HandleEvent, MaybeVote, Crash
<1>6. CASE ObserveProposal
  <2>1. n = 0 /\ read'[Coordinator] = n + 1 /\ signals' = signals
    BY <1>0, <1>6 DEF ObserveProposal, TypeOK
  <2>2. n + 1 \in 1 .. Len(log) /\ log[n + 1].sender = Coordinator
    <3>1. log # <<>> /\ log[1].sender = Coordinator /\ Len(log) \in Nat
      BY <1>0, LogStays DEF IInv, LogInv, IsBy
    <3>2. Len(log) >= 1 /\ n + 1 = 1
      BY <1>0, <2>1, <3>1 DEF TypeOK
    <3> QED  BY <3>1, <3>2
  <2>3. signals' = SignalsUpTo(n + 1)
    BY <1>0, <2>1, <2>2, NextSignal DEF SignalsInv
  <2> HIDE DEF n
  <2> QED  BY <1>3, <2>1, <2>2, <2>3
<1>7. CASE ObserveOwn
  <2>1. /\ read'[Coordinator] = n + 1 /\ n + 1 \in 1 .. Len(log) /\ signals' = signals
        /\ log[n + 1].sender = Coordinator
    BY <1>0, <1>7 DEF ObserveOwn, Ignored, TypeOK
  <2>2. signals' = SignalsUpTo(n + 1)
    BY <1>0, <2>1, NextSignal DEF SignalsInv
  <2> HIDE DEF n
  <2> QED  BY <1>3, <2>1, <2>2
<1>8. CASE ObserveSignal
  <2>1. /\ read'[Coordinator] = n + 1 /\ n + 1 \in 1 .. Len(log)
        /\ signals' = Observe(signals, log[n + 1]) /\ log[n + 1].sender # Coordinator
    BY <1>0, <1>8 DEF ObserveSignal, Ignored, TypeOK
  <2>2. log[n + 1].sender \in Specialists
    BY <1>0, <2>1, SenderType
  <2>3. signals' = SignalsUpTo(n + 1)
    BY <1>0, <2>1, <2>2, NextSignal DEF SignalsInv
  <2> HIDE DEF n
  <2> QED  BY <1>3, <2>1, <2>3
<1>9. CASE Deadline \/ Suspend \/ Resume \/ Vote \/ Commit \/ Cancel \/ Expire \/ UNCHANGED vars
  BY <1>9, <1>4 DEF Deadline, Suspend, Resume, Vote, Commit, Cancel, Expire, vars
<1> QED  BY <1>4, <1>5, <1>6, <1>7, <1>8, <1>9 DEF Next, CoordinatorStep

(* A quorum stays one when more participants have spoken. *)
LEMMA QuorumStays ==
  ASSUME NEW p \in Policies, NEW before, NEW after, DOMAIN before \subseteq DOMAIN after,
         DOMAIN after \subseteq Specialists, isQuorumMet(p, before, Expected)
  PROVE  isQuorumMet(p, after, Expected)
<1>1. /\ Cardinality(DOMAIN before) \in Nat /\ Cardinality(DOMAIN after) \in Nat
      /\ Cardinality(DOMAIN before) <= Cardinality(DOMAIN after)
      /\ Expected \in Nat
  BY DeliberationAssumption, FS_Subset, FS_CardinalityType DEF Expected
<1>2. p.den \in Nat \ {0} /\ p.num \in 0 .. p.den
  BY DeliberationAssumption DEF WellFormed
<1>3. Ceiling(Expected * p.num, p.den) \in Int
  BY <1>1, <1>2, CeilingBound
<1> QED  BY <1>1, <1>3 DEF isQuorumMet, AtLeast

LEMMA PolicyFixed == [Next]_vars => policy' = policy
  BY DEF Next, CoordinatorStep, SpecialistStep, ObserveProposal, ObserveOwn, ObserveSignal, Deadline,
         Suspend, Resume, Vote, Commit, Cancel, HandleProposal, HandleEvent, MaybeVote, Crash,
         Expire, vars

(* Grounds there were are still there. *)
LEMMA GroundsStay ==
  ASSUME IInv, [Next]_vars, log' = log \/ \E e \in EnvelopeType : Appends(e),
         NEW k \in 0 .. Len(log), Grounds(k)
  PROVE  Grounds(k)'
<1>1. k \in Nat /\ \A i \in 1 .. k : log'[i] = log[i]
  BY LogStays DEF IInv
<1>2. SignalsUpTo(k)' = SignalsUpTo(k) /\ Speakers(k)' = Speakers(k)
  BY <1>1, SaidStays
<1>3. policy' = policy
  BY PolicyFixed
<1>4. waitTimer = "fired" => waitTimer' = "fired"
  BY FlagStep DEF IInv, FlagsMoveForward
<1> QED  BY <1>2, <1>3, <1>4 DEF Grounds, Expected

(* More envelopes leave the grounds there are. *)
LEMMA GroundsGrow ==
  ASSUME TypeOK, NEW n \in Nat, n + 1 \in 1 .. Len(log), Grounds(n)
  PROVE  Grounds(n + 1)
<1>1. \A s \in Specialists : SaidBy(s, n) \subseteq SaidBy(s, n + 1)
  BY DEF SaidBy
<1>2. Speakers(n) \subseteq Speakers(n + 1) /\ Speakers(n + 1) \subseteq Specialists
  BY <1>1 DEF Speakers
<1>3. DOMAIN SignalsUpTo(n) = Speakers(n) /\ DOMAIN SignalsUpTo(n + 1) = Speakers(n + 1)
  BY DEF SignalsUpTo
<1>4. isQuorumMet(policy, SignalsUpTo(n + 1), Expected)
  BY <1>2, <1>3, QuorumStays DEF Grounds, TypeOK
<1> QED  BY <1>2, <1>4 DEF Grounds

(* Whatever the coordinator does next, it has grounds for it. *)
LEMMA TurnInvStep ==
  ASSUME IInv, SignalsInv, SignalsInv', TurnInv, [Next]_vars,
         log' = log \/ \E e \in EnvelopeType : Appends(e)
  PROVE  TurnInv'
<1> USE DEF coordinatorVars, runtimeVars
<1>0. /\ TypeOK /\ read[Coordinator] \in 0 .. Len(log)
      /\ Len(log) \in Nat /\ Len(log') \in Nat /\ Len(log) <= Len(log')
      /\ Coordinator \in Participants \ Specialists /\ policy' = policy
  BY DeliberationAssumption, LogStays, PolicyFixed DEF IInv, TypeOK, Participants
<1>1. PICK n \in 0 .. Len(log) : n = read[Coordinator]
  BY <1>0
<1>2. signals = SignalsUpTo(n)
  BY <1>1 DEF SignalsInv
<1>3. ASSUME NEW k \in 0 .. Len(log) PROVE SignalsUpTo(k)' = SignalsUpTo(k)
  <2>1. k \in Nat /\ \A i \in 1 .. k : log'[i] = log[i]
    BY <1>0, LogStays
  <2> QED  BY <2>1, SaidStays
<1>4. ASSUME NEW k \in 1 .. Len(log), decision' = decide(policy, SignalsUpTo(k)), Grounds(k)'
      PROVE  \E j \in 1 .. Len(log') : (decision = decide(policy, SignalsUpTo(j)) /\ Grounds(j))'
  <2>1. k \in 1 .. Len(log') /\ k \in 0 .. Len(log)
    BY <1>0
  <2>2. decide(policy, SignalsUpTo(k))' = decide(policy, SignalsUpTo(k))
    BY <1>0, <1>3, <2>1
  <2> QED  BY <1>4, <2>1, <2>2
<1>5. ASSUME decision' = decision, turn \in {"voting", "committing"}
      PROVE  \E j \in 1 .. Len(log') : (decision = decide(policy, SignalsUpTo(j)) /\ Grounds(j))'
  <2>1. PICK k \in 1 .. Len(log) : decision = decide(policy, SignalsUpTo(k)) /\ Grounds(k)
    BY <1>5 DEF TurnInv
  <2>2. k \in 0 .. Len(log) /\ Grounds(k)'
    BY <1>0, <2>1, GroundsStay
  <2> QED  BY <1>4, <1>5, <2>1, <2>2
<1>6. ASSUME NEW k \in 0 .. Len(log), read'[Coordinator] = k, Grounds(k)'
      PROVE  Grounds(read[Coordinator])'
  BY <1>6 DEF Grounds, SignalsUpTo, Speakers, SaidBy
<1>7. turn \in {"suspending", "holding", "voting", "committing"} => n >= 1 /\ Grounds(n)
  BY <1>1 DEF TurnInv
<1>8. CASE read'[Coordinator] = n /\ turn' = turn /\ decision' = decision
  <2>1. ASSUME turn \in {"suspending", "holding", "voting", "committing"}
        PROVE  read'[Coordinator] >= 1 /\ Grounds(read[Coordinator])'
    BY <1>6, <1>7, <1>8, <2>1, GroundsStay
  <2> QED  BY <1>5, <1>8, <2>1 DEF TurnInv
<1>9. ASSUME NEW s \in Specialists, SpecialistStep(s) \/ Crash(s)
      PROVE  read'[Coordinator] = n /\ turn' = turn /\ decision' = decision
  <2>1. turn' = turn /\ decision' = decision
    BY <1>9 DEF SpecialistStep, HandleProposal, HandleEvent, MaybeVote, Crash
  <2>2. read'[Coordinator] = read[Coordinator]
    BY <1>0, <1>9 DEF TypeOK, SpecialistStep, HandleProposal, HandleEvent, MaybeVote, Crash
  <2> QED  BY <1>1, <2>1, <2>2
<1>10. CASE Expire \/ UNCHANGED vars
  BY <1>1, <1>8, <1>10 DEF Expire, vars
<1>11. CASE ObserveProposal
  BY <1>1, <1>7, <1>11 DEF ObserveProposal, TurnInv
<1>12. ASSUME ObserveOwn \/ ObserveSignal
       PROVE  /\ n + 1 \in 1 .. Len(log) /\ n \in Nat /\ n + 1 \in 0 .. Len(log)
              /\ read'[Coordinator] = n + 1
              /\ Grounds(n) => Grounds(n + 1)'
  <2>1. n + 1 \in 1 .. Len(log) /\ n \in Nat /\ n + 1 \in 0 .. Len(log)
    BY <1>0, <1>1, <1>12 DEF ObserveOwn, ObserveSignal
  <2>2. read'[Coordinator] = n + 1
    BY <1>1, <1>12 DEF ObserveOwn, ObserveSignal, IInv, TypeOK, Participants
  <2>3. Grounds(n) => Grounds(n + 1)
    BY <1>0, <2>1, GroundsGrow
  <2> QED  BY <2>1, <2>2, <2>3, GroundsStay
<1>13. ASSUME ObserveOwn \/ ObserveSignal, turn' = turn, decision' = decision
       PROVE  TurnInv'
  <2>1. ASSUME turn \in {"suspending", "holding", "voting", "committing"}
        PROVE  read'[Coordinator] >= 1 /\ Grounds(read[Coordinator])'
    BY <1>6, <1>7, <1>12, <1>13, <2>1
  <2> QED  BY <1>5, <1>13, <2>1 DEF TurnInv
<1>14. ASSUME NEW k \in 1 .. Len(log), read'[Coordinator] = k, Grounds(k)',
              \/ turn' = "suspending"
              \/ turn' = "voting" /\ decision' = decide(policy, SignalsUpTo(k))
       PROVE  TurnInv'
  <2>1. read'[Coordinator] >= 1 /\ k \in 0 .. Len(log)
    BY <1>14
  <2>2. Grounds(read[Coordinator])'
    BY <1>6, <1>14, <2>1
  <2> QED  BY <1>4, <1>14, <2>1, <2>2 DEF TurnInv
<1>15. CASE ObserveSignal
  <2> DEFINE heard == Observe(signals, log[read[Coordinator] + 1])
  <2>1. /\ signals' = heard /\ UNCHANGED log
        /\ \/ CommitsOn(heard) /\ BeginCommit(heard)
           \/ ~CommitsOn(heard) /\ turn' = turn /\ decision' = decision
    BY <1>15 DEF ObserveSignal
  <2> HIDE DEF heard
  <2>2. heard = SignalsUpTo(n + 1)
    <3>1. SignalsUpTo(read[Coordinator])' = SignalsUpTo(n + 1)'
      BY <1>12, <1>15
    <3> QED  BY <1>3, <1>12, <1>15, <2>1, <3>1 DEF SignalsInv
  <2>3. ASSUME CommitsOn(heard) PROVE Grounds(n + 1)
    <3>1. DOMAIN heard = Speakers(n + 1) /\ Speakers(n + 1) \subseteq Specialists
      BY <2>2 DEF SignalsUpTo, Speakers
    <3>2. Speakers(n + 1) = Specialists
      BY <2>3, <3>1, AllHeard DEF CommitsOn
    <3> QED  BY <2>2, <2>3, <3>2 DEF CommitsOn, Grounds
  <2>4. CASE CommitsOn(heard)
    <3>1. Grounds(n + 1)' /\ BeginCommit(heard)
      BY <1>12, <1>15, <2>1, <2>3, <2>4, GroundsStay
    <3> QED  BY <1>12, <1>14, <1>15, <2>2, <3>1 DEF BeginCommit
  <2> QED  BY <1>13, <1>15, <2>1, <2>4
<1>16. CASE Deadline
  <2>1. read' = read /\ waitTimer' = "fired" /\ log' = log
    BY <1>16 DEF Deadline
  <2>2. n \in 1 .. Len(log) /\ read'[Coordinator] = n
    BY <1>0, <1>1, <1>16, <2>1 DEF Deadline, IInv, HeardInv
  <2>3. CASE isQuorumMet(policy, signals, Expected) /\ BeginCommit(signals)
    <3>1. isQuorumMet(policy, SignalsUpTo(n), Expected)
      BY <1>2, <2>3
    <3>2. Grounds(n)'
      <4>1. isQuorumMet(policy, SignalsUpTo(n), Expected)'
        BY <1>0, <1>3, <3>1 DEF Expected
      <4> QED  BY <2>1, <4>1 DEF Grounds
    <3> QED  BY <1>2, <1>14, <2>2, <2>3, <3>2 DEF BeginCommit
  <2>4. CASE turn' = "cancelling"
    BY <2>4 DEF TurnInv
  <2> QED  BY <1>16, <2>3, <2>4 DEF Deadline
<1>17. CASE Suspend \/ Resume
  <2>1. turn \in {"suspending", "holding"} /\ read' = read
    BY <1>17 DEF Suspend, Resume
  <2>2. n \in 1 .. Len(log) /\ Grounds(n)' /\ read'[Coordinator] = n
    BY <1>1, <1>7, <2>1, GroundsStay
  <2>3. CASE turn' = "voting" /\ decision' = decide(policy, signals)
    BY <1>2, <1>14, <2>2, <2>3
  <2>4. CASE turn' = "holding"
    BY <1>6, <2>2, <2>4 DEF TurnInv
  <2> QED  BY <1>17, <2>3, <2>4 DEF Suspend, Resume
<1>18. CASE Vote
  <2>1. turn = "voting" /\ turn' = "committing" /\ read' = read /\ decision' = decision
    BY <1>18 DEF Vote
  <2>2. Grounds(n)' /\ n >= 1
    BY <1>7, <2>1, GroundsStay
  <2> QED  BY <1>1, <1>5, <1>6, <2>1, <2>2 DEF TurnInv
<1>19. CASE Commit \/ Cancel
  BY <1>19 DEF Commit, Cancel, TurnInv
<1> QED  BY <1>8, <1>9, <1>10, <1>11, <1>13, <1>15, <1>16, <1>17, <1>18, <1>19
         DEF Next, CoordinatorStep, ObserveOwn

(* A commitment enters the log when the coordinator commits what it decided. *)
LEMMA CommitmentAppended ==
  ASSUME TypeOK, [Next]_vars, NEW i \in 1 .. Len(log'), i \notin 1 .. Len(log),
         log'[i].type = "Commitment"
  PROVE  turn = "committing" /\ log'[i].says = decision.action
<1> USE DEF coordinatorVars, runtimeVars
<1>0. Len(log) \in Nat
  BY DEF TypeOK
<1>1. ASSUME NEW e, log' = Append(log, e) PROVE log'[i] = e
  BY <1>0, <1>1 DEF TypeOK
<1>2. log' # log
  OBVIOUS
<1>3. ASSUME NEW s \in Specialists, SpecialistStep(s) \/ Crash(s) PROVE FALSE
  <2>1. CASE HandleProposal(s)
    <3>1. PICK o \in Opinions : log' = Append(log, Envelope("Evaluation", s,
                                   EvalRecommendation(o.recommendation), o.confidence))
      BY <1>2, <2>1 DEF HandleProposal
    <3>2. log'[i] = Envelope("Evaluation", s, EvalRecommendation(o.recommendation), o.confidence)
      BY <1>1, <3>1
    <3> QED  BY <3>2 DEF Envelope
  <2>2. CASE MaybeVote(s)
    <3>1. log'[i] = Envelope("Vote", s, StagedVote(agents[s].opinion.recommendation), 0)
      BY <1>1, <1>2, <2>2 DEF MaybeVote
    <3> QED  BY <3>1 DEF Envelope
  <2>3. CASE HandleEvent(s) \/ Crash(s)
    BY <1>2, <2>3 DEF HandleEvent, Crash
  <2> QED  BY <1>3, <2>1, <2>2, <2>3 DEF SpecialistStep
<1>4. CASE Vote
  <2>1. log'[i] = Envelope("Vote", Coordinator, decision.vote, 0)
    BY <1>1, <1>2, <1>4 DEF Vote
  <2> QED  BY <2>1 DEF Envelope
<1>5. CASE Commit
  <2>1. log'[i] = Envelope("Commitment", Coordinator, decision.action, 0)
    BY <1>1, <1>2, <1>5 DEF Commit
  <2> QED  BY <1>5, <2>1 DEF Commit, Envelope
<1>6. CASE ObserveProposal \/ ObserveOwn \/ ObserveSignal \/ Deadline \/ Suspend \/ Resume
           \/ Cancel \/ Expire \/ UNCHANGED vars
  BY <1>2, <1>6 DEF ObserveProposal, ObserveOwn, ObserveSignal, Deadline, Suspend, Resume,
                    Cancel, Expire, vars
<1> QED  BY <1>3, <1>4, <1>5, <1>6 DEF Next, CoordinatorStep

(* So every commitment in the log has grounds before it, and keeps them.     *)
LEMMA CommitmentStep ==
  ASSUME IInv, TurnInv, CommitmentIsJustified, [Next]_vars,
         log' = log \/ \E e \in EnvelopeType : Appends(e)
  PROVE  CommitmentIsJustified'
<1>0. /\ TypeOK /\ Len(log) \in Nat /\ Len(log') \in Nat /\ Len(log) <= Len(log')
      /\ policy' = policy /\ \A j \in 1 .. Len(log) : log'[j] = log[j]
  BY LogStays, PolicyFixed DEF IInv
<1>1. waitTimer = "fired" => waitTimer' = "fired"
  BY FlagStep DEF IInv, FlagsMoveForward
<1>2. ASSUME NEW k \in 1 .. Len(log)
      PROVE  SignalsUpTo(k)' = SignalsUpTo(k) /\ Speakers(k)' = Speakers(k)
  BY <1>0, SaidStays
<1> SUFFICES ASSUME NEW i \in 1 .. Len(log'), log'[i].type = "Commitment"
             PROVE  \E k \in 1 .. i - 1 :
                      (/\ decide(policy, SignalsUpTo(k)).action = log[i].says
                       /\ isQuorumMet(policy, SignalsUpTo(k), Expected)
                       /\ Speakers(k) = Specialists \/ waitTimer = "fired")'
  BY DEF CommitmentIsJustified
<1>3. \E k \in 1 .. i - 1 :
        /\ k \in 1 .. Len(log)
        /\ decide(policy, SignalsUpTo(k)).action = log'[i].says
        /\ isQuorumMet(policy, SignalsUpTo(k), Expected)
        /\ Speakers(k) = Specialists \/ waitTimer = "fired"
  <2>1. CASE i \in 1 .. Len(log)
    <3>1. log'[i] = log[i] /\ \A k \in 1 .. i - 1 : k \in 1 .. Len(log)
      BY <1>0, <2>1
    <3> QED  BY <2>1, <3>1 DEF CommitmentIsJustified
  <2>2. CASE i \notin 1 .. Len(log)
    <3>1. turn = "committing" /\ log'[i].says = decision.action
      BY <1>0, <2>2, CommitmentAppended
    <3>2. \A k \in 1 .. Len(log) : k \in 1 .. i - 1
      BY <1>0, <2>2
    <3> QED  BY <3>1, <3>2 DEF TurnInv, Grounds
  <2> QED  BY <2>1, <2>2
<1>4. PICK k \in 1 .. i - 1 :
        /\ k \in 1 .. Len(log)
        /\ decide(policy, SignalsUpTo(k)).action = log'[i].says
        /\ isQuorumMet(policy, SignalsUpTo(k), Expected)
        /\ Speakers(k) = Specialists \/ waitTimer = "fired"
  BY <1>3
<1>5. SignalsUpTo(k)' = SignalsUpTo(k) /\ Speakers(k)' = Speakers(k)
  BY <1>2, <1>4
<1> QED  BY <1>0, <1>1, <1>4, <1>5 DEF Expected

(* Under unanimity an approval is one of everybody heard, at full weight.    *)
LEMMA UnanimousApproval ==
  ASSUME NEW p \in Policies, p.type = "unanimous", NEW heard, IsFiniteSet(DOMAIN heard),
         decide(p, heard).action = "approve"
  PROVE  \A s \in DOMAIN heard : /\ heard[s].type = "Evaluation" /\ heard[s].says = "APPROVE"
                                 /\ heard[s].confidence >= p.minimumConfidence
<1> DEFINE approvers == {s \in Qualified(p, heard) : heard[s].says \in {"APPROVE"}}
<1>1. ~Vetoed(p, heard)
  BY DEF decide, Decline
<1>2. Saying(p, heard, {"APPROVE"}) = Cardinality(DOMAIN heard)
  BY <1>1 DEF decide, Decline, StepUp, Approve
<1>3. approvers \in SUBSET DOMAIN heard
  BY DEF Qualified, Evaluations
<1>4. Cardinality(approvers) = Cardinality(DOMAIN heard)
  BY <1>2 DEF Saying
<1> HIDE DEF approvers
<1>5. approvers = DOMAIN heard
  BY <1>3, <1>4, FS_Subset
<1> QED  BY <1>5 DEF approvers, Qualified, Evaluations

(* And a signal from a log without votes is an evaluation in it.             *)
LEMMA ConfidentSignals ==
  ASSUME TypeOK, NEW k \in 0 .. Len(log), \A i \in 1 .. k : log[i].type # "Vote",
         policy.type = "unanimous", decide(policy, SignalsUpTo(k)).action = "approve",
         NEW s \in Speakers(k)
  PROVE  Confident(s, k)
<1> DEFINE i == Max(SaidBy(s, k))
           heard == SignalsUpTo(k)
<1>1. i \in 1 .. k /\ log[i].sender = s
  <2>1. k \in Nat /\ SaidBy(s, k) \in SUBSET (1 .. k) /\ SaidBy(s, k) # {}
    BY DEF TypeOK, Speakers, SaidBy
  <2>2. i \in SaidBy(s, k)
    BY <2>1, MaxOfNumbers
  <2> QED  BY <2>2 DEF SaidBy
<1>2. DOMAIN heard = Speakers(k) /\ heard[s] = SignalOf(log[i])
  BY DEF SignalsUpTo
<1>3. IsFiniteSet(DOMAIN heard)
  BY <1>2, DeliberationAssumption, FS_Subset DEF Speakers
<1> HIDE DEF i, heard
<1>4. /\ heard[s].type = "Evaluation" /\ heard[s].says = "APPROVE"
      /\ heard[s].confidence >= policy.minimumConfidence
  <2>1. decide(policy, heard).action = "approve" /\ policy \in Policies
    BY DEF heard, TypeOK
  <2> QED  BY <1>2, <1>3, <2>1, UnanimousApproval
<1>5. heard[s] = [type |-> log[i].type, says |-> log[i].says, confidence |-> log[i].confidence]
  BY <1>1, <1>2 DEF SignalOf
<1> QED  BY <1>1, <1>4, <1>5 DEF Confident

(* Until it commits, the coordinator handles no vote, not even as the next   *)
(* envelope.                                                                 *)
LEMMA NoVoteHandled ==
  ASSUME IInv, ~committed, NEW i \in 1 .. Len(log), i - 1 <= read[Coordinator],
         log[i].sender \in Specialists
  PROVE  log[i].type # "Vote"
<1> SUFFICES ASSUME log[i].type = "Vote" PROVE FALSE
  OBVIOUS
<1>1. \A t \in Specialists : \E j \in 1 .. i - 1 : IsBy(j, "Evaluation", t)
  BY DEF IInv, VoteInv
<1>2. read[Coordinator] \in 0 .. Len(log) /\ Len(log) \in Nat
  BY DEF IInv, TypeOK, Participants
<1>3. \A j \in 1 .. i - 1 : j \in 1 .. read[Coordinator]
  BY <1>2
<1>4. Specialists \subseteq DOMAIN signals
  BY <1>1, <1>3 DEF IInv, HeardInv, IsBy
<1> QED  BY <1>4 DEF IInv, CommitInv

(* Grounds for a decision of a unanimous policy are everybody's.             *)
LEMMA UnanimousQuorum ==
  ASSUME policy.type = "unanimous", NEW k, isQuorumMet(policy, SignalsUpTo(k), Expected)
  PROVE  Speakers(k) = Specialists
<1> DEFINE heard == SignalsUpTo(k)
<1>1. DOMAIN heard = Speakers(k) /\ DOMAIN heard \subseteq Specialists
  BY DEF SignalsUpTo, Speakers
<1>2. Cardinality(DOMAIN heard) >= Expected
  BY DEF isQuorumMet
<1> QED  BY <1>1, <1>2, AllHeard

(* The commit starts once, on evaluations alone.                             *)
LEMMA UnanimityStep ==
  ASSUME IInv, SignalsInv, SignalsInv', UnanimityInv, [Next]_vars,
         log' = log \/ \E e \in EnvelopeType : Appends(e)
  PROVE  UnanimityInv'
<1> USE DEF coordinatorVars, runtimeVars
<1>0. /\ TypeOK /\ read[Coordinator] \in 0 .. Len(log)
      /\ Len(log) \in Nat /\ Len(log') \in Nat /\ Len(log) <= Len(log')
      /\ Coordinator \in Participants \ Specialists /\ policy' = policy
      /\ \A j \in 1 .. Len(log) : log'[j] = log[j]
  BY DeliberationAssumption, LogStays, PolicyFixed DEF IInv, TypeOK, Participants
<1>1. PICK n \in 0 .. Len(log) : n = read[Coordinator]
  BY <1>0
<1>2. ASSUME NEW s, NEW k \in 0 .. Len(log), Confident(s, k)
      PROVE  Confident(s, Len(log))'
  <2>1. PICK j \in 1 .. k : /\ log[j].type = "Evaluation" /\ log[j].sender = s
                            /\ log[j].says = "APPROVE"
                            /\ log[j].confidence >= policy.minimumConfidence
    BY <1>2 DEF Confident
  <2>2. j \in 1 .. Len(log') /\ log'[j] = log[j]
    BY <1>0
  <2> QED  BY <1>0, <2>1, <2>2 DEF Confident
<1>3. waitTimer' \in {"off", "armed"} => ~committed'
  <2>1. ASSUME NEW s \in Specialists, SpecialistStep(s) \/ Crash(s)
        PROVE  waitTimer' = waitTimer /\ committed' = committed
    BY <2>1 DEF SpecialistStep, HandleProposal, HandleEvent, MaybeVote, Crash
  <2>2. CASE ObserveProposal
    BY <2>2 DEF ObserveProposal, IInv, HeardInv, UnanimityInv
  <2>3. CASE ObserveSignal \/ Deadline
    BY <2>3 DEF ObserveSignal, Deadline, UnanimityInv
  <2>4. CASE ObserveOwn \/ Suspend \/ Resume \/ Vote \/ Commit \/ Cancel \/ Expire \/ UNCHANGED vars
    BY <2>4 DEF ObserveOwn, Suspend, Resume, Vote, Commit, Cancel, Expire, vars, UnanimityInv
  <2> QED  BY <2>1, <2>2, <2>3, <2>4 DEF Next, CoordinatorStep, UnanimityInv
<1>4. turn' \in {"suspending", "holding"} => policy'.suspends
  <2>1. ASSUME NEW s \in Specialists, SpecialistStep(s) \/ Crash(s) PROVE turn' = turn
    BY <2>1 DEF SpecialistStep, HandleProposal, HandleEvent, MaybeVote, Crash
  <2>2. CASE ObserveSignal \/ Deadline
    BY <1>0, <2>2 DEF ObserveSignal, Deadline, BeginCommit, UnanimityInv
  <2>3. CASE Suspend \/ Resume \/ Vote \/ Commit \/ Cancel
    BY <1>0, <2>3 DEF Suspend, Resume, Vote, Commit, Cancel, UnanimityInv
  <2>4. CASE ObserveProposal \/ ObserveOwn \/ Expire \/ UNCHANGED vars
    BY <1>0, <2>4 DEF ObserveProposal, ObserveOwn, Expire, vars, UnanimityInv
  <2> QED  BY <1>0, <2>1, <2>2, <2>3, <2>4 DEF Next, CoordinatorStep, UnanimityInv
<1>5. ASSUME policy.type = "unanimous", ~policy.suspends, decision'.action = "approve"
      PROVE  \A s \in Specialists : Confident(s, Len(log))'
  <2>1. CASE decision' = decision
    BY <1>0, <1>2, <1>5, <2>1 DEF UnanimityInv
  <2>2. ASSUME NEW k \in 0 .. Len(log), \A i \in 1 .. k : log[i].type # "Vote",
               decision' = decide(policy, SignalsUpTo(k)),
               isQuorumMet(policy, SignalsUpTo(k), Expected)
        PROVE  \A s \in Specialists : Confident(s, Len(log))'
    <3>1. Speakers(k) = Specialists
      BY <1>5, <2>2, UnanimousQuorum
    <3>2. \A s \in Specialists : Confident(s, k)
      BY <1>0, <1>5, <2>2, <3>1, ConfidentSignals
    <3> QED  BY <1>2, <3>2
  <2>3. CASE ObserveSignal /\ decision' # decision
    <3> DEFINE heard == Observe(signals, log[read[Coordinator] + 1])
    <3>1. signals' = heard /\ UNCHANGED log /\ CommitsOn(heard) /\ BeginCommit(heard)
      BY <2>3 DEF ObserveSignal
    <3> HIDE DEF heard
    <3>2. /\ n + 1 \in 1 .. Len(log) /\ n + 1 \in 0 .. Len(log)
          /\ read'[Coordinator] = n + 1 /\ log[n + 1].sender \in Specialists
      BY <1>0, <1>1, <2>3, SenderType DEF ObserveSignal, Ignored, TypeOK
    <3>3. heard = SignalsUpTo(n + 1)
      <4>1. SignalsUpTo(read[Coordinator])' = SignalsUpTo(n + 1)'
        BY <3>2
      <4>2. SignalsUpTo(n + 1)' = SignalsUpTo(n + 1)
        BY <1>0, <3>2, SaidStays
      <4> QED  BY <3>1, <4>1, <4>2 DEF SignalsInv
    <3>4. ASSUME NEW i \in 1 .. n + 1 PROVE log[i].type # "Vote"
      <4>1. ~committed
        BY <3>1 DEF CommitsOn
      <4>2. CASE i = n + 1
        BY <1>1, <3>2, <4>1, <4>2, NoVoteHandled
      <4>3. CASE i # n + 1
        <5>1. i \in 1 .. read[Coordinator]
          BY <1>1, <4>3
        <5> QED  BY <4>1, <5>1, VotesSeenLate DEF CommitsBeforeItSeesAVote
      <4> QED  BY <4>2, <4>3
    <3>5. /\ isQuorumMet(policy, SignalsUpTo(n + 1), Expected)
          /\ decision' = decide(policy, SignalsUpTo(n + 1))
      BY <1>5, <3>1, <3>3 DEF CommitsOn, BeginCommit
    <3> QED  BY <2>2, <3>2, <3>4, <3>5
  <2>4. CASE Deadline /\ decision' # decision
    <3>1. /\ isQuorumMet(policy, signals, Expected) /\ BeginCommit(signals)
          /\ waitTimer = "armed"
      BY <2>4 DEF Deadline
    <3>2. signals = SignalsUpTo(n)
      BY <1>1 DEF SignalsInv
    <3>3. ASSUME NEW i \in 1 .. n PROVE log[i].type # "Vote"
      BY <1>1, <3>1, VotesSeenLate DEF CommitsBeforeItSeesAVote, UnanimityInv
    <3>4. /\ isQuorumMet(policy, SignalsUpTo(n), Expected)
          /\ decision' = decide(policy, SignalsUpTo(n))
      BY <1>5, <3>1, <3>2 DEF BeginCommit
    <3> QED  BY <2>2, <3>3, <3>4
  <2>5. CASE Suspend \/ Resume
    BY <1>5, <2>5 DEF Suspend, Resume, UnanimityInv
  <2>6. ASSUME NEW s \in Specialists, SpecialistStep(s) \/ Crash(s) PROVE decision' = decision
    BY <2>6 DEF SpecialistStep, HandleProposal, HandleEvent, MaybeVote, Crash
  <2>7. CASE ObserveProposal \/ ObserveOwn \/ Vote \/ Commit \/ Cancel \/ Expire \/ UNCHANGED vars
    BY <2>1, <2>7 DEF ObserveProposal, ObserveOwn, Vote, Commit, Cancel, Expire, vars
  <2> QED  BY <2>1, <2>3, <2>4, <2>5, <2>6, <2>7 DEF Next, CoordinatorStep
<1> QED  BY <1>0, <1>3, <1>4, <1>5 DEF UnanimityInv

(* A session starts without signals, commitment or decision. *)
LEMMA InitJInv == Init => JInv
<1> SUFFICES ASSUME Init PROVE JInv
  OBVIOUS
<1>1. IInv
  BY InitIInv
<1>2. SignalsInv
  <2>1. read[Coordinator] = 0 /\ signals = [p \in {} |-> {}]
    BY DEF Init, Participants
  <2>2. Speakers(0) = {}
    BY DEF Speakers, SaidBy
  <2>3. SignalsUpTo(0) = [s \in {} |-> SignalOf(log[Max(SaidBy(s, 0))])]
    BY <2>2 DEF SignalsUpTo
  <2> QED  BY <2>1, <2>3 DEF SignalsInv
<1>3. TurnInv /\ UnanimityInv
  BY DEF Init, TurnInv, UnanimityInv, NoDecision
<1>4. CommitmentIsJustified
  <2>1. Len(log) = 1 /\ log[1].type = "Proposal"
    BY DEF Init, Envelope
  <2>2. \A i \in 1 .. Len(log) : i = 1
    BY <2>1
  <2> QED  BY <2>1, <2>2 DEF CommitmentIsJustified
<1> QED  BY <1>1, <1>2, <1>3, <1>4 DEF JInv

LEMMA JInvStep == JInv /\ [Next]_vars => JInv'
<1> SUFFICES ASSUME JInv, [Next]_vars PROVE JInv'
  OBVIOUS
<1>1. IInv /\ SignalsInv /\ TurnInv /\ CommitmentIsJustified /\ UnanimityInv
  BY DEF JInv
<1>2. IInv'
  BY <1>1, IInvStep
<1>3. log' = log \/ \E e \in EnvelopeType : Appends(e)
  BY <1>1, LogStep DEF IInv
<1>4. SignalsInv'
  BY <1>1, <1>3, SignalsInvStep
<1> QED  BY <1>1, <1>2, <1>3, <1>4, TurnInvStep, CommitmentStep, UnanimityStep DEF JInv

(* The commit keeps its invariant, for every number of specialists.          *)
THEOREM CommitInvariance == Spec => []JInv
  BY InitJInv, JInvStep, PTL DEF Spec

(* Every commitment in the log was decided by the policy on what the log     *)
(* said at some earlier moment, with a quorum and with everybody or past the *)
(* deadline: neither the RPCs of the commit nor messages that arrive during  *)
(* them put a decision there that the signals do not bear out.               *)
THEOREM CommitmentsHaveGrounds == Spec => []CommitmentIsJustified
<1>1. JInv => CommitmentIsJustified
  BY DEF JInv
<1> QED  BY <1>1, CommitInvariance, PTL

(* Without the suspend demo a session resolved with "approve" under a        *)
(* unanimous policy has an evaluation APPROVE above the floor from every     *)
(* specialist: no vote has stood in for one.                                 *)
THEOREM ConfidentUnanimity == Spec => []UnanimousApprovalIsConfident
<1>1. JInv => UnanimousApprovalIsConfident
  BY DEF JInv, UnanimityInv, Confident, UnanimousApprovalIsConfident
<1> QED  BY <1>1, CommitInvariance, PTL
=============================================================================
