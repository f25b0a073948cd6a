---------------------------- MODULE Deliberation ----------------------------
(***************************************************************************)
(* One decision session: the risk-decider coordinator                      *)
(* (src/example-agents/runtime/risk-decider.worker.ts), the specialist      *)
(* workers (agents/{langchain,langgraph,crewai}_worker/main.py) and the     *)
(* runtime's session as those two use it.                                  *)
(*                                                                         *)
(* The runtime appends every accepted envelope to the session's log and     *)
(* streams the log, in order, to every participant; read[p] says how far p  *)
(* has handled it.  An RPC (evaluate, vote, commit, suspend, resume,        *)
(* cancel) is one step, the moment the runtime accepts or refuses it.       *)
(* The coordinator's handlers run to completion before the next event, but  *)
(* tryCommit is not awaited: its RPCs interleave with later events.  A      *)
(* specialist's handler is synchronous: no event is handled until its RPCs  *)
(* have returned.                                                          *)
(***************************************************************************)
EXTENDS PolicyStrategy, Sequences, FiniteSetsExt

CONSTANTS Specialists, \* the declared participants other than the coordinator
          Coordinator, \* the initiator
          Policies,    \* what a run may be launched with: the policy hints and
                       \* whether the customerId asks for the suspend demo
          Opinions,    \* what an analysis may return: [recommendation, confidence]
          MayCrash     \* the specialists that may crash

ASSUME DeliberationAssumption == /\ IsFiniteSet(Specialists)
                                 /\ Coordinator \notin Specialists
                                 /\ Opinions # {}
                                 /\ \A o \in Opinions : o.confidence \in Nat
                                 /\ \A p \in Policies : WellFormed(p) /\ p.suspends \in BOOLEAN
                                 /\ MayCrash \subseteq Specialists

VARIABLES policy,    \* the policy hints and the suspend demo, fixed for a run
          log,       \* the envelopes the runtime has accepted
          session,   \* the runtime's session state
          read,      \* how many envelopes each participant has handled
          agents,    \* the specialists' local state
          signals,   \* the coordinator's signals map
          committed, \* the coordinator's committed flag
          waitTimer, \* its deadline: off, armed, cleared or fired
          turn,      \* where its tryCommit is
          decision   \* what it decided

vars == <<policy, log, session, read, agents, signals, committed, waitTimer, turn, decision>>
runtimeVars == <<log, session>>
coordinatorVars == <<signals, committed, waitTimer, turn, decision>>

Participants == Specialists \cup {Coordinator}
Live == {"open", "suspended"}
NoDecision == [action |-> "none", vote |-> "none"]

Envelope(type, sender, says, confidence) ==
  [type |-> type, sender |-> sender, says |-> says, confidence |-> confidence]

Init ==
  /\ policy \in Policies
  /\ log = <<Envelope("Proposal", Coordinator, "", 0)>>
  /\ session = "open"
  /\ read = [p \in Participants |-> 0]
  /\ agents = [s \in Specialists |-> [pc |-> "waiting", opinion |-> CHOOSE o \in Opinions : TRUE,
                                      evaluated |-> "no", seen |-> {}]]
  /\ signals = [p \in {} |-> {}]
  /\ committed = FALSE
  /\ waitTimer = "off"
  /\ turn = "listening"
  /\ decision = NoDecision

-----------------------------------------------------------------------------
(* The runtime, as the workers describe it: an open session takes envelopes, *)
(* its first Vote ends the evaluation phase, and its TTL may run out.        *)

Voting == \E i \in 1 .. Len(log) : log[i].type = "Vote"
TakesEvaluations == session = "open" /\ ~Voting
TakesVotes == session = "open"

Expire ==
  /\ session \in Live
  /\ session' = "expired"
  /\ UNCHANGED <<policy, log, read, agents, coordinatorVars>>

-----------------------------------------------------------------------------
(* The specialists *)

EvalRecommendation(r) ==
  CASE r \in {"APPROVE", "ALLOW", "ACCEPT", "PASS"} -> "APPROVE"
    [] r \in {"REJECT", "DENY", "DECLINE", "FAIL"}  -> "REJECT"
    [] r \in {"BLOCK", "VETO"}                      -> "BLOCK"
    [] OTHER                                        -> "REVIEW"

StagedVote(r) == IF r \in {"APPROVE", "ALLOW", "REVIEW"} THEN "APPROVE" ELSE "REJECT"

(* handle_proposal: analyse, evaluate (a refusal is only logged), stage the  *)
(* vote.                                                                     *)
HandleProposal(s) ==
  /\ agents[s].pc = "waiting"
  /\ \E o \in Opinions :
       /\ log' = IF TakesEvaluations
                   THEN Append(log, Envelope("Evaluation", s, EvalRecommendation(o.recommendation),
                                             o.confidence))
                   ELSE log
       /\ agents' = [agents EXCEPT ![s] =
            [pc |-> "deliberating", opinion |-> o, seen |-> {},
             evaluated |-> IF TakesEvaluations THEN "accepted" ELSE "refused"]]
  /\ read' = [read EXCEPT ![s] = 1]
  /\ UNCHANGED <<policy, session, coordinatorVars>>

Peers(s) == Specialists \ {s}

(* Mutation: the vote follows the specialist's own evaluation at once. *)
ReadyAtOnce(s) == agents[s].pc = "deliberating"

(* The barrier of _maybe_vote. *)
ReadyToVote(s) == agents[s].pc = "deliberating" /\ Peers(s) \subseteq agents[s].seen

(* handle_evaluation for a peer's Evaluation; other events have no handler.  *)
HandleEvent(s) ==
  LET m == log[read[s] + 1] IN
  /\ agents[s].pc = "deliberating"
  /\ ~ReadyToVote(s)
  /\ read[s] < Len(log)
  /\ read' = [read EXCEPT ![s] = @ + 1]
  /\ agents' = IF m.type = "Evaluation" /\ m.sender # s
                 THEN [agents EXCEPT ![s].seen = @ \cup {m.sender}]
                 ELSE agents
  /\ UNCHANGED <<policy, runtimeVars, coordinatorVars>>

(* The rest of _maybe_vote: a vote the closed session refuses is dropped;    *)
(* either way the worker stops.                                              *)
MaybeVote(s) ==
  /\ ReadyToVote(s)
  /\ log' = IF TakesVotes
              THEN Append(log, Envelope("Vote", s, StagedVote(agents[s].opinion.recommendation), 0))
              ELSE log
  /\ agents' = [agents EXCEPT ![s] = [@ EXCEPT !.pc = "stopped"]]
  /\ UNCHANGED <<policy, session, read, coordinatorVars>>

Crash(s) ==
  /\ s \in MayCrash
  /\ agents[s].pc \in {"waiting", "deliberating"}
  /\ agents' = [agents EXCEPT ![s] = [@ EXCEPT !.pc = "crashed"]]
  /\ UNCHANGED <<policy, runtimeVars, read, coordinatorVars>>

-----------------------------------------------------------------------------
(* The coordinator's handlers *)

Expected == Cardinality(Specialists)

ObserveProposal ==
  /\ read[Coordinator] = 0
  /\ read' = [read EXCEPT ![Coordinator] = 1]
  /\ waitTimer' = "armed"
  /\ UNCHANGED <<policy, runtimeVars, agents, signals, committed, turn, decision>>

(* Mutation: the handlers do not look at the sender. *)
NothingIgnored(m) == FALSE

(* The handlers ignore the coordinator's own envelopes. *)
Ignored(m) == m.sender = Coordinator

ObserveOwn ==
  /\ read[Coordinator] \in 1 .. Len(log) - 1
  /\ Ignored(log[read[Coordinator] + 1])
  /\ read' = [read EXCEPT ![Coordinator] = @ + 1]
  /\ UNCHANGED <<policy, runtimeVars, agents, coordinatorVars>>

(* tryCommit past its guards: decide at once, or suspend first.              *)
BeginCommit(heard) ==
  /\ committed' = TRUE
  /\ turn' = IF policy.suspends THEN "suspending" ELSE "voting"
  /\ decision' = IF policy.suspends THEN NoDecision ELSE decide(policy, heard)

(* Mutation: the wait-all guard is gone, a quorum is enough.                 *)
CommitsAtQuorum(heard) ==
  ~committed /\ isQuorumMet(policy, heard, Expected)

CommitsOn(heard) ==
  /\ ~committed
  /\ Cardinality(DOMAIN heard) >= Expected
  /\ isQuorumMet(policy, heard, Expected)

(* The Evaluation and Vote handlers. *)
ObserveSignal ==
  LET m     == log[read[Coordinator] + 1]
      heard == Observe(signals, m)
  IN
  /\ read[Coordinator] \in 1 .. Len(log) - 1
  /\ ~Ignored(m)
  /\ read' = [read EXCEPT ![Coordinator] = @ + 1]
  /\ signals' = heard
  /\ \/ /\ CommitsOn(heard)
        /\ BeginCommit(heard)
        /\ waitTimer' = "cleared"
     \/ /\ ~CommitsOn(heard)
        /\ UNCHANGED <<committed, waitTimer, turn, decision>>
  /\ UNCHANGED <<policy, runtimeVars, agents>>

(* Mutation: a forced tryCommit without quorum returns and does nothing.     *)
DeadlineWithoutCancel ==
  /\ waitTimer = "armed"
  /\ waitTimer' = "fired"
  /\ \/ /\ DOMAIN signals # {} /\ isQuorumMet(policy, signals, Expected)
        /\ BeginCommit(signals)
     \/ /\ ~(DOMAIN signals # {} /\ isQuorumMet(policy, signals, Expected))
        /\ UNCHANGED <<committed, turn, decision>>
  /\ UNCHANGED <<policy, runtimeVars, read, agents, signals>>

(* The wait-all deadline: commit with the signals there are, or cancel when   *)
(* there is none or no quorum.                                               *)
Deadline ==
  /\ waitTimer = "armed"
  /\ waitTimer' = "fired"
  /\ \/ /\ DOMAIN signals # {} /\ isQuorumMet(policy, signals, Expected)
        /\ BeginCommit(signals)
     \/ /\ ~(DOMAIN signals # {} /\ isQuorumMet(policy, signals, Expected))
        /\ committed' = TRUE
        /\ turn' = "cancelling"
        /\ UNCHANGED decision
  /\ UNCHANGED <<policy, runtimeVars, read, agents, signals>>

-----------------------------------------------------------------------------
(* The rest of tryCommit, an RPC at a time *)

(* A suspend that fails (or whose answer is lost) is only logged. *)
Suspend ==
  /\ turn = "suspending"
  /\ \/ session = "open" /\ session' = "suspended"
     \/ UNCHANGED session
  /\ \/ /\ session' = "suspended"
        /\ turn' = "holding"
        /\ UNCHANGED decision
     \/ /\ turn' = "voting"
        /\ decision' = decide(policy, signals)
  /\ UNCHANGED <<policy, log, read, agents, signals, committed, waitTimer>>

(* After the hold, resume (or fail to) and decide on what is known by then.  *)
Resume ==
  /\ turn = "holding"
  /\ \/ session = "suspended" /\ session' = "open"
     \/ UNCHANGED session
  /\ turn' = "voting"
  /\ decision' = decide(policy, signals)
  /\ UNCHANGED <<policy, log, read, agents, signals, committed, waitTimer>>

(* A vote that fails is only logged. *)
Vote ==
  /\ turn = "voting"
  /\ \/ /\ TakesVotes
        /\ log' = Append(log, Envelope("Vote", Coordinator, decision.vote, 0))
     \/ UNCHANGED log
  /\ turn' = "committing"
  /\ UNCHANGED <<policy, session, read, agents, signals, committed, waitTimer, decision>>

(* The runtime's policy engine accepts or denies the commit; the answer to   *)
(* an accepted commit may be lost.                                           *)
Commit ==
  /\ turn = "committing"
  /\ \/ /\ session = "open"
        /\ log' = Append(log, Envelope("Commitment", Coordinator, decision.action, 0))
        /\ session' = "resolved"
        /\ turn' \in {"done", "cancelling"}
     \/ /\ turn' = "cancelling"
        /\ UNCHANGED runtimeVars
  /\ UNCHANGED <<policy, read, agents, signals, committed, waitTimer, decision>>

(* cancelSessionSafely: a cancel that fails is only logged. *)
Cancel ==
  /\ turn = "cancelling"
  /\ \/ session \in Live /\ session' = "cancelled" /\ turn' = "done"
     \/ turn' = "gaveUp" /\ UNCHANGED session
  /\ UNCHANGED <<policy, log, read, agents, signals, committed, waitTimer, decision>>

-----------------------------------------------------------------------------
CoordinatorStep == \/ ObserveProposal \/ ObserveOwn \/ ObserveSignal \/ Deadline
                   \/ Suspend \/ Resume \/ Vote \/ Commit \/ Cancel

SpecialistStep(s) == HandleProposal(s) \/ HandleEvent(s) \/ MaybeVote(s)

Next ==
  \/ CoordinatorStep
  \/ \E s \in Specialists : SpecialistStep(s) \/ Crash(s)
  \/ Expire

(* The coordinator's stream delivers, its timer fires and its RPCs return.   *)
(* Nothing is asked of the specialists, nor of the TTL.                      *)
Fairness ==
  /\ WF_vars(ObserveProposal)
  /\ WF_vars(Deadline)
  /\ WF_vars(Suspend) /\ WF_vars(Resume)
  /\ WF_vars(Vote) /\ WF_vars(Commit) /\ WF_vars(Cancel)

Spec == Init /\ [][Next]_vars
FairSpec == Spec /\ Fairness

-----------------------------------------------------------------------------
Sayings == {"", "APPROVE", "REJECT", "BLOCK", "REVIEW", "none", "approve", "reject",
            "step_up", "decline"}

EnvelopeType ==
  [type : {"Proposal", "Evaluation", "Vote", "Commitment"}, sender : Participants,
   says : Sayings, confidence : Nat]

TypeOK ==
  /\ policy \in Policies
  /\ log \in Seq(EnvelopeType)
  /\ session \in Live \cup {"resolved", "cancelled", "expired"}
  /\ read \in [Participants -> 0 .. Len(log)]
  /\ agents \in [Specialists -> [pc : {"waiting", "deliberating", "stopped", "crashed"},
                                 opinion : Opinions, evaluated : {"no", "accepted", "refused"},
                                 seen : SUBSET Specialists]]
  /\ DOMAIN signals \subseteq Specialists
  /\ committed \in BOOLEAN
  /\ waitTimer \in {"off", "armed", "cleared", "fired"}
  /\ turn \in {"listening", "suspending", "holding", "voting", "committing", "cancelling",
               "done", "gaveUp"}
  /\ decision \in {NoDecision, Approve, StepUp, Decline}

(* The barrier works: as long as the coordinator's deadline has not struck    *)
(* and the TTL has not run out, no specialist's evaluation comes too late,    *)
(* however the workers, their votes and the coordinator's vote interleave.    *)
NoEvaluationComesTooLate ==
  \A s \in Specialists : agents[s].evaluated = "refused" =>
                           waitTimer = "fired" \/ session = "expired"

(* The coordinator has begun its commit before it handles any vote: a vote    *)
(* follows all evaluations in the log, and the last of those starts the       *)
(* commit.  So without the suspend demo its decisions rest on evaluations     *)
(* alone.                                                                     *)
CommitsBeforeItSeesAVote ==
  \A i \in 1 .. read[Coordinator] : log[i].type = "Vote" => committed

(* What the log up to its k-th envelope says of a policy's signals.           *)
SaidBy(s, k) == {i \in 1 .. k : log[i].sender = s}
Speakers(k) == {s \in Specialists : SaidBy(s, k) # {}}
SignalsUpTo(k) == [s \in Speakers(k) |-> SignalOf(log[Max(SaidBy(s, k))])]

(* Every commitment is justified by the log: there was a moment before it at  *)
(* which the policy decided exactly this on what had been said, a quorum had  *)
(* spoken, and everybody had unless the deadline had struck.                  *)
CommitmentIsJustified ==
  \A i \in 1 .. Len(log) : log[i].type = "Commitment" =>
    \E k \in 1 .. i - 1 :
      /\ decide(policy, SignalsUpTo(k)).action = log[i].says
      /\ isQuorumMet(policy, SignalsUpTo(k), Expected)
      /\ Speakers(k) = Specialists \/ waitTimer = "fired"

(* Under unanimity, a session resolved with "approve" is one every specialist *)
(* evaluated APPROVE with enough confidence: a vote, which carries no          *)
(* confidence, never stands in for an evaluation below the floor.  (With the  *)
(* suspend demo votes may do so.)                                            *)
UnanimousApprovalIsConfident ==
  /\ policy.type = "unanimous" /\ ~policy.suspends
  /\ session = "resolved" /\ decision.action = "approve"
  => \A s \in Specialists :
       \E i \in 1 .. Len(log) : /\ log[i].type = "Evaluation" /\ log[i].sender = s
                                /\ log[i].says = "APPROVE"
                                /\ log[i].confidence >= policy.minimumConfidence

(* A session never waits for its TTL: whatever the specialists do, and if     *)
(* they do nothing, the coordinator ends it, unless its cancel call fails.    *)
SessionEnds == <>(session \notin Live \/ turn = "gaveUp")

-----------------------------------------------------------------------------
(* What a comment says. *)

(* "Preserves the approve/reject signal": a specialist does not vote against  *)
(* what its evaluation recommends.                                           *)
VotesFollowEvaluations ==
  \A i, j \in 1 .. Len(log) :
    /\ log[i].type = "Evaluation" /\ log[i].says = "APPROVE"
    /\ log[j].type = "Vote" /\ log[j].sender = log[i].sender
    => log[j].says = "APPROVE"
=============================================================================
