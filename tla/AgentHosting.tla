---------------------------- MODULE AgentHosting ----------------------------
(***************************************************************************)
(* The launch of one run: ExampleRunService.run from the moment it submits  *)
(* the run to the control-plane and attaches the agents                     *)
(* (src/launch/example-run.service.ts), the attach loop of HostingService,  *)
(* the process host provider and the LaunchSupervisor.                      *)
(*                                                                         *)
(* The service is one JavaScript process; a step is one turn of its event   *)
(* loop, or something the operating system does to a child between turns.   *)
(* A child that exited is noticed only when its exit event is delivered.    *)
(* Nothing but the shutdown of the service stops a child (stop and stopRun  *)
(* have no caller).  A run has a fresh session id, so a (run, participant)   *)
(* pair is attached at most once.                                           *)
(***************************************************************************)
EXTENDS Naturals, Sequences, FiniteSets

CONSTANTS Bindings,  \* the participant bindings, in declaration order
          Initiator  \* the participant that opens the session

ASSUME BindingsAssumption ==
  /\ Bindings \in Seq({Bindings[i] : i \in DOMAIN Bindings})
  /\ \A i, j \in DOMAIN Bindings : Bindings[i] = Bindings[j] => i = j
  /\ Initiator \in {Bindings[i] : i \in DOMAIN Bindings}

VARIABLES at,           \* which binding of the spawn order is being attached
          step,         \* minting its token, confirming its spawn, or the loop has ended
          child,        \* the operating system's view of each agent process
          signalled,    \* the children that were sent SIGTERM
          health,       \* healthStatus of each supervised record
          processes,    \* the supervisor's map
          files,        \* whose bootstrap file (with its token) is on disk
          report,       \* the status attach returned for each participant
          submission,   \* the control-plane submission
          outcome,      \* what the request is answered
          destroyed     \* whether onModuleDestroy ran

vars == <<at, step, child, signalled, health, processes, files, report, submission, outcome,
          destroyed>>
processVars == <<child, signalled, health, processes, files>>

Participants == {Bindings[i] : i \in DOMAIN Bindings}

(* Mutation: the bindings are spawned as the scenario declares them. *)
declarationOrder(bindings) == bindings

(* Mutation: the initiator is put first and not taken out of its old place. *)
orderWithCopy(bindings) == <<Initiator>> \o bindings

orderForSpawn(bindings) ==
  LET initiatorIndex == CHOOSE i \in DOMAIN bindings : bindings[i] = Initiator
  IN  IF initiatorIndex = 1 THEN bindings
      ELSE <<bindings[initiatorIndex]>> \o SubSeq(bindings, 1, initiatorIndex - 1)
             \o SubSeq(bindings, initiatorIndex + 1, Len(bindings))

SpawnOrder == orderForSpawn(Bindings)
Current == SpawnOrder[at]
Attaching == at <= Len(SpawnOrder) /\ step \in {"minting", "confirming"}

Init ==
  /\ at = 1
  /\ step = "minting"
  /\ child = [p \in Participants |-> "none"]
  /\ signalled = {}
  /\ health = [p \in Participants |-> "unknown"]
  /\ processes = {}
  /\ files = {}
  /\ report = [p \in Participants |-> "none"]
  /\ submission = "sent"
  /\ outcome = "pending"
  /\ destroyed = FALSE

-----------------------------------------------------------------------------
(* The attach loop *)

(* One participant is settled: go on with the next one. *)
Attached(status) ==
  /\ report' = [report EXCEPT ![Current] = status]
  /\ at' = at + 1
  /\ step' = IF at = Len(SpawnOrder) THEN "finished" ELSE "minting"

(* A manifest that fails validation is reported and nothing is spawned.     *)
ManifestInvalid ==
  /\ Attaching /\ step = "minting"
  /\ Attached("resolved")
  /\ UNCHANGED <<processVars, submission, outcome, destroyed>>

(* A failed mint rejects the whole attach; the children already up stay up. *)
MintFails ==
  /\ Attaching /\ step = "minting"
  /\ step' = "rejected"
  /\ UNCHANGED <<at, processVars, report, submission, outcome, destroyed>>

(* The token has arrived: write the bootstrap file, spawn, supervise.       *)
Launch ==
  /\ Attaching /\ step = "minting"
  /\ files' = files \cup {Current}
  /\ \E c \in {"running", "broken"} : child' = [child EXCEPT ![Current] = c]
  /\ health' = [health EXCEPT ![Current] = "starting"]
  /\ processes' = processes \cup {Current}
  /\ step' = "confirming"
  /\ UNCHANGED <<at, signalled, report, submission, outcome, destroyed>>

(* What confirmSpawn makes of an event of child p. *)
ConfirmFails(p) ==
  IF step = "confirming" /\ p = Current
    THEN Attached("resolved")
    ELSE UNCHANGED <<at, step, report>>

(* The grace window ends with no event; a failed spawn reports its error at  *)
(* once, long before.                                                        *)
ConfirmWindow ==
  /\ Attaching /\ step = "confirming"
  /\ child[Current] # "broken"
  /\ Attached("bootstrapped")
  /\ UNCHANGED <<processVars, submission, outcome, destroyed>>

-----------------------------------------------------------------------------
(* The children and the supervisor's listeners *)

Exit(p) ==
  /\ child[p] = "running"
  /\ child' = [child EXCEPT ![p] = "exited"]
  /\ UNCHANGED <<at, step, signalled, health, processes, files, report, submission, outcome,
                 destroyed>>

(* Mutation: the bootstrap file of a child that exited stays on disk. *)
ExitEventKeepsFile(p) ==
  /\ child[p] = "exited" /\ health[p] # "stopped"
  /\ health' = [health EXCEPT ![p] = "stopped"]
  /\ processes' = processes \ {p}
  /\ ConfirmFails(p)
  /\ UNCHANGED <<child, signalled, files, submission, outcome, destroyed>>

ExitEvent(p) ==
  /\ child[p] = "exited" /\ health[p] # "stopped"
  /\ health' = [health EXCEPT ![p] = "stopped"]
  /\ files' = files \ {p}
  /\ processes' = processes \ {p}
  /\ ConfirmFails(p)
  /\ UNCHANGED <<child, signalled, submission, outcome, destroyed>>

(* Mutation: the confirmation does not listen for the error event. *)
ErrorEventUnheard(p) ==
  /\ child[p] = "broken" /\ health[p] # "unhealthy"
  /\ health' = [health EXCEPT ![p] = "unhealthy"]
  /\ processes' = processes \ {p}
  /\ IF step = "confirming" /\ p = Current
       THEN Attached("bootstrapped")
       ELSE UNCHANGED <<at, step, report>>
  /\ UNCHANGED <<child, signalled, files, submission, outcome, destroyed>>

(* A failed spawn: the record goes, the bootstrap file stays. *)
ErrorEvent(p) ==
  /\ child[p] = "broken" /\ health[p] # "unhealthy"
  /\ health' = [health EXCEPT ![p] = "unhealthy"]
  /\ processes' = processes \ {p}
  /\ ConfirmFails(p)
  /\ UNCHANGED <<child, signalled, files, submission, outcome, destroyed>>

StartupTimeout(p) ==
  /\ p \in processes
  /\ health[p] = "starting"
  /\ health' = [health EXCEPT ![p] = "healthy"]
  /\ UNCHANGED <<at, step, child, signalled, processes, files, report, submission, outcome,
                 destroyed>>

(* Mutation: the map is cleared before the loop that signals its records. *)
DestroyAfterClear ==
  /\ ~destroyed
  /\ destroyed' = TRUE
  /\ files' = files \ processes
  /\ processes' = {}
  /\ UNCHANGED <<at, step, child, signalled, health, report, submission, outcome>>

(* SIGTERM to the service: Nest runs the hook and then waits for the requests *)
(* in flight, whose attach loop goes on.                                     *)
onModuleDestroy ==
  /\ ~destroyed
  /\ destroyed' = TRUE
  /\ signalled' = signalled \cup processes
  /\ files' = files \ processes
  /\ processes' = {}
  /\ UNCHANGED <<at, step, child, health, report, submission, outcome>>

-----------------------------------------------------------------------------
(* ExampleRunService.run *)

(* submitRun never throws: null for every failure. *)
SubmissionAnswered ==
  /\ submission = "sent"
  /\ submission' \in {"registered", "null"}
  /\ UNCHANGED <<at, step, processVars, report, outcome, destroyed>>

(* Mutation: a submission that times out is left to its retry. *)
SubmissionHangs ==
  /\ submission = "sent"
  /\ step = "rejected"
  /\ submission' = "null"
  /\ UNCHANGED <<at, step, processVars, report, outcome, destroyed>>

SubmissionTimesOut ==
  /\ submission = "sent"
  /\ submission' = "null"
  /\ UNCHANGED <<at, step, processVars, report, outcome, destroyed>>

(* Both branches have settled: assertAllAgentsAttached. *)
Answer ==
  /\ outcome = "pending"
  /\ step \in {"finished", "rejected"}
  /\ submission # "sent"
  /\ outcome' = IF step = "finished" /\ \A p \in Participants : report[p] = "bootstrapped"
                  THEN "launched" ELSE "failed"
  /\ UNCHANGED <<at, step, processVars, report, submission, destroyed>>

-----------------------------------------------------------------------------
Next ==
  \/ ManifestInvalid \/ MintFails \/ Launch \/ ConfirmWindow
  \/ \E p \in Participants : Exit(p) \/ ExitEvent(p) \/ ErrorEvent(p) \/ StartupTimeout(p)
  \/ onModuleDestroy
  \/ SubmissionAnswered \/ SubmissionTimesOut
  \/ Answer

(* Mints settle (TokenMinter), timers fire and events are delivered.  No      *)
(* child exits because it must.                                              *)
Fairness ==
  /\ WF_vars(MintFails \/ Launch)
  /\ WF_vars(ConfirmWindow)
  /\ \A p \in Participants : WF_vars(ExitEvent(p)) /\ WF_vars(ErrorEvent(p))
  /\ WF_vars(SubmissionTimesOut)
  /\ WF_vars(Answer)

Spec == Init /\ [][Next]_vars
FairSpec == Spec /\ Fairness

-----------------------------------------------------------------------------
TypeOK ==
  /\ at \in 1 .. Len(Bindings) + 1
  /\ step \in {"minting", "confirming", "finished", "rejected"}
  /\ child \in [Participants -> {"none", "running", "broken", "exited"}]
  /\ signalled \subseteq Participants
  /\ health \in [Participants -> {"unknown", "starting", "healthy", "unhealthy", "stopped"}]
  /\ processes \subseteq Participants
  /\ files \subseteq Participants
  /\ report \in [Participants -> {"none", "bootstrapped", "resolved"}]
  /\ submission \in {"sent", "registered", "null"}
  /\ outcome \in {"pending", "launched", "failed"}
  /\ destroyed \in BOOLEAN

(* No agent subscribes to a session whose opener has not been dealt with:     *)
(* every other child is spawned after the initiator was confirmed or given    *)
(* up, wherever the scenario declares it.                                    *)
InitiatorComesFirst ==
  \A p \in Participants \ {Initiator} : child[p] # "none" => report[Initiator] # "none"

(* A launch that is answered with success really started every agent: none   *)
(* of the spawns failed, whenever their events arrived.                       *)
SuccessMeansEveryAgentStarted ==
  outcome = "launched" => \A p \in Participants : child[p] \in {"running", "exited"}

(* A token does not outlive its agent on disk, except where the spawn itself  *)
(* failed: once the exit of a child has been noticed its bootstrap file is    *)
(* gone, also when the exit came after the shutdown or inside the             *)
(* confirmation window.                                                      *)
TokenFilesFollowProcesses ==
  \A p \in files : p \in processes \/ child[p] = "broken"

(* The supervisor never loses a live child it has not told to stop, whatever  *)
(* the order of exits, errors, timeouts and the shutdown.                     *)
RunningChildrenAreSupervised ==
  \A p \in Participants : child[p] = "running" => p \in processes \cup signalled

(* The request is answered, whatever the children do and even when the        *)
(* control-plane never answers.                                              *)
RequestIsAnswered == <>(outcome # "pending")

-----------------------------------------------------------------------------
(* What the code says. *)

(* "one or more agents failed to attach and the session cannot proceed": when *)
(* the request fails, the agent that opens the session is not running.        *)
FailedLaunchHasNoSession ==
  outcome = "failed" => child[Initiator] # "running"
=============================================================================
