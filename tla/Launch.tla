------------------------------- MODULE Launch -------------------------------
(***************************************************************************)
(* A request from its compilation to the opinions of its agents:             *)
(* ExampleRunService.run up to the attach, the attach of each agent, and the *)
(* analysis each specialist makes when the initiator has opened the session. *)
(* How spawns fail and children exit is AgentHosting's subject, what the     *)
(* session makes of the opinions Deliberation's.                            *)
(*                                                                         *)
(* The operator's side is a record: env, the environment of the service;     *)
(* allowLlm, the PLAYGROUND_ALLOW_LLM switch; installed, the agent           *)
(* frameworks installed; agents, the agent catalogue by agentRef; callback,  *)
(* the cancel callback settings.                                            *)
(***************************************************************************)
EXTENDS LaunchCompiler, AgentLaunch, Analyses, PolicyStrategy

CONSTANTS Registry,   \* the scenario versions by reference
          Operators,  \* the ways the service is deployed
          Requests,   \* the requests
          LlmReplies, \* the opinions a reply of an LLM may hold
          Offsets,    \* the hash of a run and a participant, by participant
          Grid        \* the values each scored input is compared over

-----------------------------------------------------------------------------
(* What the packs, the requests and the deployments keep to *)

Flags == {"isVipCustomer", "isHighValuePolicy"}

(* The kinds a pack's schema gives an input, and the values of those kinds.   *)
KindsOf(f) == CASE f \in Flags -> {"boolean"}
                [] f = "incidentSeverity" -> {"string"}
                [] OTHER -> {"number", "integer"}

ValuesOf(f) == CASE f \in Flags -> BOOLEAN
                 [] f = "incidentSeverity" -> DOMAIN CLAIMS_SEVERITY_SCORES
                 [] OTHER -> Int

(* A number, or a flag, is one. *)
Coherent(node) == /\ node.kind \in {"number", "integer"} => node.is \in Int
                  /\ node.kind = "boolean" => node.is \in BOOLEAN

(* The least confidence of a rule-based opinion of a pack's specialists that  *)
(* approves or opposes.                                                     *)
LeastConfidence(pack) == IF pack = "fraud" THEN 72 ELSE 60

(* A hint of a pack, or of a template, is one of the rule schema, and the     *)
(* confidence floor is one the rule-based opinions reach.                    *)
HintOf(pack, name, node) ==
  Given(node) =>
    node.is \in CASE name = "type" -> PolicyTypes
                  [] name = "threshold" -> 0 .. 100
                  [] name \in {"vetoEnabled", "criticalSeverityVetoes"} -> BOOLEAN
                  [] name = "vetoThreshold" -> Nat \ {0}
                  [] name = "minimumConfidence" -> 0 .. LeastConfidence(pack)

HintNames == {"type", "threshold", "vetoEnabled", "criticalSeverityVetoes", "vetoThreshold",
              "minimumConfidence"}

(* The launch of a scenario, or what a template puts over it.                *)
LaunchDocument(pack, doc) ==
  /\ DOMAIN doc \subseteq Seq(STRING)
  /\ \A p \in DOMAIN doc : /\ doc[p].kind # "absent"
                          /\ \A n \in 0 .. Len(p) : SubSeq(p, 1, n) \in DOMAIN doc
  /\ Root(doc).kind = "object"
  /\ At(doc, <<"policyHints">>).kind \in {"object", "absent"}
  /\ At(doc, <<"contextTemplate">>).kind \in {"object", "absent"}
  /\ LET all == At(doc, <<"participants">>)
     IN all.kind # "absent" => all.kind = "array" /\ all.is \in Nat
  /\ \A name \in HintNames : HintOf(pack, name, At(doc, <<"policyHints", name>>))

(* Every scenario belongs to a domain the agents know, requires the inputs    *)
(* their analyses read and hands each of them on in its context; a template   *)
(* takes none of that back.                                                 *)
ScenarioOf(pack, scenario) ==
  /\ \A f \in FieldsOf(pack) :
       /\ f \in scenario.schema.required \cap DOMAIN scenario.schema.properties
       /\ scenario.schema.properties[f].type \in KindsOf(f)
       /\ f = "incidentSeverity" =>
            /\ scenario.schema.properties[f].values # {}
            /\ scenario.schema.properties[f].values \subseteq ValuesOf(f)
       /\ Coherent(scenario.schema.properties[f].default)
       /\ At(scenario.launch, <<"contextTemplate", f>>) = Node("exact", f)
  /\ LaunchDocument(pack, scenario.launch)
  /\ At(scenario.launch, <<"participants">>).kind = "array"
  /\ \A t \in DOMAIN scenario.templates :
       /\ \A f \in DOMAIN scenario.templates[t].defaults :
            Coherent(scenario.templates[t].defaults[f])
       /\ LET own == scenario.templates[t].launch
          IN IF Given(Root(own))
               THEN /\ LaunchDocument(pack, own)
                    /\ \A f \in FieldsOf(pack) : <<"contextTemplate", f>> \notin DOMAIN own
               ELSE DOMAIN own \subseteq {<<>>}

ASSUME RegistryAssumption ==
  \A ref \in DOMAIN Registry :
    \E pack \in Domains : ref.pack = <<pack>> /\ ScenarioOf(pack, Registry[ref])

ASSUME RequestAssumption ==
  \A r \in Requests : /\ r.scenarioRef \in Seq(STRING)
                      /\ \A f \in DOMAIN r.inputs : Coherent(r.inputs[f])

ASSUME OperatorAssumption ==
  \A o \in Operators : \A r \in DOMAIN o.agents : o.agents[r].framework \in HostAdapters

ASSUME GridAssumption == \A f \in DOMAIN Grid : Grid[f] \subseteq ValuesOf(f)

ASSUME NoneAssumption == \A f \in FieldNames : None \notin ValuesOf(f)

-----------------------------------------------------------------------------
VARIABLES operator,  \* fixed for a behaviour, as the request is
          request,
          stage,     \* requested, refused or launching
          compiled,  \* what compile returned, with what the service added
          agents,    \* the agents attached so far
          opinions   \* what the analysis of each specialist returned

vars == <<operator, request, stage, compiled, agents, opinions>>

Init ==
  /\ operator \in Operators
  /\ request \in Requests
  /\ stage = "requested"
  /\ compiled = Absent
  /\ agents = [p \in {} |-> Absent]
  /\ opinions = [p \in {} |-> Absent]

-----------------------------------------------------------------------------
(* ExampleRunService.run *)

applyAgentExecution(launch) ==
  IF launch.agentExecution = Text("deterministic") \/ ~operator.allowLlm
    THEN "deterministic" ELSE "llm"

(* Every agentRef has to be in the agent catalogue before anything starts.   *)
Resolved(launch) == \A i \in DOMAIN launch.agentRefs : launch.agentRefs[i] \in DOMAIN operator.agents

Result == compile(Registry, request)

Refuse ==
  /\ stage = "requested"
  /\ Result.error = "" => ~Resolved(Result.launch)
  /\ stage' = "refused"
  /\ UNCHANGED <<operator, request, compiled, agents, opinions>>

Compile ==
  /\ stage = "requested"
  /\ Result.error = "" /\ Resolved(Result.launch)
  /\ stage' = "launching"
  /\ compiled' = [Result.launch EXCEPT
                    !.agentExecution = applyAgentExecution(Result.launch),
                    !.metadata.agentExecution = Text(applyAgentExecution(Result.launch))]
  /\ UNCHANGED <<operator, request, agents, opinions>>

-----------------------------------------------------------------------------
(* ProcessExampleAgentHostProvider.attach, for one agent after the other, the *)
(* initiator first.                                                         *)

Participants == {compiled.participants[i] : i \in DOMAIN compiled.participants}
Waiting == Participants \ DOMAIN agents

IsInitiator(p) == compiled.initiatorParticipantId.kind = "string"
                  /\ compiled.initiatorParticipantId.is = p

IsNext(p) ==
  \/ IsInitiator(p)
  \/ /\ ~\E q \in Waiting : IsInitiator(q)
     /\ \E i \in DOMAIN compiled.participants :
          /\ compiled.participants[i] = p
          /\ \A j \in 1 .. i - 1 : compiled.participants[j] \notin Waiting

(* The agent's entry in the catalogue: a framework and a manifest. *)
Definition(p) ==
  operator.agents[compiled.agentRefs[CHOOSE i \in DOMAIN compiled.participants :
                                       compiled.participants[i] = p]]

Bootstrap(p) ==
  buildBootstrapPayload(compiled, p, <<"token of", p>>,
                        allocateCancelCallback(operator.callback, Offsets[p]))

Attach(p) ==
  /\ stage = "launching"
  /\ p \in Waiting /\ IsNext(p)
  /\ LET definition == Definition(p)
         env == launchEnv(operator.env, definition, Bootstrap(p),
                          compiled.agentExecution = "deterministic")
     IN agents' = Over([q \in {p} |->
          IF validate(definition.manifest)
            THEN [started |-> TRUE, framework |-> definition.framework, bootstrap |-> Bootstrap(p),
                  env |-> spawnEnv(env, <<"bootstrap file of", p>>)]
            ELSE [started |-> FALSE]], agents)
  /\ UNCHANGED <<operator, request, stage, compiled, opinions>>

-----------------------------------------------------------------------------
(* The agents *)

Started == {p \in DOMAIN agents : agents[p].started}
Specialists == {p \in Started : agents[p].framework # "custom"}

SessionOpened == \E p \in Started : agents[p].bootstrap.initiator

(* What a worker finds as its session context. *)
Context(p) == IF Root(agents[p].bootstrap.session_context).kind = "object"
                THEN Members(agents[p].bootstrap.session_context) ELSE [f \in {} |-> Absent]

Installed(p) == agents[p].framework \in operator.installed

Analyse(p) ==
  /\ SessionOpened
  /\ p \in Specialists \ DOMAIN opinions
  /\ \E o \in Analysis(agents[p].framework, Installed(p), agents[p].env,
                       agents[p].bootstrap.scenario_ref, Context(p), LlmReplies) :
       opinions' = Over([q \in {p} |-> o], opinions)
  /\ UNCHANGED <<operator, request, stage, compiled, agents>>

Next ==
  \/ Refuse \/ Compile
  \/ stage = "launching" /\ \E p \in Waiting : Attach(p)
  \/ \E p \in Started : Analyse(p)

Spec == Init /\ [][Next]_vars

-----------------------------------------------------------------------------
(* The coordinator: createPolicyStrategy over the hints of its bootstrap.    *)

Hint(hints, name, default) == IF Given(At(hints, <<name>>)) THEN At(hints, <<name>>).is ELSE default

createPolicyStrategy(hints) ==
  [type |-> Hint(hints, "type", "none"),
   num |-> Hint(hints, "threshold", 50), den |-> 100,
   vetoEnabled |-> Hint(hints, "vetoEnabled", Hint(hints, "criticalSeverityVetoes", FALSE)),
   vetoThreshold |-> Hint(hints, "vetoThreshold", 1),
   minimumConfidence |-> Hint(hints, "minimumConfidence", 0)]

Signals(said) ==
  [p \in DOMAIN said |-> [type |-> "Evaluation", says |-> said[p].recommendation,
                          confidence |-> said[p].confidence]]

-----------------------------------------------------------------------------
(* Properties *)

Scenario == Registry[parseScenarioRef(request.scenarioRef).is]
Template == IF request.templateId = "" THEN NoTemplate ELSE Scenario.templates[request.templateId]
Pack == parseScenarioRef(request.scenarioRef).is.pack[1]

(* What the request says of an input, else the template, else the schema.    *)
InputOf(f) == CASE f \in DOMAIN request.inputs -> request.inputs[f].is
                [] f \notin DOMAIN request.inputs /\ f \in DOMAIN Template.defaults ->
                     Template.defaults[f].is
                [] OTHER -> Scenario.schema.properties[f].default.is

FieldsSeen(p) == Fields(agents[p].framework, Installed(p), Context(p))

FieldsGiven == [f \in FieldNames |-> IF f \in FieldsOf(Pack) THEN InputOf(f) ELSE None]

(* The coordinator decides by the hints of the template, and by those of the *)
(* scenario where the template is silent: a template that changes one hint   *)
(* loses none of the others.                                                *)
HintsMergeOneByOne ==
  \A p \in Started :
    LET hints == agents[p].bootstrap.policy_hints
        own == Under(Template.launch, "policyHints")
        base == Under(Scenario.launch, "policyHints")
    IN Root(own).kind \in {"object", "absent"} =>
         \A name \in HintNames :
           At(hints, <<name>>) = IF <<name>> \in DOMAIN own THEN own[<<name>>] ELSE At(base, <<name>>)

(* Every specialist of an accepted run scores the run's own inputs, in the    *)
(* domain of its pack and with nothing missing: through the defaults, the    *)
(* substitution, the bootstrap file, the mapper and the state of the graph.  *)
InputsReachTheScorers ==
  \A p \in Specialists :
    /\ detect_domain(agents[p].bootstrap.scenario_ref) = Pack
    /\ \A f \in FieldsOf(Pack) : FieldsSeen(p)[f] = InputOf(f)

AsksForDeterministic ==
  LET own == At(Template.launch, <<"agentExecution">>)
      base == At(Scenario.launch, <<"agentExecution">>)
  IN (IF own.kind # "absent" THEN own ELSE base) = Text("deterministic")

(* A run whose template asks for it, and every run of a service that does     *)
(* not allow LLMs, is rule-based: each opinion is the one the rules give for  *)
(* the inputs, whatever keys the service and the manifests hold and whichever *)
(* frameworks are installed, and the run record says so.                     *)
DeterministicRunsAreRuleBased ==
  stage = "launching" /\ (AsksForDeterministic \/ ~operator.allowLlm) =>
    /\ compiled.metadata.agentExecution = Text("deterministic")
    /\ \A p \in DOMAIN opinions :
         opinions[p] = _score_result(agents[p].framework, Pack, FieldsGiven)

Merit(f, v) ==
  CASE f = "isVipCustomer" -> IF v THEN 1 ELSE 0
    [] f = "isHighValuePolicy" -> IF v THEN 0 ELSE 1
    [] f = "incidentSeverity" -> CLAIMS_SEVERITY_SCORES[v]
    [] f \in {"transactionAmount", "priorChargebacks", "debtToIncomeRatio", "priorDefaults",
              "priorClaims"} -> 0 - v
    [] OTHER -> v

Rank(decision) == CASE decision.action = "approve" -> 2
                    [] decision.action = "step_up" -> 1
                    [] decision.action = "decline" -> 0

(* What the coordinator decides once it has heard the rule-based opinions of *)
(* every specialist on the given fields.                                    *)
Verdict(fields) ==
  decide(createPolicyStrategy(compiled.policyHints),
         Signals([p \in Specialists |-> _score_result(agents[p].framework, Pack, fields)]))

(* A better case never comes off worse: improving one input of a run (more    *)
(* trust, a better credit score, fewer claims ...) never makes the verdict    *)
(* less favourable, through all the scorers and under the policy of the run.  *)
BetterCaseNeverWorse ==
  stage = "launching" /\ Waiting = {} /\ DOMAIN opinions = {} =>
    \A f \in FieldsOf(Pack) \cap DOMAIN Grid : \A v \in Grid[f] :
      Merit(f, v) > Merit(f, InputOf(f)) =>
        Rank(Verdict([FieldsGiven EXCEPT ![f] = v])) >= Rank(Verdict(FieldsGiven))
=============================================================================
