---------------------------- MODULE AgentLaunch -----------------------------
(***************************************************************************)
(* How an agent process is prepared: its bootstrap payload                  *)
(* (src/hosting/process-example-agent-host.provider.ts, cancel-callback.ts), *)
(* the manifest checks and the environment of its host adapter               *)
(* (src/hosting/adapters).                                                  *)
(*                                                                         *)
(* An environment is a function from names to values.  The command line,     *)
(* the working directory and the variables that only name addresses and      *)
(* log levels are left out.                                                 *)
(***************************************************************************)
EXTENDS Integers

Over(over, base) ==
  [k \in DOMAIN over \cup DOMAIN base |-> IF k \in DOMAIN over THEN over[k] ELSE base[k]]

LLM_PROVIDER_ENV_KEYS ==
  {"OPENAI_API_KEY", "AZURE_OPENAI_API_KEY", "ANTHROPIC_API_KEY", "GOOGLE_API_KEY",
   "GEMINI_API_KEY", "MISTRAL_API_KEY", "COHERE_API_KEY", "GROQ_API_KEY"}

withoutLlmProviderKeys(env) ==
  LET marked == Over([MACP_AGENT_EXECUTION |-> "deterministic"], env)
  IN [k \in DOMAIN marked \ LLM_PROVIDER_ENV_KEYS |-> marked[k]]

-----------------------------------------------------------------------------
(* The bootstrap payload *)

NoCallback == [host |-> "", port |-> -1]

(* offset is the hash of the run and the participant, 0 .. 1023. *)
nextCancelCallbackPort(base, offset) == base + offset

allocateCancelCallback(config, offset) ==
  IF config.host = "" THEN NoCallback
  ELSE [host |-> config.host,
        port |-> IF config.portBase <= 0 THEN 0
                 ELSE nextCancelCallbackPort(config.portBase, offset)]

(* token is what the minter answered for this participant (TokenMinter).     *)
buildBootstrapPayload(compiled, participant, token, callback) ==
  [participant_id |-> participant,
   auth_token |-> token,
   participants |-> compiled.participants,
   (* whether it carries the session_start and kickoff of the initiator *)
   initiator |-> /\ compiled.initiatorParticipantId.kind = "string"
                 /\ compiled.initiatorParticipantId.is = participant,
   cancel_callback |-> callback,
   scenario_ref |-> compiled.scenarioRef,
   policy_hints |-> compiled.policyHints,
   session_context |-> compiled.sessionContext]

-----------------------------------------------------------------------------
(* The adapters.  A manifest is [id, name, framework, entrypoint, config,    *)
(* invokeMode, env]; entrypoint is [type, value] with "" for what is missing, *)
(* config the names frameworkConfig gives, or Unset if there is none,        *)
(* invokeMode the value it gives that name, "" if none.                      *)

Unset == {"(unset)"}

PythonManifest(manifest, framework, needed) ==
  /\ manifest.framework = framework
  /\ manifest.entrypoint.value # ""
  /\ manifest.entrypoint.type \in {"", "python_module", "python_file"}
  /\ manifest.config # Unset => needed \subseteq manifest.config

validateLangChain(manifest) ==
  /\ PythonManifest(manifest, "langchain", {"factory", "inputMapper", "outputMapper"})
  /\ manifest.config # Unset => manifest.invokeMode \in {"", "invoke", "stream", "batch"}

validateLangGraph(manifest) ==
  PythonManifest(manifest, "langgraph", {"graphFactory", "inputMapper", "outputMapper"})

validateCrewAI(manifest) ==
  PythonManifest(manifest, "crewai", {"crewFactory", "inputMapper", "outputMapper"})

validateCustom(manifest) == manifest.framework = "custom" /\ manifest.entrypoint.value # ""

(* The adapters the registry's constructor registers. *)
HostAdapters == {"langgraph", "langchain", "crewai", "custom"}

(* ManifestValidator.validate *)
validate(manifest) ==
  /\ "" \notin {manifest.id, manifest.name, manifest.framework, manifest.entrypoint.type,
               manifest.entrypoint.value}
  /\ manifest.framework \in HostAdapters
  /\ CASE manifest.framework = "langchain" -> validateLangChain(manifest)
       [] manifest.framework = "langgraph" -> validateLangGraph(manifest)
       [] manifest.framework = "crewai" -> validateCrewAI(manifest)
       [] manifest.framework = "custom" -> validateCustom(manifest)

buildAgentEnv(bootstrap, framework) ==
  [MACP_BOOTSTRAP_FILE |-> "",
   MACP_FRAMEWORK |-> framework,
   MACP_PARTICIPANT_ID |-> bootstrap.participant_id,
   MACP_RUNTIME_TOKEN |-> bootstrap.auth_token,
   MACP_CANCEL_CALLBACK_HOST |-> bootstrap.cancel_callback.host,
   MACP_CANCEL_CALLBACK_PORT |-> bootstrap.cancel_callback.port]

Entrypoint(manifest) == [EXAMPLE_AGENT_ENTRYPOINT |-> manifest.entrypoint.value]
Unbuffered == [PYTHONUNBUFFERED |-> "1"]

PythonEnv(processEnv, manifest, bootstrap, framework) ==
  Over(Entrypoint(manifest),
       Over(buildAgentEnv(bootstrap, framework),
            Over(Unbuffered, Over(manifest.env, processEnv))))

prepareLangChain(processEnv, manifest, bootstrap) ==
  PythonEnv(processEnv, manifest, bootstrap, "langchain")

prepareLangGraph(processEnv, manifest, bootstrap) ==
  PythonEnv(processEnv, manifest, bootstrap, "langgraph")

prepareCrewAI(processEnv, manifest, bootstrap) ==
  PythonEnv(processEnv, manifest, bootstrap, "crewai")

prepareCustom(processEnv, manifest, bootstrap) ==
  LET env == Over(Entrypoint(manifest),
                  Over(buildAgentEnv(bootstrap, "custom"), Over(manifest.env, processEnv)))
  IN IF manifest.entrypoint.type = "node_file" THEN env ELSE Over(Unbuffered, env)

prepareLaunch(framework, processEnv, manifest, bootstrap) ==
  CASE framework = "langchain" -> prepareLangChain(processEnv, manifest, bootstrap)
    [] framework = "langgraph" -> prepareLangGraph(processEnv, manifest, bootstrap)
    [] framework = "crewai" -> prepareCrewAI(processEnv, manifest, bootstrap)
    [] framework = "custom" -> prepareCustom(processEnv, manifest, bootstrap)

-----------------------------------------------------------------------------
(* Mutation: the keys are dropped from the service's own environment only.   *)
LaunchEnvOfStrippedHost(processEnv, definition, bootstrap, deterministic) ==
  prepareLaunch(definition.framework,
                IF deterministic THEN withoutLlmProviderKeys(processEnv) ELSE processEnv,
                definition.manifest, bootstrap)

(* launchViaAdapter: the environment the child is prepared with.  The         *)
(* definition of the agent catalogue chooses the adapter that prepares, the   *)
(* manifest the one that validates.                                          *)
launchEnv(processEnv, definition, bootstrap, deterministic) ==
  LET env == prepareLaunch(definition.framework, processEnv, definition.manifest, bootstrap)
  IN IF deterministic THEN withoutLlmProviderKeys(env) ELSE env

(* LaunchSupervisor.launch adds the bootstrap file. *)
spawnEnv(env, bootstrapFile) == Over([MACP_BOOTSTRAP_FILE |-> bootstrapFile], env)
=============================================================================
