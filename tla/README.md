# Specifications of macp-playground

TLA+ modules of the multi-agent playground, model-checked with TLC on small
instances and, for the modules named `...Proofs`, proved with TLAPS for every
value of their constants. File and line references are to the repository.

## 1. The system

A launch request reaches the Node service (`src/`), which compiles a scenario
from YAML packs, submits the run to the control-plane as an observer, mints a
bearer token per agent and spawns one process per participant. The processes
(one TypeScript coordinator, three Python specialists) talk to the MACP runtime
over gRPC and settle one decision session. The runtime, the auth-service and the
control-plane are other repositories.

| Component | State | Operations | Interacts with | Hard part |
|---|---|---|---|---|
| `AuthTokenMinterService` | `cache`, `inflight` | `mintToken`, `mergeScopes` | host provider (caller), auth-service (HTTP) | concurrent calls, late answers, timeouts, expiry under clock skew |
| `RegistryIndexService` | `cachedSnapshot`, `cachedAt`, `loadingPromise` | `getSnapshot`, lookups, `invalidate` | compiler, catalogue (callers), `FileRegistryLoader` | shared loads, failing loads, invalidation during a load |
| `FileRegistryLoader`, include resolver | the maps of the walk (the packs on disk) | `loadAll`, `discoverScenarios`, `discoverVersions`, `discoverTemplates`, `loadYamlWithIncludes` | registry index | which malformation costs what, include cycles and sharing |
| scenario CLI (`lint.ts`, `validate.ts`) | none (the packs on disk) | `runLint`, `runValidate` | include resolver | their rules are not the loader's |
| `CompilerService`, template resolver | none | `compile`, `deepMerge`, `substitute` | registry index, twice per request | precedence of overrides |
| `ExampleRunService` | one request | `run` | compiler, hosting, control-plane client | two concurrent branches, partial failure |
| `HostingService`, process host provider | the run's `hostedParticipants` | `resolve`, `attach` | minter, supervisor | order of spawns, failure in the middle |
| `LaunchSupervisor` | `processes`, the bootstrap files | `launch`, `confirmSpawn`, `stop`, `onModuleDestroy` | child processes (events) | asynchronous spawn errors, exits at any time, shutdown |
| coordinator (`risk-decider.worker.ts`) | `signals`, `committed`, `waitTimer`, `pendingHandlerCtx` | message handlers, `tryCommit`, `cancelSessionSafely` | runtime (stream and RPCs) | a `tryCommit` that is not awaited, deadline, lost answers |
| policy strategy | none | `isQuorumMet`, `decide` | coordinator | edges of thresholds, vetoes, abstentions |
| specialists (`agents/*_worker/main.py`) | `pending`, `peers`, `seen`, `voted` | `handle_proposal`, `handle_evaluation` | runtime | the two-phase barrier, crashes |
| `PolicyRegistrarService`, `PolicyLoaderService` | counters, `readOnlyRegistry`, the policy cache | `onApplicationBootstrap` | minter, runtime registry | switch to verification half-way |
| host adapters, manifest validation, cancel callback | none | `validate`, `prepareLaunch`, `buildBootstrapPayload`, `allocateCancelCallback` | host provider, child environment | four layers of environment, the adapter and the manifest may disagree, 32-bit hash of the port |
| agent analyses (`mappers.py`, `chain.py`, `graph.py`, `crew.py`) | none | input mapping, `score_by_domain`, the choice of LLM or rules | specialists, bootstrap payload | thresholds, fields lost on the way, fallbacks |
| HTTP surface, configuration, catalogue projections | none shared | | | data transformations |

What makes each correct, in one line: the minter never hands out a token that is
refused, foreign or wider than asked, and asks the auth-service once; the index
answers every request and honours invalidation; the coordinator ends every
session with a decision the messages justify; no specialist's evaluation is shut
out by a peer's vote; a launch that succeeds has every agent up, and the
supervisor never loses a child; a load serves everything that is right on disk or
fails; what a request, a template and a scenario say reaches the agents and the
coordinator, and a deterministic run asks no LLM.

## 2. Modules

| Module | Models | State and actions |
|---|---|---|
| `AuthScopes` | `deriveScopes`, `mergeScopes`, `cacheKey`, `stableScopeHash` | pure operators; a scopes object is a function from field names |
| `TokenMinter` | `auth-token-minter.service.ts` | `mintToken` is one turn up to its return (`MintHit`, `MintJoin`, `MintRequest`, `MintWithoutSender`); the awaits of `requestToken` and its `finally` are actions; `Tick` is the clock in seconds |
| `RegistryIndex` | `registry-index.service.ts` | `GetCached`, `JoinLoad`, `StartLoad` are the three ways out of `getSnapshot`; `LoadCompletes`, `LoadFails` its callbacks; a snapshot is the number of its load |
| `PolicyStrategy` | `policy-strategy.ts` and what the handlers keep of a message | pure operators over a policy record and a signals function |
| `PolicyTally` | the Evaluation, Vote and Objection handlers feeding the strategy | one action per handler, any participant, any order |
| `Deliberation` | `risk-decider.worker.ts`, the three `main.py`, the runtime's session as they use it | a log of accepted envelopes and a cursor per participant; coordinator handlers, the deadline, `tryCommit` one RPC at a time; specialists one RPC at a time |
| `AgentHosting` | `ExampleRunService.run` after compilation, `HostingService.attach`, the host provider, `LaunchSupervisor` | the attach loop, child events, the shutdown hook, the submission, the answer |
| `PolicyRegistrar` | `policy-registrar.service.ts`, the loading in `policy-loader.service.ts` | one RPC per step: `RegisterOk`, `AlreadyRegistered`, `Refused`, `checkSchemaDrift`, `verifyManagedPolicy`; `outcome` says how each policy was counted, the runtime's registry is shared by all instances |
| `IncludeResolver` | `include-resolver.ts` | a recursive function over visited sets and files; `Documents` is what the files of a directory are; what a file resolves to, or `INVALID_PACK_DATA` |
| `CatalogueLoad` | what a load promises | one action, `Load`: from `pending` to the whole catalogue or to `failed`, told by reachability instead of by a walk |
| `PackLoader` | `file-registry.loader.ts` | the nested loops as a program counter and four work lists: `Open...`, `Close...`, `Skip...`, `Reject...` of packs, scenarios and versions, `ReadTemplate`; the order inside a directory is free |
| `ScenarioChecks` | `scripts/scenario/lint.ts`, `validate.ts` | pure operators: the findings of each check and the exit code 0 |
| `LaunchCompiler` | `compiler.service.ts`, `template-resolver.ts`, `extensions.ts` | pure operators; a document is a tree, kept as a function from the paths of its nodes; `compile` answers a launch or the first error |
| `AgentLaunch` | the bootstrap payload, `cancel-callback.ts`, the four adapters, `manifest-validator.ts` | pure operators; an environment is a function from names to values, `Over` a spread |
| `Analyses` | the mappers and scorers of the three Python workers | pure operators; fields keep their wire names |
| `Launch` | one request from `ExampleRunService.run` to the opinions of its agents | `Refuse` or `Compile`, then `Attach` per agent and `Analyse` per specialist |
| `TokenMinterProofs`, `AgentHostingProofs`, `DeliberationProofs`, `LaunchProofs`, `PackLoaderProofs`, `PolicyRegistrarProofs`, `PolicyTallyProofs`, `RegistryIndexProofs` | | theorems, see section 5 |
| `MC...` | | instances for TLC |

`Deliberation` uses `PolicyStrategy` for what its coordinator decides;
`TokenMinter` uses `AuthScopes` for its keys. `AgentHosting` sees a mint as
something that succeeds or fails; that it settles is `EveryCallReturns` of
`TokenMinter`, checked there and assumed as fairness here. `PackLoader` reads
documents through `IncludeResolver`, is compared with `ScenarioChecks`, and
refines `CatalogueLoad`; it is the load that `RegistryIndex` starts, completes
or fails. `Launch` composes `LaunchCompiler`, `AgentLaunch`, `Analyses` and
`PolicyStrategy`: what `AgentHosting` and `Deliberation` take as given (the
agents' manifests, the policy, the opinions) is computed there.

The modules contain operators marked `Mutation:`, each a plausible
mistake in the definition that follows it; the manifest pairs them with the
property that notices.

### Modelling decisions

* `registerPolicy` may report any error with any text: one without a code (the error
  of an answer, on every runtime, and the exceptions of an old one) is judged by its
  text alone, so a pass may give up a writable registry (`Errors` in
  `PolicyRegistrar`, on runtimes with and without codes). A text with `already` in an
  answer is taken as true.
* The auth-service reports the lifetime it granted; one that reports none is taken to
  have granted what was asked, as `requestToken` takes it (`ttlSeconds`). Of one that
  grants less and does not say so `HitsAreAccepted` would not hold.
* A JavaScript turn is atomic: an action is the code between two awaits. A
  microtask that is due runs before time passes (`Tick` of `TokenMinter`).
* A load, a request or a token is known by the call that started it, so "older"
  is a comparison of numbers.
* The runtime in `Deliberation` is external: it accepts envelopes while the
  session is open, ends the evaluation phase at the first Vote (the comment at
  `agents/langchain_worker/main.py:143-148`), may deny any commit, and may
  expire. The proposal is accepted before the coordinator sees it, so the log
  starts with it.
* Progress and Signal envelopes, reasons, log lines and payload shapes are left
  out. Confidence is a natural number, a threshold an exact fraction: what
  floating point makes of a product such as `3 * 0.67` is not covered.
* The coordinator itself does not crash in the model, and delivery of its own
  Proposal is fair; a crashed coordinator leaves the session to its TTL.
* In `AgentHosting` all participants have bootstrap mode `attached`, as the whole
  catalogue does, and a run has a fresh session id, so nothing is attached twice.
* Of a pack document the loading modules keep what the loader and the checks
  test: whether the text parses, what it is, whether the path may be included,
  the includes, apiVersion, kind, slug and the failed content checks. The packs
  directory does not change during a load. A directory reached by a symbolic
  link has a kind of its own, because `lint.ts` skips it and the loader does not.
* In the launch modules a document is a tree of objects, arrays and scalars, kept
  as a function from paths (the keys down from the root) to nodes; a string is
  plain, or the placeholder of one input, or has one embedded. What the packs,
  the requests and the catalogue keep to is stated as assumptions of `Launch`: a
  scenario requires the inputs its agents score and hands each of them on in its
  context, hints are within the rule schema, values have the type their kind says,
  every framework has an adapter. TLC evaluates them on the shipped packs. The
  agent catalogue gives each agent a framework, which chooses the adapter that
  prepares, and a manifest, whose framework chooses the one that validates: the
  code reads both (`process-example-agent-host.provider.ts`), and the model does.
* Scores are exact: ratios in hundredths, a weighted score multiplied by its
  denominators. What a float makes of a value within rounding of a threshold is
  not covered. An LLM may answer anything in `LlmReplies`, or nothing that can be
  parsed; which run asks an LLM at all is what the properties are about.

## 3. Runs

Every property of a passing run has a mutant that breaks it.

| Run | Question | Bounds |
|---|---|---|
| `minter` | Are hits accepted, requests single, tokens least-privileged, failures not replayed? Does the cache move forward, and every call return? | 2 calls, 4 asks (initiator, the same with modes reordered, non-initiator, no sender), lifetimes 0 and 3, skew 2 = timeout 1 + drift 1, calls up to time 3: a token can expire and be replaced |
| `registry` | Is one load shared, what survives `invalidate()` at any moment, does every request resume? | 2 requests of 2 reads, TTL 2, time 3, 2 invalidations: the cache expires between the reads of a request, three loads overlap |
| `registry_forced` | finding | 2 requests, 1 invalidation |
| `tally` | Is the decision monotone, and the confidence floor respected? | 3 participants, 5 policies of the packs, 3 confidences (below, at, above the floors in use) |
| `tally_abstain` | finding | 3 participants |
| `session` | Barrier, order of commit and votes, justification of the commitment, unanimity; does the session end? | 2 specialists that may crash, 4 policies (2 of them also with the suspend demo), 4 opinions |
| `session_free_form` | finding | 2 specialists |
| `hosting` | Order of spawns, meaning of success, token files, supervision; is the request answered? | the 4 agents of the packs, initiator declared last |
| `hosting_failed` | finding | 3 agents |
| `registrar` | Is what is counted as present there, is drift reported, is what a pass leaves absent named, also when an error misled it, does every pass end? | 2 instances of different schema versions, 2 policies, 1 restart; the new directory has a duplicate, an unreadable file and `policy.default` |
| `loading` | Is the walk one load of the catalogue, does it end, are packs that pass `lint` and `validate` served? | 2 packs with 2 scenarios, 3 versions and 2 templates, a hidden directory, a stray file; each document with each of 17 single edits, in each of 5 directory shapes; all 512 include graphs over 3 shared fragments; 6 alias targets |
| `launch` | Do hints and inputs reach coordinator and scorers, do deterministic runs stay rule-based, does a better case never come off worse? | the three shipped domains with 7 shipped templates and 12 more, inputs on both sides of each threshold of the scorers, 34 deployments (keys in the service or in the manifests, LLMs allowed or not, frameworks installed or not, broken manifests) |

Why the bounds are enough: two actors racing on one key, load or session show
every pairwise race of this code, whose shared state is one map entry or one
field; the horizon lets each deadline strike before, with and after each answer.
An include cycle over three fragments has every length a visited set could
mistake (1, 2, 3), and two documents that include the same fragments every
sharing; the loader keeps nothing between packs but the map of packs, so two of
them (also of one slug) show what one does to another. The grid of `launch` has
a value on each side of each threshold, and since scores are piecewise linear
between thresholds, a verdict that got worse would do so across one of them.
The safety properties of the minter, the index, the tally, the session, the
hosting and the registrar are also proved for any number of actors, those of the
pack loader for any packs directory, those of `launch` for any registry, deployment,
request and grid within its assumptions (section 5). Symmetry is used only where the
actors are interchangeable and only in runs without liveness properties. Deadlock
is not checked in runs whose system really stops (all calls made, the session
over, the request answered).

### Fairness

* `TokenMinter`: the clock, the abort timer, `finally` callbacks and deliveries
  to callers. Nothing obliges the auth-service to answer. Justified by the event
  loop and `AbortSignal.timeout` (`auth-token-minter.service.ts:118`).
* `RegistryIndex`: file reads end one way or the other, promise callbacks run.
* `Deliberation`: the coordinator's stream delivers its Proposal, its timer
  fires, its RPCs return (accepted or not). Nothing of the specialists, nothing
  of the TTL.
* `AgentHosting`: mints settle, the confirmation timer fires, events of children
  are delivered, the submission's abort fires. No child exits because it must,
  and the control-plane need not answer.
* `PolicyRegistrar`: every await of a pass settles, with an answer or an error.
* `PackLoader`: a file read ends and the walk goes on (`WF_vars(Next)`).
* `Launch` states none: its properties are about the states it reaches.

## 4. Where code and text disagree

The `violation` runs, each quoting the text it refutes in `PROJECT.json`:

* `registry_forced`: `invalidate()` during a load is undone when it completes;
* `tally_abstain`: abstentions stay in the denominator;
* `session_free_form`: ACCEPT and PASS evaluate APPROVE and vote REJECT;
* `hosting_failed`: a failed launch leaves its initiator running.

Others that the modules show without a run of their own:

* a token that `readCache` serves (`auth-token-minter.service.ts:88`) may be as old
  as its lifetime less the skew, so a lifetime above the run length, as
  `docs/direct-agent-auth.md:154` and `:288` advise, does not cover a run that
  starts from the cache (`MintHit`);
* with `REGISTRY_CACHE_TTL_MS=0` a request still joins a load already in progress
  (`JoinLoad`), while `docs/architecture.md:196` says it reloads on every request;
* policy `none` waits for every participant (`isQuorumMet`), while
  `docs/framework-hosting-design.md:181` says it "needs >= 1 response";
* a participant's later Vote replaces its critical Objection and with it the
  veto (`Observe`);
* the last evaluation, not the last vote, starts the coordinator's commit
  (`CommitsBeforeItSeesAVote`), while the comment at `risk-decider.worker.ts:296`
  says it acts once every specialist has voted;
* an attach in progress goes on spawning after the shutdown hook
  (`onModuleDestroy` then `Launch` in `AgentHosting`), and nothing signals what it
  spawns;
* a runtime that restarts after the registration pass has lost the policies
  (`Restart` in `PolicyRegistrar`), while `docs/policy-authoring.md:175-177` says
  registering at boot is what keeps launches from UNKNOWN_POLICY_VERSION;
* packs that pass `lint` and `validate` may still fail the load of all packs:
  neither looks at the apiVersion and kind of `pack.yaml`, at a linked directory,
  or at a slug two packs share (`Unchecked` in `PackLoader`);
* `nextCancelCallbackPort` hashes run and participant into 1024 ports, so two
  agents of a run may share one, while the comment at
  `src/config/app-config.service.ts:115-116` speaks of the next free port;
* the shipped lending request with its default inputs is reviewed by all three
  specialists at confidence 0.5, below the floor of 0.6 of its own policy, and is
  stepped up (`score_lending`, `Qualified`);
* a policy floor above what the scorers say with least confidence turns the verdict
  round: with `minimumConfidence` 80 in lending, a REJECT at confidence 75 is left out
  of the count, and the better case without the prior default is rejected at up to 90
  and counts. No shipped pack sets such a floor and nothing in the code keeps one from
  doing so (`LeastConfidence` in `Launch`);
* the crew never approves a fraud case (`ScoreFraudCrewAI`), so the `unanimous`
  template of that pack never approves when it runs by the rules;
* an `initiatorParticipantId` that is no participant compiles; no agent then
  opens the session and no specialist finds it (template `stranger` in
  `MCLaunch`).

## 5. Proofs

Each module of theorems proves one inductive invariant, `IInv`, by a lemma per
action or per conjunct, and reads its properties off it. TLC checked every
inductive invariant before it was proved, on the instances of section 3 (that of
the pack loader on a selection of its directories). All theorems hold for every
value of the constants that meets the module's `ASSUME`.

`TokenMinterProofs`: for every set of calls and asks, every lifetime, skew,
timeout, drift and horizon with `Timeout + Drift <= Skew`, the type invariant,
`HitsAreAccepted`, `SingleFlight`, `JoinsOnlyLiveRequests`, `TokensMatchAsks` and
`CacheMovesForward`. `inflight` holds exactly the requests whose `finally` has not
run (`FlightInv`, which gives single flight); an unanswered request is younger
than its abort (`ClockInv`), so the expiry the cache computes on arrival exceeds
the signed one by at most the timeout (`CacheInv`), and the skew pays for it and
for the drift; a request is sent only when the token it will replace has been
signed (`OrderInv`, which gives `CacheMovesForward`); `CallInv` ties calls and
tokens to keys. `HashKeepsAuthority` shows that equal keys mean equal authority.
`SkewCovers` is an assumption about the configuration: the defaults (10 s skew,
5 s timeout) meet it with 5 s of drift to spare, a timeout above 10 s would not.

`RegistryIndexProofs`: for every set of requests, TTL and number of
invalidations, all safety properties of `RegistryIndex`. A request waits for a load
that has started, and whatever ends a load clears it (`WaitInv`). Until the first
invalidation loads run one after the other, so the newest that ended well is the
cached one, and what a request holds is no newer than the cache or the load it
waits for (`SequentialInv`); without that, two snapshots of one request cannot be
ordered. Whatever is loading, cached or waited for began after the last calm
invalidation that counts for it (`CalmInv`): a load already running then is what
makes the same claim false for the others (section 4).

`PolicyTallyProofs`: for every finite set of participants and every set of
policies within the rule schema, the three properties of `PolicyTally`. Two are
about a step, so the work is in comparing two signal maps: `Outcome` states the
decision in the sizes of four sets (who approves, who else has spoken, who
opposes, who objects critically), `Favourable` shows that a map whose approvers
include the other's, and whose other three sets are included in the other's, is
never decided less favourably (`ThresholdMonotone` is the arithmetic of the
quotient, whose denominator changes too), and `SupportStep`, `OppositionStep` and
`MaskedKeepsSides` say how a vote, an objection and the confidence floor move these
sets. `WellFormed` is what `schemas/policy/decision-rules.schema.json` asks of the
rules (a threshold in 0..1, a floor in 0..1, a veto threshold of at least 1); the
worker takes its hints as they come, so for hints outside the schema nothing is
claimed.

`DeliberationProofs`: for every finite set of specialists, every set of policies
within the rule schema and every set of opinions with a natural confidence, with
or without crashes and the suspend demo, the type invariant and all safety
properties but `VotesFollowEvaluations` (which is violated, section 4). That a
peer's vote cannot end the evaluation phase too early depends on what the voter
has seen, on what the runtime accepted, and on the coordinator not voting early
either: `IInv` adds that a specialist has seen only accepted evaluations
(`AgentInv`), that the log and the specialists agree (`LogInv`), that a vote in the
log follows every evaluation unless the coordinator has begun its commit
(`VoteInv`), that it begins exactly when it has heard everybody or at its
deadline (`CommitInv`, by `EverybodyIsAQuorum` and `AllHeard`), and that it has
heard those whose messages it handled (`HeardInv`). The commitment needs a second
layer, `JInv`: the signals map is what the handled prefix of the log says
(`SignalsInv`: of each participant the last thing it said, by `NextSignal`); while a
commit is under way its decision is what the policy makes of some prefix with a
quorum, and with everybody heard or the deadline struck (`TurnInv`); and that
decision, if it is a unanimous approval without the demo, has a confident
evaluation from everyone (`UnanimityInv`), because until it commits the
coordinator has handled no vote that could stand in for one (`NoVoteHandled`).

`AgentHostingProofs`: for every list of distinct participants that has the
initiator in it, all safety properties of `AgentHosting`. `SpawnOrderFacts` shows
that `orderForSpawn` is a permutation with the initiator in front, wherever it was
declared. What the loop has not come to is unreported, and once it is past the
first participant the initiator was settled (`LoopInv`); a report of success was
made with the child up, and the answer only after the loop (`ReportInv`).

`PolicyRegistrarProofs`: for any number of instances, any policy files and any
number of restarts, all safety properties of `PolicyRegistrar`.
`AvailableType` and `RegistrableType` show, by induction over the files, that the
loader's map has each id once and the list to register never the reserved one.
`InstanceInv` says that the policies a pass has not come to are neither counted
nor reported, that one being read back is counted and not yet compared, and that
what was counted is present and its drift exact while no restart came between.
`AccountInv` says that the policies a pass is past are settled, that one is missing
only for a pass that switched, and that a pass switched for a read-only registry or
after an error without a code; it gives `AbsentPoliciesAreNamed`, whatever the
runtime and whatever its errors say.
`OtherInstance` shows that no other instance disturbs it, because a registration
never replaces a version.

`PackLoaderProofs`: for every set of packs directories, that `PackLoader`
implements `CatalogueLoad` (`LoadsTheCatalogue`, by a refinement mapping that
hides the loops) and `CheckedPacksAreServed`. The two modules say differently what
a document stands for, the code's way by recursion with a visited set per branch,
the abstract way by reachability. `ParseExists` shows that the recursion has a
solution, `ReachableIs` that the bounded iteration of `Reachable` is the least
closed set, and `LoadedIs`, by induction on the number of files not yet on the way
from the root, that they agree on every finite graph of includes: shared fragments,
circles, chains of aliases. `ReadByName` turns that into the loader's three
verdicts. The invariant of the walk has a part per loop (`DirsInv`, `PackInv`,
`ScenarioInv`, `VersionInv`): what the loop has left behind is served in the map
it builds and nothing in it fails, except what the loop inside it is at. Then each
step but the last maps to a stutter, and the last to `Load`. `DisksAssumption` says
what a packs directory is: finitely many documents, an alias includes one file and
is no JSON, and what the walk opens by name is a YAML file that is there.

`LaunchProofs`: for every registry, deployment, request and grid of cases within the
assumptions of `Launch`, `HintsMergeOneByOne`, `InputsReachTheScorers`,
`DeterministicRunsAreRuleBased` and `BetterCaseNeverWorse`. `IInv` says that what a
launch is made of does not change while it is made: `compiled` is what `compile`
returned with what `ExampleRunService` adds, every agent is what `Attach` makes of its
participant, every opinion one that its analysis may return. The rest is about
operators. `MergedAt`, `FilledAt` and `MembersAre` say what a merged and filled-in
document holds at a path; with them `MergedHints` finds each hint where its author put
it, and `InputsAre` and `ContextHolds` follow an input from the request through
defaults, template and `contextTemplate` to the bootstrap an agent reads.
`SpawnedWithoutKeys` does the same for the environment of a deterministic run: no key
is left for a worker to call a model with. For `BetterCaseNeverWorse`, `ScoreImproves`
compares the scores of two cases one of which is nowhere worse, worker by worker
(`ChainImproves`, `GraphImproves`, `CrewImproves`, and the chain's rules for lending
and claims in `LendingImproves`, `ClaimsImproves`): the better case keeps an approval
and gains no opposition, and what is not a REVIEW is said with at least
`LeastConfidence`. `DecideImproves` concludes, by the cardinalities of the approving
and opposing specialists, that the verdict ranks no lower.
`RegistryAssumption` says what the properties need of a scenario: the inputs its
agents read are required and handed on in its context, a template does not take them
back, and its hints have the types the policies read. TLC evaluates it on the shipped
packs. Its bound on `minimumConfidence` is needed: with a floor above
`LeastConfidence` (72 for fraud, 60 for the others) `BetterCaseNeverWorse` is false
(section 4).

The library's induction theorems take an operator, which no prover here can
instantiate. Where a proof counts (`PolicyRegistrarProofs`, `PackLoaderProofs`),
`Minimum` and `Induction` are stated for a set of numbers instead, from the
well-foundedness of the natural numbers, and `FoldExists` and `LoadExists` give the
recursive functions that read a sequence element by element a value.

Only model-checked: the liveness properties (`EveryCallReturns`,
`EveryRequestResumes`, `SessionEnds`, `RequestIsAnswered`, `EveryPassEnds`,
`LoadEnds`): liveness under fairness is out of the prover's reach. That the shipped
packs keep to the assumptions is likewise checked by TLC, on their values.

## 6. Plan

1. `AgentHosting`'s answer against an abstract launch verdict (all up, or an
   error), and `Deliberation` against an abstract session that opens, closes once
   and never reopens, as refinements.
2. The hash of the cancel port with its 32-bit arithmetic; the policy rules
   validator.

## 7. Not modelled

The HTTP surface, DTO validation, configuration parsing, the catalogue
projections: stateless. The JSON-schema check of policy rules, which only logs
warnings (Ajv is a library; `LaunchCompiler` models what the scenario schemas use
of it). The command line and working directory of a child. The hash behind the
cancel port. An exception between writing a bootstrap file and the spawn
(`process-example-agent-host.provider.ts:170-190`). The replies of LLMs. The overrides of a request and
`bootstrapAgents: false`. `stop` and `stopRun` of the supervisor, which have no
caller. The scripts other than `lint` and `validate`, and lint's warning about
shared fragments nobody includes. See `PROJECT.json` for the list with reasons.
