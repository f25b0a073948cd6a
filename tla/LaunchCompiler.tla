--------------------------- MODULE LaunchCompiler ---------------------------
(***************************************************************************)
(* CompilerService.compile (src/compiler): a scenario version, a template    *)
(* and the inputs of a request become the launch of one run.                *)
(*                                                                         *)
(* A document is a tree, kept as a function from the paths of its nodes to   *)
(* the nodes: a path is the sequence of the keys down from the root, <<>>    *)
(* the root itself, and the keys of an array are "0", "1" and so on.  A node *)
(* is an object, an array with its length, a scalar of some kind ("number",  *)
(* "integer", "boolean", "string", "null") with its value, or one of two     *)
(* kinds of string with a placeholder for an input: "exact", when the string *)
(* is the placeholder, and "embedded".  Inputs are scalars.  Titles, tags,   *)
(* the requester and what the runtime alone reads of a launch (its TTL, its  *)
(* versions) are left out, and of its metadata all but the nodes at the top. *)
(***************************************************************************)
EXTENDS Naturals, Sequences, TLC

Node(kind, is) == [kind |-> kind, is |-> is]
Text(is) == Node("string", is)
Absent == [kind |-> "absent"]

Given(node) == node.kind \notin {"absent", "null"}

NoDocument == [p \in {} |-> Absent]

At(doc, path) == IF path \in DOMAIN doc THEN doc[path] ELSE Absent
Root(doc) == At(doc, <<>>)

(* The part of a document under a key of its root. *)
Under(doc, key) ==
  LET below == {p \in DOMAIN doc : p # <<>> /\ Head(p) = key}
  IN [p \in {Tail(q) : q \in below} |-> doc[<<key>> \o p]]

(* The nodes right below the root, by their keys. *)
Members(doc) == [k \in {Head(p) : p \in {q \in DOMAIN doc : Len(q) = 1}} |-> doc[<<k>>]]

(* { ...base, ...over } *)
Spread(base, over) ==
  [k \in DOMAIN base \cup DOMAIN over |-> IF k \in DOMAIN over THEN over[k] ELSE base[k]]

-----------------------------------------------------------------------------
(* The template resolver *)

(* A reference is a sequence of names, "/" and "@".                         *)
parseScenarioRef(ref) ==
  LET ats == {i \in DOMAIN ref : ref[i] = "@"}
      at == CHOOSE i \in ats : \A j \in ats : j <= i
      path == SubSeq(ref, 1, at - 1)
      slashes == {i \in DOMAIN path : path[i] = "/"}
      slash == CHOOSE i \in slashes : \A j \in slashes : i <= j
      parts == [pack |-> SubSeq(path, 1, slash - 1),
                scenario |-> SubSeq(path, slash + 1, Len(path)),
                version |-> SubSeq(ref, at + 1, Len(ref))]
  IN IF ats = {} \/ slashes = {} THEN Absent
     ELSE IF <<>> \in {parts.pack, parts.scenario, parts.version} THEN Absent
     ELSE [kind |-> "ref", is |-> parts]

extractSchemaDefaults(schema) ==
  [name \in {n \in DOMAIN schema.properties : schema.properties[n].default.kind # "absent"} |->
     schema.properties[name].default]

(* Mutation: the override is spread over the base, key by key. *)
MergedShallow(base, over) ==
  Spread([p \in {q \in DOMAIN base : q = <<>> \/ <<Head(q)>> \notin DOMAIN over} |-> base[p]], over)

(* A node of the base stays unless the override has a node for it, or for a  *)
(* node above it, that does not merge an object into an object.              *)
deepMerge(base, over) ==
  LET merged(p) == At(base, p).kind = "object" /\ At(over, p).kind = "object"
      replaced(p) == p \in DOMAIN over /\ ~merged(p)
      kept == {p \in DOMAIN base : \A n \in 0 .. Len(p) : ~replaced(SubSeq(p, 1, n))}
  IN Spread([p \in kept |-> base[p]], over)

Placeholders(doc) == {doc[p].is : p \in {q \in DOMAIN doc : doc[q].kind \in {"exact", "embedded"}}}

(* resolvePath finds an input or nothing; substitute throws for nothing.     *)
Resolves(doc, inputs) == Placeholders(doc) \subseteq DOMAIN inputs

substitute(doc, inputs) ==
  [p \in DOMAIN doc |->
     CASE doc[p].kind = "exact" -> inputs[doc[p].is]
       [] doc[p].kind = "embedded" -> Text(<<"text with", inputs[doc[p].is].is>>)
       [] OTHER -> doc[p]]

-----------------------------------------------------------------------------
(* CompilerService *)

AGENT_EXECUTION_VALUES == {"llm", "deterministic"}

(* The first of the nodes that is given, as a chain of ??. *)
FirstGiven(nodes) == IF \E i \in DOMAIN nodes : Given(nodes[i])
                       THEN nodes[CHOOSE i \in DOMAIN nodes :
                                    Given(nodes[i]) /\ \A j \in 1 .. i - 1 : ~Given(nodes[j])]
                       ELSE Absent

describeExtensionsProblem(extensions) ==
  /\ Given(Root(extensions))
  /\ Root(extensions).kind = "object" =>
       \E k \in DOMAIN Members(extensions) :
         Members(extensions)[k].kind \notin {"string", "exact", "embedded"}

KnownExecution(node) ==
  \/ node.kind = "absent"
  \/ node.kind = "string" /\ node.is \in AGENT_EXECUTION_VALUES

(* The scenario's JSON schema, as Ajv checks it without coercion.            *)
Accepts(property, value) ==
  /\ value.kind = property.type \/ (value.kind = "integer" /\ property.type = "number")
  /\ value.kind \in {"integer", "number"} => property.min <= value.is /\ value.is <= property.max
  /\ value.kind = "string" /\ property.values # {} => value.is \in property.values

validateInputs(schema, inputs) ==
  /\ schema.required \subseteq DOMAIN inputs
  /\ \A name \in DOMAIN inputs \cap DOMAIN schema.properties :
       Accepts(schema.properties[name], inputs[name])

mergeDefaults(defaults, template) == Spread(defaults, template.defaults)

mergeLaunch(launch, template) ==
  IF ~Given(Root(template.launch)) THEN launch ELSE deepMerge(launch, template.launch)

(* The inputs of a run, the later of these winning: schema, template, request. *)
MergedInputs(scenario, template, request) ==
  Spread(mergeDefaults(extractSchemaDefaults(scenario.schema), template), request.inputs)

(* A request without a template is one with a template that says nothing.    *)
NoTemplate == [defaults |-> [n \in {} |-> Absent], launch |-> NoDocument]

(* What the participants of a launch say under a key, in their order. *)
OfParticipants(launch, key) ==
  [i \in 1 .. At(launch, <<"participants">>).is |->
     At(launch, <<"participants", ToString(i - 1), key>>).is]

(* What compile returns of the launch of a run. *)
Compiled(request, parts, launch, inputs) ==
  LET filled(key) == substitute(Under(launch, key), inputs)
  IN [scenarioRef |-> request.scenarioRef,
      packSlug |-> parts.pack,
      participants |-> OfParticipants(launch, "id"),
      agentRefs |-> OfParticipants(launch, "agentRef"),
      initiatorParticipantId |->
        FirstGiven(<<At(launch, <<"initiatorParticipantId">>),
                     At(filled("kickoffTemplate"), <<"0", "from">>),
                     At(launch, <<"participants", "0", "id">>)>>),
      policyHints |-> Under(launch, "policyHints"),
      sessionContext |-> filled("contextTemplate"),
      agentExecution |-> At(launch, <<"agentExecution">>),
      metadata |-> Spread([agentExecution |-> Absent], Members(filled("metadataTemplate")))]

Refuses(code) == [error |-> code]

(* registry is the snapshot's scenario versions by reference.                *)
compile(registry, request) ==
  LET ref == parseScenarioRef(request.scenarioRef)
      scenario == registry[ref.is]
      template == IF request.templateId = "" THEN NoTemplate
                  ELSE scenario.templates[request.templateId]
      launch == mergeLaunch(scenario.launch, template)
      inputs == MergedInputs(scenario, template, request)
  IN CASE ref.kind = "absent" -> Refuses("INVALID_SCENARIO_REF")
       [] ref.kind = "ref" /\ ref.is \notin DOMAIN registry -> Refuses("NOT_FOUND")
       [] ref.kind = "ref" /\ ref.is \in DOMAIN registry ->
            IF request.templateId \notin DOMAIN scenario.templates \cup {""}
              THEN Refuses("TEMPLATE_NOT_FOUND")
            ELSE IF ~validateInputs(scenario.schema, inputs) THEN Refuses("VALIDATION_ERROR")
            ELSE IF \/ \E key \in {"contextTemplate", "metadataTemplate", "kickoffTemplate"} :
                         ~Resolves(Under(launch, key), inputs)
                    \/ describeExtensionsProblem(Under(launch, "extensions"))
                    \/ ~KnownExecution(At(launch, <<"agentExecution">>))
              THEN Refuses("COMPILATION_ERROR")
            ELSE [error |-> "", launch |-> Compiled(request, ref.is, launch, inputs)]
=============================================================================
