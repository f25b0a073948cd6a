------------------------------ MODULE MCLaunch ------------------------------
(***************************************************************************)
(* Launch with the shipped packs, their templates and a few more, requests   *)
(* around the thresholds of the scorers, and deployments with and without    *)
(* keys and frameworks.                                                     *)
(***************************************************************************)
EXTENDS Launch

(* Trees, and the documents they stand for. *)
Obj(f) == [kind |-> "object", at |-> f]
Arr(s) == [kind |-> "array", is |-> Len(s),
           at |-> [k \in {ToString(i - 1) : i \in DOMAIN s} |->
                     s[CHOOSE i \in DOMAIN s : ToString(i - 1) = k]]]

RECURSIVE Flat(_)
Flat(tree) ==
  LET parts == [k \in DOMAIN tree.at |-> Flat(tree.at[k])]
      below == UNION {{<<k>> \o p : p \in DOMAIN parts[k]} : k \in DOMAIN parts}
      root == IF tree.kind = "array" THEN Node("array", tree.is) ELSE [kind |-> "object"]
  IN CASE tree.kind = "absent" -> NoDocument
       [] tree.kind \in {"object", "array"} ->
            [p \in below \cup {<<>>} |-> IF p = <<>> THEN root ELSE parts[Head(p)][Tail(p)]]
       [] OTHER -> [p \in {<<>>} |-> tree]

Null == Node("null", "null")
Number(n) == Node("number", n)
Whole(n) == Node("integer", n)
Flag(b) == Node("boolean", b)
Input(name) == Node("exact", name)

Nothing == [k \in {} |-> Absent]

Property(type, min, max, values, default) ==
  [type |-> type, min |-> min, max |-> max, values |-> values, default |-> default]

Amount(min, default) == Property("number", min, 1000000, {}, Number(default))
Ratio(default) == Property("number", 0, 100, {}, Number(default))
Count(default) == Property("integer", 0, 1000, {}, Whole(default))
Choice(default) == Property("boolean", 0, 0, {}, Flag(default))
Name(default) == Property("string", 0, 0, {}, Text(default))

Participant(id) == Obj([id |-> Text(id), agentRef |-> Text(id)])

FourAgents == Arr(<<Participant("fraud-agent"), Participant("growth-agent"),
                    Participant("compliance-agent"), Participant("risk-agent")>>)

Hints(type, threshold, veto, floor) ==
  Obj([type |-> Text(type), threshold |-> Number(threshold), vetoEnabled |-> Flag(veto),
       vetoThreshold |-> Whole(1), minimumConfidence |-> Number(floor)])

DefaultHints == Obj([type |-> Text("none"), vetoThreshold |-> Whole(1),
                     minimumConfidence |-> Number(0)])

LaunchOf(hints, fields, id) == Flat(
  Obj([policyHints |-> hints,
       initiatorParticipantId |-> Text("risk-agent"),
       participants |-> FourAgents,
       contextTemplate |-> Obj([f \in fields |-> Input(f)]),
       metadataTemplate |-> Obj([decisionOwner |-> Text("risk-agent")]),
       kickoffTemplate |-> Arr(<<Obj([from |-> Text("risk-agent"),
                                      proposal_id |-> Node("embedded", id)])>>)]))

Template1(defaults, tree) == [defaults |-> defaults, launch |-> Flat(tree)]
Ref(pack) == [pack |-> <<pack>>, scenario |-> <<"s">>, version |-> <<"1.0.0">>]

-----------------------------------------------------------------------------
FraudDefaults(amount, trust, age, vip, chargebacks) ==
  [transactionAmount |-> Number(amount), deviceTrustScore |-> Number(trust),
   accountAgeDays |-> Whole(age), isVipCustomer |-> Flag(vip),
   priorChargebacks |-> Whole(chargebacks)]

MajorityVeto == Obj([policyHints |-> Hints("majority", 50, TRUE, 0)])
Unanimous == Obj([policyHints |-> Hints("unanimous", 100, TRUE, 70)])

Fraud ==
  [schema |-> [properties |-> [customerId |-> Name("CUST-1001"),
                               transactionAmount |-> Amount(1, 2400),
                               deviceTrustScore |-> Ratio(18), accountAgeDays |-> Count(14),
                               isVipCustomer |-> Choice(TRUE), priorChargebacks |-> Count(1)],
               required |-> FraudFields],
   launch |-> LaunchOf(DefaultHints, FraudFields \cup {"customerId"}, "customerId"),
   templates |->
     [default |-> Template1(FraudDefaults(2400, 18, 14, TRUE, 1), Absent),
      showcase |-> Template1(FraudDefaults(2400, 18, 14, TRUE, 1),
                             Obj([agentExecution |-> Text("deterministic")])),
      strict |-> Template1(FraudDefaults(2400, 8, 7, TRUE, 2),
                           Obj([metadataTemplate |-> Obj([posture |-> Text("strict-risk")])])),
      unanimous |-> Template1(FraudDefaults(12500, 8, 3, FALSE, 2), Unanimous),
      majority |-> Template1(FraudDefaults(2400, 18, 14, TRUE, 1), MajorityVeto),
      (* not shipped *)
      llm |-> Template1(Nothing, Obj([agentExecution |-> Text("llm")])),
      claimed |-> Template1(Nothing, Obj([metadataTemplate |->
                                            Obj([agentExecution |-> Text("llm")])])),
      misspelt |-> Template1(Nothing, Obj([agentExecution |-> Text("determinstic")])),
      bare |-> Template1(Nothing, Obj([extensions |-> Text("")])),
      bytes |-> Template1(Nothing, Obj([extensions |-> Obj([x |-> Whole(1)])])),
      extended |-> Template1(Nothing, Obj([extensions |-> Obj([x |-> Text("AA==")])])),
      undefined |-> Template1(Nothing, Obj([contextTemplate |-> Obj([y |-> Input("y")])])),
      stranger |-> Template1(Nothing, Obj([initiatorParticipantId |-> Text("nobody")])),
      unowned |-> Template1(Nothing, Obj([initiatorParticipantId |-> Null])),
      unknown |-> Template1(Nothing, Obj([participants |->
                                            Arr(<<Participant("risk-agent"),
                                                  Participant("audit-agent")>>)]))]]

Lending ==
  [schema |-> [properties |-> [applicantId |-> Name("APP-2001"), loanAmount |-> Amount(1000, 25000),
                               creditScore |-> Property("integer", 300, 850, {}, Whole(680)),
                               debtToIncomeRatio |-> Ratio(35), employmentYears |-> Count(3),
                               isExistingCustomer |-> Choice(TRUE), priorDefaults |-> Count(0)],
               required |-> LendingFields \cup {"loanAmount", "isExistingCustomer"}],
   launch |-> LaunchOf(Hints("supermajority", 67, TRUE, 60), LendingFields, "applicantId"),
   templates |->
     [default |-> Template1([creditScore |-> Whole(680), debtToIncomeRatio |-> Number(35),
                             employmentYears |-> Whole(3), priorDefaults |-> Whole(0)], Absent),
      (* not shipped *)
      lenient |-> Template1(Nothing, Obj([policyHints |-> Obj([minimumConfidence |-> Number(0)])])),
      majority |-> Template1(Nothing, Obj([policyHints |-> Obj([type |-> Text("majority"),
                                                                vetoEnabled |-> Null])]))]]

Claims ==
  [schema |-> [properties |-> [claimId |-> Name("CLM-3001"), claimAmount |-> Amount(100, 8500),
                               policyAge |-> Count(24), priorClaims |-> Count(1),
                               isHighValuePolicy |-> Choice(FALSE),
                               incidentSeverity |->
                                 Property("string", 0, 0, {"minor", "moderate", "severe",
                                                           "total_loss"}, Text("moderate"))],
               required |-> ClaimsFields],
   launch |-> LaunchOf(Hints("majority", 50, FALSE, 0), ClaimsFields, "claimId"),
   templates |-> [default |-> Template1([policyAge |-> Whole(24)], Absent)]]

MCRegistry == [r \in {Ref("fraud"), Ref("lending"), Ref("claims")} |->
                 CASE r.pack = <<"fraud">> -> Fraud
                   [] r.pack = <<"lending">> -> Lending
                   [] r.pack = <<"claims">> -> Claims]

-----------------------------------------------------------------------------
MCGrid ==
  [transactionAmount |-> {2400, 3000, 6000}, deviceTrustScore |-> {7, 8, 20},
   accountAgeDays |-> {2, 6, 14}, isVipCustomer |-> BOOLEAN, priorChargebacks |-> {0, 1, 2},
   creditScore |-> {560, 620, 665, 750}, debtToIncomeRatio |-> {10, 30, 43, 60},
   employmentYears |-> {0, 3, 6}, priorDefaults |-> {0, 1},
   policyAge |-> {0, 12, 30}, priorClaims |-> {0, 1, 4}, isHighValuePolicy |-> BOOLEAN,
   incidentSeverity |-> {"minor", "moderate", "severe", "total_loss"}]

RefOf(pack) == <<pack, "/", "s", "@", "1.0.0">>

Request(ref, template, inputs) ==
  [scenarioRef |-> ref, templateId |-> template, inputs |-> inputs]

FraudRequests ==
  {Request(RefOf("fraud"), t, FraudDefaults(amount, trust, age, vip, chargebacks)) :
     t \in {"default", "majority", "unanimous"}, amount \in MCGrid.transactionAmount,
     trust \in MCGrid.deviceTrustScore, age \in MCGrid.accountAgeDays, vip \in BOOLEAN,
     chargebacks \in MCGrid.priorChargebacks}

LendingRequests ==
  {Request(RefOf("lending"), t, [creditScore |-> Whole(credit), debtToIncomeRatio |-> Number(dti),
                                 employmentYears |-> Whole(years), priorDefaults |-> Whole(d)]) :
     t \in {"default", "lenient", "majority"}, credit \in MCGrid.creditScore,
     dti \in MCGrid.debtToIncomeRatio, years \in MCGrid.employmentYears,
     d \in MCGrid.priorDefaults}

ClaimsRequests ==
  {Request(RefOf("claims"), "default", [policyAge |-> Whole(age), priorClaims |-> Whole(claims),
                                        isHighValuePolicy |-> Flag(high),
                                        incidentSeverity |-> Text(severity)]) :
     age \in MCGrid.policyAge, claims \in MCGrid.priorClaims, high \in BOOLEAN,
     severity \in MCGrid.incidentSeverity}

(* One request for each way to compile or not to compile. *)
PlainRequests ==
  {Request(RefOf("fraud"), t, Nothing) : t \in DOMAIN Fraud.templates \cup {"", "missing"}}
  \cup {Request(RefOf("lending"), t, Nothing) : t \in DOMAIN Lending.templates}
  \cup {Request(RefOf("claims"), t, Nothing) : t \in {"", "default"}}
  \cup {Request(ref, "", Nothing) :
          ref \in {<<"fraud", "/", "s">>, <<"fraud", "@", "1.0.0">>, <<"fraud", "/", "@", "1.0.0">>,
                   <<"audit", "/", "s", "@", "1.0.0">>, <<"fraud", "@", "x", "/", "s", "@", "1.0.0">>}}
  \cup {Request(RefOf("fraud"), "", inputs) :
          inputs \in {[deviceTrustScore |-> Number(101)], [deviceTrustScore |-> Whole(1)],
                      [accountAgeDays |-> Number(3)], [priorChargebacks |-> Null],
                      [isVipCustomer |-> Text("true")], [other |-> Text("x")]}}
  \cup {Request(RefOf("claims"), "", [incidentSeverity |-> Text("Minor")])}

MCRequests == FraudRequests \cup LendingRequests \cup ClaimsRequests \cup PlainRequests

-----------------------------------------------------------------------------
Manifest(id, framework, type, config, env) ==
  [id |-> id, name |-> id, framework |-> framework, config |-> config, env |-> env,
   invokeMode |-> "", entrypoint |-> [type |-> type, value |-> "main"]]

Definition1(id, framework, type, config, env) ==
  [framework |-> framework, manifest |-> Manifest(id, framework, type, config, env)]

LangChainConfig == {"factory", "inputMapper", "outputMapper"}

Catalogue(env) ==
  [r \in {"fraud-agent", "growth-agent", "compliance-agent", "risk-agent"} |->
     CASE r = "fraud-agent" ->
            Definition1(r, "langgraph", "python_file",
                        {"graphFactory", "inputMapper", "outputMapper"}, env)
       [] r = "growth-agent" ->
            [Definition1(r, "langchain", "python_module", LangChainConfig, env)
               EXCEPT !.manifest.invokeMode = "invoke"]
       [] r = "compliance-agent" -> Definition1(r, "crewai", "python_file", Unset, env)
       [] r = "risk-agent" ->
            Definition1(r, "custom", "node_file",
                        {"entryFunction", "inputMapper", "outputMapper"}, env)]

Key == [OPENAI_API_KEY |-> "key"]
Keys == [OPENAI_API_KEY |-> "key", ANTHROPIC_API_KEY |-> "key", MACP_PARTICIPANT_ID |-> "service"]
NoEnv == [k \in {} |-> ""]

Operator(env, allowLlm, installed, catalogue) ==
  [env |-> env, allowLlm |-> allowLlm, installed |-> installed, agents |-> catalogue,
   callback |-> [host |-> "127.0.0.1", portBase |-> IF allowLlm THEN 40000 ELSE 0]]

Frameworks == {"langgraph", "langchain", "crewai"}

Shipped == Operator(NoEnv, FALSE, Frameworks, Catalogue(NoEnv))

MCOperators ==
  {Operator(env, allow, installed, Catalogue(own)) :
     env \in {NoEnv, Keys}, allow \in BOOLEAN, installed \in {{}, {"langchain"}, Frameworks},
     own \in {NoEnv, Key}}
  \cup {Operator(Key, TRUE, Frameworks, [Catalogue(NoEnv) EXCEPT ![r].manifest = bad]) :
          r \in {"growth-agent", "compliance-agent"},
          bad \in {Manifest("x", "langchain", "node_file", Unset, NoEnv),
                   Manifest("x", "langchain", "python_file", {"factory"}, NoEnv),
                   [Manifest("x", "langchain", "python_file", LangChainConfig, NoEnv)
                      EXCEPT !.invokeMode = "ainvoke"],
                   Manifest("x", "autogen", "python_file", Unset, NoEnv),
                   Manifest("", "crewai", "python_file", Unset, NoEnv),
                   Manifest("x", "custom", "python_file", Unset, NoEnv)}}

(* The requests around the thresholds meet the shipped deployment, the plain  *)
(* ones every deployment.                                                   *)
MCInit ==
  /\ Init
  /\ request \in PlainRequests \/ operator = Shipped

MCSpec == MCInit /\ [][Next]_vars

MCOffsets == [p \in {"fraud-agent", "growth-agent", "compliance-agent", "risk-agent"} |-> 7]

MCLlmReplies == {Opinion("APPROVE", 95), Opinion("ACCEPT", 40)}
=============================================================================
