--------------------------- MODULE ScenarioChecks ---------------------------
(***************************************************************************)
(* The command-line checks of pack authors, run over a packs directory       *)
(* before the server loads it: scripts/scenario/lint.ts over all packs,      *)
(* scripts/scenario/validate.ts over one scenario version.                  *)
(*                                                                         *)
(* Beside what IncludeResolver keeps of a document, it has problems: the    *)
(* checks of its content it does not pass, of those lint and validate know  *)
(* ("slug", "description", "extensions", "policyRules", "agentRef",         *)
(* "metadata", "schema", "fixture", "placeholder") or warn of ("policy",    *)
(* "commitments").                                                          *)
(***************************************************************************)
EXTENDS IncludeResolver

CONSTANT NoFile

Finding(level, file, about) == [level |-> level, file |-> file, about |-> about]

Findings(docs, f, level, checks) ==
  {Finding(level, f, c) : c \in docs[f].problems \cap checks}

-----------------------------------------------------------------------------
(* lint *)

(* A directory entry is told by its own type: a link is no directory.        *)
listPackDirs(d) ==
  {e \in DOMAIN d.dirs : d.exists /\ d.dirs[e].kind = "dir" /\ d.dirs[e].pack # NoFile}

listScenarioVersionDirs(d, e) ==
  UNION {{d.dirs[e].scenarios[s][v] : v \in {v \in DOMAIN d.dirs[e].scenarios[s] :
                                            d.dirs[e].scenarios[s][v].scenario # NoFile}} :
           s \in DOMAIN d.dirs[e].scenarios}

lintTemplate(docs, t) ==
  LET x == loadYamlWithIncludes(docs, t) IN
  IF x = Invalid THEN {Finding("error", t, "load")}
  ELSE Findings(docs, x, "error", {"extensions"}) \cup Findings(docs, x, "warn", {"commitments"})

lintVersion(docs, version) ==
  LET x == loadYamlWithIncludes(docs, version.scenario) IN
  IF x = Invalid THEN {Finding("error", version.scenario, "load")}
  ELSE Findings(docs, x, "error",
                {"slug", "description", "extensions", "policyRules", "agentRef"})
       \cup Findings(docs, x, "warn", {"policy"})
       \cup UNION {lintTemplate(docs, t) : t \in version.templates}

lintPack(d, e) ==
  LET f == d.dirs[e].pack
      x == loadYamlWithIncludes(d.docs, f)
  IN CASE x = Invalid -> {Finding("error", f, "load")}
       [] x # Invalid /\ d.docs[x].text # "mapping" -> {Finding("error", f, "shape")}
       [] OTHER ->
            (IF d.docs[x].slug = "" \/ "slug" \in d.docs[x].problems
               THEN {Finding("error", f, "slug")} ELSE {})
            \cup UNION {lintVersion(d.docs, v) : v \in listScenarioVersionDirs(d, e)}

(* The exit code 0. *)
runLint(d) ==
  /\ listPackDirs(d) # {}
  /\ \A e \in listPackDirs(d) : \A f \in lintPack(d, e) : f.level # "error"

-----------------------------------------------------------------------------
(* validate *)

(* Mutation: apiVersion and kind are left to the loader.                     *)
HeaderTrusted(doc) == doc.text = "mapping"

Header(doc) == doc.text = "mapping" /\ doc.apiVersion /\ doc.kind = "ScenarioVersion"

validateTemplate(docs, t) ==
  LET x == loadYamlWithIncludes(docs, t) IN x # Invalid /\ "extensions" \notin docs[x].problems

(* The exit code 0. *)
runValidate(docs, version) ==
  LET x == loadYamlWithIncludes(docs, version.scenario) IN
  /\ x # Invalid
  /\ Header(docs[x])
  /\ docs[x].problems \cap
       {"metadata", "schema", "fixture", "placeholder", "extensions", "agentRef"} = {}
  /\ \A t \in version.templates : validateTemplate(docs, t)
=============================================================================
