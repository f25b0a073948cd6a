---------------------------- MODULE MCPackLoader ----------------------------
(***************************************************************************)
(* PackLoader on two pack directories, a shared hidden directory and a stray *)
(* file: every single defect of every document, every include graph over     *)
(* three fragments, and the shapes of a directory tree.                      *)
(***************************************************************************)
EXTENDS PackLoader

Doc(text, kind, slug, includes) ==
  [text |-> text, ext |-> "yaml", inside |-> TRUE, includes |-> includes, apiVersion |-> TRUE,
   kind |-> kind, slug |-> slug, problems |-> {}]

Fragment == Doc("mapping", "other", "", {})

Fragments == {"x", "y", "z"}

BaseDocs ==
  [f \in {"packA", "packB", "s1", "s2", "t1", "t2"} \cup Fragments |->
     CASE f = "packA" -> Doc("mapping", "ScenarioPack", "a", {})
       [] f = "packB" -> Doc("mapping", "ScenarioPack", "b", {})
       [] f \in {"s1", "s2"} -> Doc("mapping", "ScenarioVersion", "", {"x", "y"})
       [] f = "t1" -> Doc("mapping", "ScenarioTemplate", "default", {})
       [] f = "t2" -> Doc("mapping", "ScenarioTemplate", "strict", {"y"})
       [] f \in Fragments -> Fragment]

Version(s, ts) == [scenario |-> s, templates |-> ts]

BaseDirs ==
  [e \in {"A", "B", "_shared", "notes"} |->
     CASE e = "A" -> [kind |-> "dir", pack |-> "packA",
                      scenarios |-> [p \in {"p"} |-> [v \in {"v1", "v2"} |->
                        IF v = "v1" THEN Version("s1", {"t1", "t2"}) ELSE Version("s2", {})]]]
       [] e = "B" -> [kind |-> "dir", pack |-> "packB",
                      scenarios |-> [q \in {"q", "readme"} |->
                        IF q = "q" THEN [v \in {"v1", "tmp"} |->
                                           Version(IF v = "v1" THEN "s2" ELSE NoFile, {})]
                                   ELSE Empty]]
       [] e = "_shared" -> [kind |-> "hidden", pack |-> "packB", scenarios |-> Empty]
       [] e = "notes" -> [kind |-> "file", pack |-> NoFile, scenarios |-> Empty]]

Disk(docs, dirs) == [exists |-> TRUE, docs |-> docs, dirs |-> dirs]

(* What one edit may make of a document. *)
Defects(doc) ==
  {[doc EXCEPT !.text = "broken"], [doc EXCEPT !.text = "other", !.includes = {}],
   [doc EXCEPT !.text = "alias", !.includes = {"z"}], [doc EXCEPT !.apiVersion = FALSE],
   [doc EXCEPT !.kind = "other"], [doc EXCEPT !.kind = "ScenarioTemplate"],
   [doc EXCEPT !.slug = ""], [doc EXCEPT !.slug = "default"],
   [doc EXCEPT !.ext = "json", !.text = "broken"], [doc EXCEPT !.ext = "json"],
   [doc EXCEPT !.ext = "other"], [doc EXCEPT !.inside = FALSE],
   [doc EXCEPT !.text = "missing", !.includes = {}], doc}
  \cup {[doc EXCEPT !.problems = {p}] : p \in {"slug", "extensions", "placeholder", "policy"}}

(* Files the walk reads by name are YAML files under the packs directory.    *)
Roots == {"packA", "packB", "s1", "s2", "t1", "t2"}

Possible(f, doc) == f \in Roots => doc.ext = "yaml" /\ doc.inside /\ doc.text # "missing"

OneEdit(docs) ==
  {[docs EXCEPT ![f] = doc] : <<f, doc>> \in
     UNION {{f} \X {doc \in Defects(docs[f]) : Possible(f, doc)} : f \in DOMAIN docs}}

(* The alias target, and s1 after one edit of it. *)
AliasDocs == {[BaseDocs EXCEPT !["s1"] = [@ EXCEPT !.text = "alias", !.includes = {"z"}],
                               !["z"] = z] :
                z \in {Doc("mapping", "ScenarioVersion", "", {"x"}), Doc("other", "other", "", {}),
                       Doc("mapping", "other", "", {}), Doc("broken", "other", "", {}),
                       Doc("alias", "other", "", {"x"}), Doc("alias", "other", "", {"s1"})}}

GraphDocs ==
  {[f \in DOMAIN BaseDocs |->
      IF f \in Fragments THEN [Fragment EXCEPT !.includes = g[f]] ELSE BaseDocs[f]] :
     g \in [Fragments -> SUBSET Fragments]}

DirShapes ==
  {BaseDirs, [BaseDirs EXCEPT !["B"].kind = "link"], [BaseDirs EXCEPT !["B"].kind = "hidden"],
   [BaseDirs EXCEPT !["B"].pack = NoFile], [BaseDirs EXCEPT !["B"].pack = "packA"]}

MCDisks ==
  {Disk(docs, BaseDirs) : docs \in OneEdit(BaseDocs) \cup AliasDocs \cup GraphDocs}
  \cup {Disk(docs, dirs) : docs \in OneEdit(BaseDocs), dirs \in DirShapes}
  \cup {[exists |-> FALSE, docs |-> BaseDocs, dirs |-> BaseDirs]}

=============================================================================
