--------------------------- MODULE CatalogueLoad ----------------------------
(***************************************************************************)
(* What reading the packs promises, in one step: the whole catalogue, or an *)
(* error.  PackLoader shows that the walk over directories and files does   *)
(* this.                                                                    *)
(*                                                                         *)
(* The packs directory is a record: exists; dirs, a function from entry     *)
(* names to [kind, pack, scenarios]; and docs, its documents (see           *)
(* IncludeResolver).  The kind of an entry is "dir", "link" (to a           *)
(* directory), "file" or "hidden" (its name starts with "_"); pack is the   *)
(* file pack.yaml or NoFile; scenarios maps scenario names to functions     *)
(* from versions to [scenario, templates], a file or NoFile and the YAML    *)
(* files under templates/.                                                  *)
(***************************************************************************)
EXTENDS Naturals, FiniteSets

CONSTANT NoFile

VARIABLES disk,    \* the packs directory
          outcome  \* [state, packs]

vars == <<disk, outcome>>

NoPacks == [slug \in {} |-> {}]

Pending == [state |-> "pending", packs |-> NoPacks]
Failed  == [state |-> "failed", packs |-> NoPacks]

-----------------------------------------------------------------------------
(* Documents, by reachability *)

Includes(docs) ==
  {e \in (DOMAIN docs) \X (DOMAIN docs) : docs[e[1]].ext # "json" /\ e[2] \in docs[e[1]].includes}

(* The files that any number of edges lead to from f. *)
Reachable(docs, edges, f) ==
  LET N == Cardinality(DOMAIN docs)
      within[n \in 0 .. N] ==
        IF n = 0 THEN {f}
        ELSE LET closer == within[n - 1]
             IN closer \cup {e[2] : e \in {e \in edges : e[1] \in closer}}
  IN within[N]

(* A document is broken if an include leads, in any number of steps, to one  *)
(* that cannot be read or may not be included, or in a circle.              *)
Broken(docs, f) ==
  LET edges == Includes(docs) IN
  \E g \in Reachable(docs, edges, f) :
    \/ docs[g].text = "broken"
    \/ g # f /\ ~(docs[g].inside /\ docs[g].ext # "other" /\ docs[g].text # "missing")
    \/ \E e \in edges : e[1] = g /\ g \in Reachable(docs, edges, e[2])

(* The document at the end of a chain of aliases. *)
Data(docs, f) ==
  LET aliases == {e \in Includes(docs) : docs[e[1]].text = "alias"} IN
  CHOOSE g \in Reachable(docs, aliases, f) : docs[g].text # "alias"

IsMapping(docs, f) == ~Broken(docs, f) /\ docs[Data(docs, f)].text = "mapping"

(* A document that claims to be one of the given kind and is wrong.          *)
Wrong(docs, f, kind) ==
  \/ Broken(docs, f)
  \/ IsMapping(docs, f) /\ LET d == docs[Data(docs, f)] IN ~d.apiVersion \/ d.kind # kind

-----------------------------------------------------------------------------
(* The catalogue *)

PackDirs(d) ==
  IF d.exists
    THEN {e \in DOMAIN d.dirs : d.dirs[e].kind \in {"dir", "link"} /\ d.dirs[e].pack # NoFile}
    ELSE {}

Slug(d, e) == d.docs[Data(d.docs, d.dirs[e].pack)].slug

Versions(d, e, s) ==
  {v \in DOMAIN d.dirs[e].scenarios[s] : d.dirs[e].scenarios[s][v].scenario # NoFile}

FailsVersion(d, v) ==
  \/ Wrong(d.docs, v.scenario, "ScenarioVersion")
  \/ IsMapping(d.docs, v.scenario) /\ \E t \in v.templates : Broken(d.docs, t)

FailsPack(d, e) ==
  \/ Wrong(d.docs, d.dirs[e].pack, "ScenarioPack")
  \/ /\ IsMapping(d.docs, d.dirs[e].pack)
     /\ \/ Slug(d, e) = ""
        \/ \E s \in DOMAIN d.dirs[e].scenarios :
             \E v \in Versions(d, e, s) : FailsVersion(d, d.dirs[e].scenarios[s][v])

Templates(d, v) ==
  {t \in v.templates : d.docs[Data(d.docs, t)].kind = "ScenarioTemplate"
                       /\ d.docs[Data(d.docs, t)].text = "mapping"
                       /\ d.docs[Data(d.docs, t)].slug # ""}

TemplateSlug(d, t) == d.docs[Data(d.docs, t)].slug

(* Of templates, or packs, of the same slug one is served.                   *)
ServesVersion(d, v, entry) ==
  /\ entry.scenario = Data(d.docs, v.scenario)
  /\ DOMAIN entry.templates = {TemplateSlug(d, t) : t \in Templates(d, v)}
  /\ \A slug \in DOMAIN entry.templates : \E t \in Templates(d, v) :
       TemplateSlug(d, t) = slug /\ entry.templates[slug] = Data(d.docs, t)

ServesPack(d, e, entry) ==
  LET served(s) == {v \in Versions(d, e, s) :
                      IsMapping(d.docs, d.dirs[e].scenarios[s][v].scenario)}
  IN /\ entry.pack = Data(d.docs, d.dirs[e].pack)
     /\ DOMAIN entry.scenarios = {s \in DOMAIN d.dirs[e].scenarios : served(s) # {}}
     /\ \A s \in DOMAIN entry.scenarios :
          /\ DOMAIN entry.scenarios[s] = served(s)
          /\ \A v \in served(s) :
               ServesVersion(d, d.dirs[e].scenarios[s][v], entry.scenarios[s][v])

Serves(d, packs) ==
  LET mapped == {e \in PackDirs(d) : IsMapping(d.docs, d.dirs[e].pack)} IN
  /\ DOMAIN packs = {Slug(d, e) : e \in mapped}
  /\ \A slug \in DOMAIN packs : \E e \in mapped :
       Slug(d, e) = slug /\ ServesPack(d, e, packs[slug])

-----------------------------------------------------------------------------
Init == outcome = Pending

Fails == \E e \in PackDirs(disk) : FailsPack(disk, e)

Load ==
  /\ outcome = Pending
  /\ \/ outcome' = Failed /\ Fails
     \/ outcome'.state = "loaded" /\ ~Fails /\ Serves(disk, outcome'.packs)
  /\ UNCHANGED disk

Spec == Init /\ [][Load]_vars
=============================================================================
