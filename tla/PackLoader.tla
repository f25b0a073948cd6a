----------------------------- MODULE PackLoader -----------------------------
(***************************************************************************)
(* FileRegistryLoader (src/registry/file-registry.loader.ts): loadAll walks *)
(* the packs directory, one entry, scenario, version and template at a      *)
(* time, in the order readdir happens to give, and builds the snapshot that *)
(* RegistryIndex serves.  A document that is no mapping costs its pack or   *)
(* its version; one that is wrong or cannot be parsed ends the load.        *)
(*                                                                         *)
(* The packs directory does not change during a load.  The loader's catch   *)
(* of errors other than AppException is unreachable: parseYamlFile wraps    *)
(* them and the directory reads have catches of their own.                  *)
(***************************************************************************)
EXTENDS IncludeResolver

CONSTANTS Disks,   \* the packs directories to load
          NoFile

(* The walk reads by name only YAML files, which are there.                  *)
IsYamlFile(docs, f) == f \in DOMAIN docs /\ docs[f].ext = "yaml" /\ docs[f].text # "missing"

ASSUME DisksAssumption ==
  \A d \in Disks :
    /\ Documents(d.docs)
    /\ \A e \in DOMAIN d.dirs :
         /\ d.dirs[e].pack # NoFile => IsYamlFile(d.docs, d.dirs[e].pack)
         /\ \A s \in DOMAIN d.dirs[e].scenarios :
              \A v \in DOMAIN d.dirs[e].scenarios[s] :
                LET version == d.dirs[e].scenarios[s][v] IN
                /\ version.scenario # NoFile => IsYamlFile(d.docs, version.scenario)
                /\ \A t \in version.templates : IsYamlFile(d.docs, t)

VARIABLES disk,    \* the packs directory: see CatalogueLoad
          pc,      \* the loop the walk is in
          todo,    \* the names each loop has still to visit
          at,      \* the pack, scenario and version it is in
          built    \* the maps built so far, one per loop

vars == <<disk, pc, todo, at, built>>

Empty == [k \in {} |-> {}]

put(f, key, value) ==
  [k \in DOMAIN f \cup {key} |-> IF k = key THEN value ELSE f[k]]

Init ==
  /\ disk \in Disks
  /\ pc = "start"
  /\ todo = [dirs |-> {}, scenarios |-> {}, versions |-> {}, templates |-> {}]
  /\ at = [dir |-> "", pack |-> "", scenario |-> "", version |-> "", doc |-> ""]
  /\ built = [packs |-> Empty, scenarios |-> Empty, versions |-> Empty, templates |-> Empty]

parseYamlFile(f) == loadYamlWithIncludes(disk.docs, f)

isMappingDocument(x) == disk.docs[x].text = "mapping"

(* The document is no mapping: logged, and skipped.                          *)
Placeholder(x) == x # Invalid /\ ~isMappingDocument(x)

Claims(x, kind) == disk.docs[x].apiVersion /\ disk.docs[x].kind = kind

(* loadPackFile, loadScenarioFile throw *)
BadPack(x) ==
  x # Invalid => isMappingDocument(x) /\ ~(Claims(x, "ScenarioPack") /\ disk.docs[x].slug # "")

BadScenario(x) == x # Invalid => isMappingDocument(x) /\ ~Claims(x, "ScenarioVersion")

Throw ==
  /\ pc' = "failed"
  /\ UNCHANGED <<disk, todo, at, built>>

-----------------------------------------------------------------------------
(* loadAll *)

ReadPacksDir ==
  /\ pc = "start"
  /\ IF disk.exists
       THEN pc' = "dirs" /\ todo' = [todo EXCEPT !.dirs = DOMAIN disk.dirs]
       ELSE pc' = "loaded" /\ UNCHANGED todo
  /\ UNCHANGED <<disk, at, built>>

IsPackDir(e) == disk.dirs[e].kind \in {"dir", "link"} /\ disk.dirs[e].pack # NoFile

SkipEntry(e) ==
  /\ pc = "dirs" /\ e \in todo.dirs
  /\ IsPackDir(e) => Placeholder(parseYamlFile(disk.dirs[e].pack))
  /\ todo' = [todo EXCEPT !.dirs = @ \ {e}]
  /\ UNCHANGED <<disk, pc, at, built>>

RejectPack(e) ==
  /\ pc = "dirs" /\ e \in todo.dirs
  /\ IsPackDir(e) /\ BadPack(parseYamlFile(disk.dirs[e].pack))
  /\ Throw

OpenPack(e) ==
  LET x == parseYamlFile(disk.dirs[e].pack) IN
  /\ pc = "dirs" /\ e \in todo.dirs
  /\ IsPackDir(e) /\ ~BadPack(x) /\ ~Placeholder(x)
  /\ pc' = "scenarios"
  /\ todo' = [todo EXCEPT !.dirs = @ \ {e}, !.scenarios = DOMAIN disk.dirs[e].scenarios]
  /\ at' = [at EXCEPT !.dir = e, !.pack = x]
  /\ built' = [built EXCEPT !.scenarios = Empty]
  /\ UNCHANGED disk

(* packs.set: a later pack of the same slug replaces the earlier one.        *)
ClosePack ==
  /\ pc = "scenarios" /\ todo.scenarios = {}
  /\ pc' = "dirs"
  /\ built' = [built EXCEPT !.packs =
       put(@, disk.docs[at.pack].slug, [pack |-> at.pack, scenarios |-> built.scenarios])]
  /\ UNCHANGED <<disk, todo, at>>

Return ==
  /\ pc = "dirs" /\ todo.dirs = {}
  /\ pc' = "loaded"
  /\ UNCHANGED <<disk, todo, at, built>>

-----------------------------------------------------------------------------
(* discoverScenarios *)

OpenScenario(s) ==
  /\ pc = "scenarios" /\ s \in todo.scenarios
  /\ pc' = "versions"
  /\ todo' = [todo EXCEPT !.scenarios = @ \ {s},
                          !.versions = DOMAIN disk.dirs[at.dir].scenarios[s]]
  /\ at' = [at EXCEPT !.scenario = s]
  /\ built' = [built EXCEPT !.versions = Empty]
  /\ UNCHANGED disk

CloseScenario ==
  /\ pc = "versions" /\ todo.versions = {}
  /\ pc' = "scenarios"
  /\ built' = IF built.versions = Empty THEN built
              ELSE [built EXCEPT !.scenarios = put(@, at.scenario, built.versions)]
  /\ UNCHANGED <<disk, todo, at>>

-----------------------------------------------------------------------------
(* discoverVersions *)

VersionDir(v) == disk.dirs[at.dir].scenarios[at.scenario][v]

(* Mutation: a version that is no mapping is met again and again.            *)
SkipVersionForgotten(v) ==
  /\ pc = "versions" /\ v \in todo.versions
  /\ VersionDir(v).scenario = NoFile
  /\ todo' = [todo EXCEPT !.versions = @ \ {v}]
  /\ UNCHANGED <<disk, pc, at, built>>

SkipVersion(v) ==
  /\ pc = "versions" /\ v \in todo.versions
  /\ VersionDir(v).scenario # NoFile => Placeholder(parseYamlFile(VersionDir(v).scenario))
  /\ todo' = [todo EXCEPT !.versions = @ \ {v}]
  /\ UNCHANGED <<disk, pc, at, built>>

RejectVersion(v) ==
  /\ pc = "versions" /\ v \in todo.versions
  /\ VersionDir(v).scenario # NoFile
  /\ BadScenario(parseYamlFile(VersionDir(v).scenario))
  /\ Throw

OpenVersion(v) ==
  LET x == parseYamlFile(VersionDir(v).scenario) IN
  /\ pc = "versions" /\ v \in todo.versions
  /\ VersionDir(v).scenario # NoFile
  /\ ~BadScenario(x) /\ ~Placeholder(x)
  /\ pc' = "templates"
  /\ todo' = [todo EXCEPT !.versions = @ \ {v}, !.templates = VersionDir(v).templates]
  /\ at' = [at EXCEPT !.version = v, !.doc = x]
  /\ built' = [built EXCEPT !.templates = Empty]
  /\ UNCHANGED disk

CloseVersion ==
  /\ pc = "templates" /\ todo.templates = {}
  /\ pc' = "versions"
  /\ built' = [built EXCEPT !.versions =
       put(@, at.version, [scenario |-> at.doc, templates |-> built.templates])]
  /\ UNCHANGED <<disk, todo, at>>

-----------------------------------------------------------------------------
(* discoverTemplates *)

IsTemplate(x) ==
  isMappingDocument(x) /\ disk.docs[x].kind = "ScenarioTemplate" /\ disk.docs[x].slug # ""

ReadTemplate(t) ==
  LET x == parseYamlFile(t) IN
  /\ pc = "templates" /\ t \in todo.templates
  /\ x # Invalid
  /\ todo' = [todo EXCEPT !.templates = @ \ {t}]
  /\ built' = IF IsTemplate(x)
                THEN [built EXCEPT !.templates = put(@, disk.docs[x].slug, x)]
                ELSE built
  /\ UNCHANGED <<disk, pc, at>>

RejectTemplate(t) ==
  /\ pc = "templates" /\ t \in todo.templates
  /\ parseYamlFile(t) = Invalid
  /\ Throw

-----------------------------------------------------------------------------
Next ==
  \/ ReadPacksDir \/ Return
  \/ \E e \in todo.dirs : SkipEntry(e) \/ RejectPack(e) \/ OpenPack(e)
  \/ \E s \in todo.scenarios : OpenScenario(s)
  \/ \E v \in todo.versions : SkipVersion(v) \/ RejectVersion(v) \/ OpenVersion(v)
  \/ \E t \in todo.templates : ReadTemplate(t) \/ RejectTemplate(t)
  \/ CloseVersion \/ CloseScenario \/ ClosePack

Spec == Init /\ [][Next]_vars

(* File reads end and awaits resume. *)
FairSpec == Spec /\ WF_vars(Next)

-----------------------------------------------------------------------------
Outcome ==
  [state |-> IF pc \in {"loaded", "failed"} THEN pc ELSE "pending",
   packs |-> IF pc = "loaded" THEN built.packs ELSE Empty]

Catalogue == INSTANCE CatalogueLoad WITH outcome <- Outcome
Checks == INSTANCE ScenarioChecks

(* The walk, whatever the order of the directories and however the includes  *)
(* share and circle, is one load of the whole catalogue: everything that is  *)
(* right is served, what is no document of its kind costs itself only, and   *)
(* what is wrong anywhere fails the load.                                    *)
LoadsTheCatalogue == Catalogue!Spec

(* Every load ends: no chain of includes and no directory keeps it.          *)
LoadEnds == <>(pc \in {"loaded", "failed"})

(* Neither check looks at the header of pack.yaml, at a linked directory or  *)
(* at a slug two packs share.                                               *)
Unchecked ==
  \/ \E e \in DOMAIN disk.dirs : disk.dirs[e].kind = "link"
  \/ \E e \in Checks!listPackDirs(disk) :
       LET x == parseYamlFile(disk.dirs[e].pack) IN
       /\ x # Invalid
       /\ \/ ~Claims(x, "ScenarioPack")
          \/ \E f \in Checks!listPackDirs(disk) \ {e} :
               LET y == parseYamlFile(disk.dirs[f].pack) IN
               y # Invalid /\ disk.docs[x].slug = disk.docs[y].slug

(* Packs that pass lint, with scenarios that all pass validate, are served:  *)
(* the load succeeds and no pack and no version is left out.  What the two   *)
(* checks do not look at is excluded by name.                               *)
CheckedPacksAreServed ==
  /\ pc \in {"loaded", "failed"}
  /\ Checks!runLint(disk)
  /\ \A e \in Checks!listPackDirs(disk) :
       \A v \in Checks!listScenarioVersionDirs(disk, e) : Checks!runValidate(disk.docs, v)
  /\ ~Unchecked
  => /\ pc = "loaded"
     /\ \A e \in Checks!listPackDirs(disk) :
          \E slug \in DOMAIN built.packs : \A s \in DOMAIN disk.dirs[e].scenarios :
            \A v \in Catalogue!Versions(disk, e, s) :
              /\ built.packs[slug].pack = parseYamlFile(disk.dirs[e].pack)
              /\ v \in DOMAIN built.packs[slug].scenarios[s]
=============================================================================
