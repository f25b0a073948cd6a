-------------------------- MODULE IncludeResolver ---------------------------
(***************************************************************************)
(* The !include directive of pack files                                     *)
(* (src/registry/include-resolver.ts).                                      *)
(*                                                                         *)
(* docs maps file names to documents.  Of a document the model keeps        *)
(*   text      what its text is: a "mapping", some "other" document (null,  *)
(*             a sequence, a scalar, nothing but comments), an "alias"      *)
(*             (nothing but one !include), "broken", or "missing"           *)
(*   ext       "yaml", "json" or "other"                                    *)
(*   inside    whether its path is under PACKS_DIR                          *)
(*   includes  the files it includes; a file that includes what is not      *)
(*             there names a "missing" document                             *)
(* and what the loader reads in it: apiVersion (right or not), kind, slug.  *)
(***************************************************************************)
EXTENDS Naturals, FiniteSets

Invalid == "INVALID_PACK_DATA"

SUPPORTED_EXTENSIONS == {"yaml", "json"}

(* What the files of a packs directory are: JSON has no directive, and an     *)
(* alias is one.                                                             *)
Documents(docs) ==
  /\ IsFiniteSet(DOMAIN docs) /\ Invalid \notin DOMAIN docs
  /\ \A f \in DOMAIN docs :
       /\ docs[f].ext \in SUPPORTED_EXTENSIONS \cup {"other"}
       /\ docs[f].includes \subseteq DOMAIN docs
       /\ docs[f].text = "alias" =>
            docs[f].ext # "json" /\ \E g \in DOMAIN docs : docs[f].includes = {g}

(* Mutation: one visited set for the whole file, so that a fragment two      *)
(* files share reads as a cycle.                                            *)
ResolvesUnshared(docs, g, visited) ==
  /\ docs[g].inside
  /\ docs[g].ext \in SUPPORTED_EXTENSIONS
  /\ docs[g].text # "missing"
  /\ g \notin visited
  /\ Cardinality({f \in DOMAIN docs : g \in docs[f].includes}) < 2

(* resolveIncludePath; an empty path is one that is not inside.              *)
resolveIncludePath(docs, g, visited) ==
  /\ docs[g].inside
  /\ docs[g].ext \in SUPPORTED_EXTENSIONS
  /\ docs[g].text # "missing"
  /\ g \notin visited

(* What an include of g stands for, in a document reached through visited;   *)
(* parse gives what the text of a file stands for.                           *)
loadFile(docs, g, visited, parse) ==
  IF ~resolveIncludePath(docs, g, visited) THEN Invalid
  ELSE IF docs[g].ext = "json"
         THEN IF docs[g].text = "broken" THEN Invalid ELSE g
         ELSE parse[visited \cup {g}][g]

(* The document f's text stands for, or Invalid.  visited holds the files on  *)
(* the way from the root to f, f included.                                   *)
Parsed(docs, f, visited, parse) ==
  IF docs[f].text = "broken" \/ \E g \in docs[f].includes : loadFile(docs, g, visited, parse) = Invalid
    THEN Invalid
    ELSE IF docs[f].text = "alias"
           THEN loadFile(docs, CHOOSE g \in docs[f].includes : TRUE, visited, parse)
           ELSE f

parseYamlContent(docs) ==
  LET parse[visited \in SUBSET DOMAIN docs] ==
        [f \in DOMAIN docs |-> Parsed(docs, f, visited, parse)]
  IN parse

loadYamlWithIncludes(docs, f) == parseYamlContent(docs)[{f}][f]
=============================================================================
