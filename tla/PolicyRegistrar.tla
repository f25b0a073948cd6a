-------------------------- MODULE PolicyRegistrar ---------------------------
(***************************************************************************)
(* Policy registration at service start                                    *)
(* (src/policy/policy-registrar.service.ts, policy-loader.service.ts) by    *)
(* the instances of a deployment, which share one runtime.                  *)
(*                                                                         *)
(* An RPC is one step: the runtime's action and the registrar's handling of *)
(* the answer, which touches the registrar's own counts only.  Instead of    *)
(* counts, outcome[i] says of each policy how instance i counted it.        *)
(***************************************************************************)
EXTENDS Naturals, SequencesExt

CONSTANTS Instances, Ids, Versions,
          ReservedPolicy, \* policy.default
          Unreadable,     \* a policy file that does not parse or has no policy_id
          Files,          \* per instance, its policy files in the order of the directory
          MaxRestarts     \* how often the runtime may restart

FileRecord == [id : Ids \cup {ReservedPolicy, Unreadable}, version : Versions]

ASSUME RegistrarAssumption == /\ Files \in [Instances -> Seq(FileRecord)]
                              /\ MaxRestarts \in Nat
                              /\ ReservedPolicy \notin Ids /\ Unreadable \notin Ids
                              /\ 0 \notin Versions

VARIABLES registry,  \* the runtime: the schema version it holds of each policy, 0 if none
          readOnly,  \* it owns its registry from MACP_POLICIES_DIR
          hasCodes,  \* it is recent enough to send macp-error-code
          restarts,  \* how often it has restarted
          pc,        \* where each instance's pass is
          next,      \* the index of its next policy
          verifying, \* its readOnlyRegistry flag
          outcome,   \* how it counted each policy
          drift,     \* the policies it reported as drifted
          unread,    \* the policies it could not read back
          begunAt,   \* how often the runtime had restarted when its pass began
          misled     \* history: the instances whose passes an error without a code switched

vars == <<registry, readOnly, hasCodes, restarts, pc, next, verifying, outcome, drift, unread,
          begunAt, misled>>
runtimeVars == <<registry, readOnly, hasCodes, restarts>>

-----------------------------------------------------------------------------
(* PolicyLoaderService: an unreadable file is skipped, a later file with the *)
(* same policy_id replaces an earlier one, in its place.                     *)

Loaded(policies, file) ==
  IF file.id = Unreadable THEN policies
  ELSE IF \E k \in DOMAIN policies : policies[k].id = file.id
    THEN [k \in DOMAIN policies |-> IF policies[k].id = file.id THEN file ELSE policies[k]]
    ELSE Append(policies, file)

listAvailablePolicies(files) ==
  LET load[k \in 0 .. Len(files)] == IF k = 0 THEN <<>> ELSE Loaded(load[k - 1], files[k])
  IN  load[Len(files)]

(* Mutation: policy.default is not left out. *)
listEveryPolicy(files) == listAvailablePolicies(files)

(* The policies have different ids, so there is one to leave out at most.    *)
listRegistrablePolicies(files) ==
  RemoveFirstMatch(listAvailablePolicies(files), LAMBDA p : p.id = ReservedPolicy)

Registrable == [i \in Instances |-> listRegistrablePolicies(Files[i])]
Policy(i) == Registrable[i][next[i]]

Init ==
  /\ registry \in [Ids -> Versions \cup {0}]
  /\ readOnly \in BOOLEAN /\ hasCodes \in BOOLEAN
  /\ restarts = 0
  /\ pc = [i \in Instances |-> "starting"]
  /\ next = [i \in Instances |-> 1]
  /\ verifying = [i \in Instances |-> FALSE]
  /\ outcome = [i \in Instances |-> [p \in Ids |-> "none"]]
  /\ drift = [i \in Instances |-> {}]
  /\ unread = [i \in Instances |-> {}]
  /\ begunAt = [i \in Instances |-> 0]
  /\ misled = {}

(* A writable registry lives in memory. *)
Restart ==
  /\ restarts < MaxRestarts
  /\ restarts' = restarts + 1
  /\ registry' = IF readOnly THEN registry ELSE [p \in Ids |-> 0]
  /\ UNCHANGED <<readOnly, hasCodes, pc, next, verifying, outcome, drift, unread, begunAt, misled>>

-----------------------------------------------------------------------------
(* onApplicationBootstrap, up to the loop *)

Start(i) ==
  /\ pc[i] = "starting"
  /\ pc' = [pc EXCEPT ![i] = IF Registrable[i] = <<>> THEN "done" ELSE "minting"]
  /\ begunAt' = [begunAt EXCEPT ![i] = restarts]
  /\ UNCHANGED <<runtimeVars, next, verifying, outcome, drift, unread, misled>>

Mint(i) ==
  /\ pc[i] = "minting"
  /\ pc' \in {[pc EXCEPT ![i] = "registering"], [pc EXCEPT ![i] = "aborted"]}
  /\ UNCHANGED <<runtimeVars, next, verifying, outcome, drift, unread, begunAt, misled>>

(* The end of an iteration: the next policy, registered or only verified. *)
Advance(i, isVerifying) ==
  /\ next' = [next EXCEPT ![i] = @ + 1]
  /\ pc' = [pc EXCEPT ![i] = IF next[i] = Len(Registrable[i]) THEN "done"
                             ELSE IF isVerifying THEN "verifying" ELSE "registering"]

Count(i, how) == outcome' = [outcome EXCEPT ![i][Policy(i).id] = how]

-----------------------------------------------------------------------------
(* registerPolicy and what is made of its answer *)

RegisterOk(i) ==
  LET p == Policy(i) IN
  /\ pc[i] = "registering" /\ ~readOnly /\ registry[p.id] = 0
  /\ registry' = [registry EXCEPT ![p.id] = p.version]
  /\ Count(i, "registered") \/ Count(i, "failed") \* the answer may be lost
  /\ Advance(i, FALSE)
  /\ UNCHANGED <<readOnly, hasCodes, restarts, verifying, drift, unread, begunAt, misled>>

(* Mutation: already registered is taken for a clean match. *)
AlreadyUnchecked(i) ==
  /\ pc[i] = "registering" /\ ~readOnly /\ registry[Policy(i).id] # 0
  /\ Count(i, "already")
  /\ Advance(i, FALSE)
  /\ UNCHANGED <<runtimeVars, verifying, drift, unread, begunAt, misled>>

AlreadyRegistered(i) ==
  /\ pc[i] = "registering" /\ ~readOnly /\ registry[Policy(i).id] # 0
  /\ Count(i, "already")
  /\ pc' = [pc EXCEPT ![i] = "comparing"]
  /\ UNCHANGED <<runtimeVars, next, verifying, drift, unread, begunAt, misled>>

(* What else registerPolicy may report.  Only an exception of a runtime that  *)
(* sends codes can carry one; the error of an answer never does, whatever    *)
(* the runtime.  The text of any of them may read like a read-only           *)
(* registry's (FAILED_PRECONDITION does, whatever its cause).                *)
Codes == {""} \cup IF ~hasCodes THEN {}
                   ELSE IF readOnly THEN {"REGISTRY_READ_ONLY", "OTHER"} ELSE {"OTHER"}
Errors == [code : Codes, readsReadOnly : BOOLEAN]

(* Mutation: the text is enough. *)
ReadsReadOnly(e) == e.code = "REGISTRY_READ_ONLY" \/ e.readsReadOnly

isReadOnlyRegistryError(e) ==
  IF e.code # "" THEN e.code = "REGISTRY_READ_ONLY" ELSE e.readsReadOnly

(* Mutation: the policy refused first is not verified. *)
RefusedForgotten(i) ==
  \E e \in Errors :
    /\ pc[i] = "registering"
    /\ IF isReadOnlyRegistryError(e)
         THEN /\ verifying' = [verifying EXCEPT ![i] = TRUE]
              /\ misled' = IF e.code = "" THEN misled \cup {i} ELSE misled
              /\ Advance(i, TRUE)
              /\ UNCHANGED outcome
         ELSE /\ Count(i, "failed")
              /\ Advance(i, FALSE)
              /\ UNCHANGED <<verifying, misled>>
    /\ UNCHANGED <<runtimeVars, drift, unread, begunAt>>

Refused(i) ==
  \E e \in Errors :
    /\ pc[i] = "registering"
    /\ \/ /\ isReadOnlyRegistryError(e)
          /\ verifying' = [verifying EXCEPT ![i] = TRUE]
          /\ misled' = IF e.code = "" THEN misled \cup {i} ELSE misled
          /\ pc' = [pc EXCEPT ![i] = "verifying"]
          /\ UNCHANGED <<next, outcome>>
       \/ /\ ~isReadOnlyRegistryError(e)
          /\ Count(i, "failed")
          /\ Advance(i, FALSE)
          /\ UNCHANGED <<verifying, misled>>
    /\ UNCHANGED <<runtimeVars, drift, unread, begunAt>>

-----------------------------------------------------------------------------
(* compareSchemaVersion *)
Compare(i) ==
  LET p == Policy(i) IN
  drift' = [drift EXCEPT ![i] = IF registry[p.id] # p.version THEN @ \cup {p.id} ELSE @]

(* checkSchemaDrift: a read that fails is only logged. *)
checkSchemaDrift(i) ==
  /\ pc[i] = "comparing"
  /\ \/ /\ registry[Policy(i).id] # 0
        /\ Compare(i)
        /\ UNCHANGED unread
     \/ /\ unread' = [unread EXCEPT ![i] = @ \cup {Policy(i).id}]
        /\ UNCHANGED drift
  /\ Advance(i, FALSE)
  /\ UNCHANGED <<runtimeVars, verifying, outcome, begunAt, misled>>

(* Mutation: any answer counts as managed. *)
VerifyTrusting(i) ==
  /\ pc[i] = "verifying"
  /\ Count(i, "managed")
  /\ Compare(i)
  /\ Advance(i, TRUE)
  /\ UNCHANGED <<runtimeVars, verifying, unread, begunAt, misled>>

(* A read that fails, for whatever reason, counts as missing. *)
verifyManagedPolicy(i) ==
  /\ pc[i] = "verifying"
  /\ \/ /\ registry[Policy(i).id] # 0
        /\ Count(i, "managed")
        /\ Compare(i)
     \/ /\ Count(i, "missing")
        /\ UNCHANGED drift
  /\ Advance(i, TRUE)
  /\ UNCHANGED <<runtimeVars, verifying, unread, begunAt, misled>>

-----------------------------------------------------------------------------
Step(i) == \/ Start(i) \/ Mint(i)
           \/ RegisterOk(i) \/ AlreadyRegistered(i) \/ Refused(i)
           \/ checkSchemaDrift(i) \/ verifyManagedPolicy(i)

Next == Restart \/ \E i \in Instances : Step(i)

(* Every await of the pass is settled, one way or the other. *)
Spec == Init /\ [][Next]_vars
FairSpec == Spec /\ \A i \in Instances : WF_vars(Step(i))

-----------------------------------------------------------------------------
TypeOK ==
  /\ registry \in [Ids -> Versions \cup {0}]
  /\ readOnly \in BOOLEAN /\ hasCodes \in BOOLEAN
  /\ restarts \in 0 .. MaxRestarts
  /\ pc \in [Instances -> {"starting", "minting", "registering", "comparing", "verifying",
                           "done", "aborted"}]
  /\ \A i \in Instances :
       /\ next[i] \in 1 .. Len(Registrable[i]) + 1
       /\ pc[i] \in {"registering", "comparing", "verifying"} =>
            next[i] <= Len(Registrable[i]) /\ Policy(i).id \in Ids
  /\ verifying \in [Instances -> BOOLEAN]
  /\ outcome \in [Instances -> [Ids -> {"none", "registered", "already", "managed",
                                        "missing", "failed"}]]
  /\ drift \in [Instances -> SUBSET Ids] /\ unread \in [Instances -> SUBSET Ids]
  /\ begunAt \in [Instances -> 0 .. MaxRestarts]
  /\ misled \subseteq Instances

Undisturbed(i) == begunAt[i] = restarts

(* A policy the log counts as registered, already registered or managed by   *)
(* the runtime is one a launch finds there, unless the runtime has restarted *)
(* since the pass began; whoever registered it.                              *)
CountedPoliciesArePresent ==
  \A i \in Instances, p \in Ids :
    /\ outcome[i][p] \in {"registered", "already", "managed"}
    /\ Undisturbed(i)
    => registry[p] # 0

(* Drift is reported exactly: of the policies counted as present, those the  *)
(* runtime holds in another schema version are reported, unless they could   *)
(* not be read back (which is logged) or are about to be; and no others are. *)
(* Two instances with different files may be registering at once.            *)
DriftIsReported ==
  \A i \in Instances : Undisturbed(i) =>
    \A k \in 1 .. Len(Registrable[i]) :
      LET p == Registrable[i][k] IN
      /\ outcome[i][p.id] \in {"registered", "already", "managed"}
      /\ p.id \notin unread[i]
      /\ ~(pc[i] = "comparing" /\ next[i] = k)
      => (p.id \in drift[i]) = (registry[p.id] # p.version)

(* A policy that a finished pass leaves the runtime without is not lost from  *)
(* sight: it was refused on its own account, or the closing error names it as *)
(* missing from a read-only registry.  That error is given only if the pass   *)
(* switched, and is wrong about the registry only if an error without a code  *)
(* misled it: neither a code nor what another instance registers meanwhile    *)
(* can make a pass give up the policies of a writable registry.              *)
AbsentPoliciesAreNamed ==
  \A i \in Instances : pc[i] = "done" /\ Undisturbed(i) =>
    \A k \in DOMAIN Registrable[i] :
      LET p == Registrable[i][k].id IN
      registry[p] = 0 =>
        \/ outcome[i][p] = "failed"
        \/ outcome[i][p] = "missing" /\ verifying[i] /\ (readOnly \/ i \in misled)

(* A pass ends with every policy accounted for, or without a token; one      *)
(* policy that fails, is missing or is refused does not stop it.             *)
EveryPassEnds ==
  \A i \in Instances :
    <>(\/ pc[i] = "aborted"
       \/ /\ pc[i] = "done"
          /\ \A k \in DOMAIN Registrable[i] : outcome[i][Registrable[i][k].id] # "none")
=============================================================================
