--------------------------- MODULE RegistryIndex ----------------------------
(***************************************************************************)
(* RegistryIndexService (src/registry/registry-index.service.ts): the      *)
(* catalogue of packs read from disk, cached for a while, with concurrent  *)
(* requests sharing one load.  A request makes one getSnapshot call, or    *)
(* two in a row when it compiles a launch from a template (the scenario    *)
(* and the template are looked up separately).                             *)
(*                                                                         *)
(* Loads are numbered in the order they start, from 1; a snapshot is known *)
(* by the number of its load, so a smaller number means older files.       *)
(***************************************************************************)
EXTENDS Naturals, Sequences, FiniteSets

CONSTANTS Requests,        \* the HTTP requests that read the catalogue
          CacheTtl,        \* REGISTRY_CACHE_TTL_MS
          MaxInvalidations,\* bound: how often invalidate() is called
          MaxTime          \* bound of the clock

ASSUME RegistryAssumption == CacheTtl \in Nat /\ MaxInvalidations \in Nat /\ MaxTime \in Nat

VARIABLES now,            \* Date.now()
          started,        \* how many loads have started
          loading,        \* the loads still reading files
          failed,         \* the loads that threw
          cachedSnapshot, \* the cached snapshot, None when null
          cachedAt,
          loadingPromise, \* the load new calls join, None when null
          requests,       \* what each request waits for and has got
          invalidations,  \* how often invalidate() was called
          reloadAfter     \* history: loads started up to an invalidate()

vars == <<now, started, loading, failed, cachedSnapshot, cachedAt, loadingPromise,
          requests, invalidations, reloadAfter>>

None == 0
Loads == 1 .. started

Init ==
  /\ now = 0
  /\ started = 0
  /\ loading = {}
  /\ failed = {}
  /\ cachedSnapshot = None
  /\ cachedAt = 0
  /\ loadingPromise = None
  /\ requests = [r \in Requests |-> [pc |-> "ready", on |-> None, got |-> <<>>,
                                     forced |-> 0, calmForced |-> 0]]
  /\ invalidations = 0
  /\ reloadAfter = [any |-> 0, calm |-> 0]

-----------------------------------------------------------------------------
(* getSnapshot, up to its first await *)

(* Mutation: the cache is trusted without asking whether it holds anything. *)
FreshUnchecked == CacheTtl > 0 /\ now - cachedAt < CacheTtl

Fresh == cachedSnapshot # None /\ CacheTtl > 0 /\ now - cachedAt < CacheTtl

MayCall(r) == requests[r].pc = "ready" /\ Len(requests[r].got) < 2

Called(r) == [requests[r] EXCEPT !.forced = reloadAfter.any, !.calmForced = reloadAfter.calm]

GetCached(r) ==
  /\ MayCall(r)
  /\ Fresh
  /\ requests' = [requests EXCEPT ![r] = [Called(r) EXCEPT !.got = Append(@, cachedSnapshot)]]
  /\ UNCHANGED <<now, started, loading, failed, cachedSnapshot, cachedAt, loadingPromise,
                 invalidations, reloadAfter>>

JoinLoad(r) ==
  /\ MayCall(r)
  /\ ~Fresh
  /\ loadingPromise # None
  /\ requests' = [requests EXCEPT ![r] = [Called(r) EXCEPT !.pc = "waiting",
                                                           !.on = loadingPromise]]
  /\ UNCHANGED <<now, started, loading, failed, cachedSnapshot, cachedAt, loadingPromise,
                 invalidations, reloadAfter>>

(* Mutation: every call starts a load of its own. *)
StartLoadAlways(r) ==
  /\ MayCall(r)
  /\ ~Fresh
  /\ started' = started + 1
  /\ loading' = loading \cup {started + 1}
  /\ loadingPromise' = started + 1
  /\ requests' = [requests EXCEPT ![r] = [Called(r) EXCEPT !.pc = "waiting", !.on = started + 1]]
  /\ UNCHANGED <<now, failed, cachedSnapshot, cachedAt, invalidations, reloadAfter>>

StartLoad(r) ==
  /\ MayCall(r)
  /\ ~Fresh
  /\ loadingPromise = None
  /\ started' = started + 1
  /\ loading' = loading \cup {started + 1}
  /\ loadingPromise' = started + 1
  /\ requests' = [requests EXCEPT ![r] = [Called(r) EXCEPT !.pc = "waiting", !.on = started + 1]]
  /\ UNCHANGED <<now, failed, cachedSnapshot, cachedAt, invalidations, reloadAfter>>

-----------------------------------------------------------------------------
(* The load's callbacks *)

(* then: install the snapshot, whatever happened to the index meanwhile.    *)
LoadCompletes(l) ==
  /\ l \in loading
  /\ loading' = loading \ {l}
  /\ cachedSnapshot' = l
  /\ cachedAt' = now
  /\ loadingPromise' = None
  /\ UNCHANGED <<now, started, failed, requests, invalidations, reloadAfter>>

(* Mutation: a failed load stays the one new calls join. *)
LoadFailsSilently(l) ==
  /\ l \in loading
  /\ loading' = loading \ {l}
  /\ failed' = failed \cup {l}
  /\ UNCHANGED <<now, started, cachedSnapshot, cachedAt, loadingPromise, requests,
                 invalidations, reloadAfter>>

(* catch: a malformed pack fails the whole load. *)
LoadFails(l) ==
  /\ l \in loading
  /\ loading' = loading \ {l}
  /\ failed' = failed \cup {l}
  /\ loadingPromise' = None
  /\ UNCHANGED <<now, started, cachedSnapshot, cachedAt, requests, invalidations, reloadAfter>>

(* Mutation: only the load that is still current answers its callers. *)
ResumeCurrent(r) ==
  LET l == requests[r].on IN
  /\ requests[r].pc = "waiting"
  /\ l \in Loads \ (loading \cup failed)
  /\ l = cachedSnapshot
  /\ requests' = [requests EXCEPT ![r] = [requests[r] EXCEPT !.pc = "ready", !.on = None,
                                                   !.got = Append(@, l)]]
  /\ UNCHANGED <<now, started, loading, failed, cachedSnapshot, cachedAt, loadingPromise,
                 invalidations, reloadAfter>>

Resume(r) ==
  LET l == requests[r].on IN
  /\ requests[r].pc = "waiting"
  /\ l \in Loads \ (loading \cup failed)
  /\ requests' = [requests EXCEPT ![r] = [requests[r] EXCEPT !.pc = "ready", !.on = None,
                                                   !.got = Append(@, l)]]
  /\ UNCHANGED <<now, started, loading, failed, cachedSnapshot, cachedAt, loadingPromise,
                 invalidations, reloadAfter>>

ResumeWithError(r) ==
  /\ requests[r].pc = "waiting"
  /\ requests[r].on \in failed
  /\ requests' = [requests EXCEPT ![r].pc = "failed"]
  /\ UNCHANGED <<now, started, loading, failed, cachedSnapshot, cachedAt, loadingPromise,
                 invalidations, reloadAfter>>

-----------------------------------------------------------------------------
(* Mutation: only the age of the cache is reset. *)
invalidateAgeOnly ==
  /\ invalidations < MaxInvalidations
  /\ invalidations' = invalidations + 1
  /\ cachedAt' = 0
  /\ reloadAfter' = [any |-> started, calm |-> IF loading = {} THEN started ELSE reloadAfter.calm]
  /\ UNCHANGED <<now, started, loading, failed, cachedSnapshot, loadingPromise, requests>>

invalidate ==
  /\ invalidations < MaxInvalidations
  /\ invalidations' = invalidations + 1
  /\ cachedSnapshot' = None
  /\ cachedAt' = 0
  /\ loadingPromise' = None
  /\ reloadAfter' = [any |-> started, calm |-> IF loading = {} THEN started ELSE reloadAfter.calm]
  /\ UNCHANGED <<now, started, loading, failed, requests>>

Tick ==
  /\ now < MaxTime
  /\ now' = now + 1
  /\ UNCHANGED <<started, loading, failed, cachedSnapshot, cachedAt, loadingPromise, requests,
                 invalidations, reloadAfter>>

getSnapshot(r) == GetCached(r) \/ JoinLoad(r) \/ StartLoad(r)

Next ==
  \/ \E r \in Requests : getSnapshot(r) \/ Resume(r) \/ ResumeWithError(r)
  \/ \E l \in Loads : LoadCompletes(l) \/ LoadFails(l)
  \/ invalidate
  \/ Tick

(* File reads end and promise callbacks run. *)
Fairness ==
  /\ \A r \in Requests : WF_vars(Resume(r)) /\ WF_vars(ResumeWithError(r))
  /\ \A l \in 1 .. 2 * Cardinality(Requests) : WF_vars(LoadCompletes(l) \/ LoadFails(l))

Spec == Init /\ [][Next]_vars
FairSpec == Spec /\ Fairness

-----------------------------------------------------------------------------
Record == [pc : {"ready", "waiting", "failed"}, on : Nat, got : Seq(Nat \ {None}),
           forced : Nat, calmForced : Nat]

TypeOK ==
  /\ now \in Nat
  /\ started \in Nat
  /\ loading \subseteq Loads
  /\ failed \subseteq Loads
  /\ cachedSnapshot \in Loads \cup {None}
  /\ cachedAt \in 0 .. now
  /\ loadingPromise \in Loads \cup {None}
  /\ requests \in [Requests -> Record]
  /\ invalidations \in 0 .. MaxInvalidations
  /\ reloadAfter \in [any : 0 .. started, calm : 0 .. started]

(* New calls never join a load that has ended: neither the callback of an   *)
(* older, invalidated load nor a failure leaves an ended load behind as the *)
(* one to join, so an error is reported to its own callers only.            *)
JoinableLoadIsRunning == loadingPromise # None => loadingPromise \in loading

(* Until invalidate() is called, which nothing does today, concurrent       *)
(* requests share one reading of the packs.                                 *)
OneLoadAtATime == invalidations = 0 => \A l, m \in loading : l = m

(* A request that compiles a launch looks the template up in a snapshot no  *)
(* older than the one it took the scenario from, whatever expires, fails or *)
(* is loaded in between, as long as nothing calls invalidate().             *)
TemplateNotOlderThanScenario ==
  \A r \in Requests :
    invalidations = 0 /\ Len(requests[r].got) = 2 => requests[r].got[1] <= requests[r].got[2]

(* An invalidate() made while nothing is being loaded is honoured: every    *)
(* snapshot a later call gets was read after it.                            *)
CalmInvalidateForcesReload ==
  \A r \in Requests : requests[r].pc = "ready" /\ requests[r].got # <<>> =>
    requests[r].got[Len(requests[r].got)] > requests[r].calmForced

(* Every request gets a snapshot or an error, including those waiting on a  *)
(* load that was invalidated or overtaken by another.                       *)
EveryRequestResumes ==
  \A r \in Requests : requests[r].pc = "waiting" ~> requests[r].pc # "waiting"

-----------------------------------------------------------------------------
(* What the documentation says of it. *)

(* "Call invalidate() to force a reload": a snapshot a call gets after any  *)
(* invalidate() was read after it.                                          *)
InvalidateForcesReload ==
  \A r \in Requests : requests[r].pc = "ready" /\ requests[r].got # <<>> =>
    requests[r].got[Len(requests[r].got)] > requests[r].forced
=============================================================================
