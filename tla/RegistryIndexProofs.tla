------------------------ MODULE RegistryIndexProofs -------------------------
(* What the registry index keeps for any number of requests, any TTL and any *)
(* number of invalidations.                                                  *)
EXTENDS RegistryIndex, TLAPS

Ended == Loads \ (loading \cup failed)

(* A request waits for a load that has started; a joinable load is running.  *)
WaitInv ==
  /\ \A r \in Requests : requests[r].pc = "waiting" => requests[r].on \in Loads
  /\ JoinableLoadIsRunning

(* What a request holds is no newer than the cache or the load it waits for,  *)
(* and was given in order.                                                   *)
Ordered(rec, newest) ==
  /\ \A i \in DOMAIN rec.got : rec.got[i] <= newest
  /\ rec.pc = "waiting" => \A i \in DOMAIN rec.got : rec.got[i] <= rec.on
  /\ Len(rec.got) = 2 => rec.got[1] <= rec.got[2]

(* Loads run one after the other, so the newest that has ended well is the   *)
(* cached one.                                                               *)
Sequential ==
  /\ loading \subseteq {loadingPromise} /\ loading \subseteq {started}
  /\ \A l \in Ended : l <= cachedSnapshot

(* Until an invalidation. *)
SequentialInv ==
  invalidations = 0 => Sequential /\ \A r \in Requests : Ordered(requests[r], cachedSnapshot)

(* Whatever is loading, cached or waited for began after the last calm        *)
(* invalidation that counts for it.                                          *)
CalmInv ==
  /\ \A l \in loading : l > reloadAfter.calm
  /\ cachedSnapshot # None => cachedSnapshot > reloadAfter.calm
  /\ \A r \in Requests :
       requests[r].pc = "waiting" => requests[r].on > requests[r].calmForced
  /\ CalmInvalidateForcesReload

IInv == TypeOK /\ WaitInv /\ SequentialInv /\ CalmInv

-----------------------------------------------------------------------------
(* A service starts with nothing read and nobody waiting. *)
LEMMA InitIInv == Init => IInv
<1> SUFFICES ASSUME Init PROVE IInv
  OBVIOUS
<1>1. \A r \in Requests : requests[r].pc = "ready" /\ requests[r].got = <<>>
  BY DEF Init
<1>2. TypeOK
  <2>1. [pc |-> "ready", on |-> None, got |-> <<>>, forced |-> 0, calmForced |-> 0] \in Record
    BY DEF Record, None
  <2>2. requests \in [Requests -> Record]
    BY <2>1 DEF Init
  <2> QED  BY <2>2, RegistryAssumption DEF Init, TypeOK, Loads, None
<1>3. WaitInv
  BY <1>1 DEF Init, WaitInv, JoinableLoadIsRunning
<1>4. SequentialInv
  BY <1>1 DEF Init, SequentialInv, Sequential, Ordered, Ended, Loads
<1>5. CalmInv
  BY <1>1 DEF Init, CalmInv, CalmInvalidateForcesReload
<1> QED  BY <1>2, <1>3, <1>4, <1>5 DEF IInv

-----------------------------------------------------------------------------
(* What a step may make of the record of one request. *)
LEMMA RecordUpdate ==
  ASSUME TypeOK, NEW r \in Requests, NEW rec \in Record, requests' = [requests EXCEPT ![r] = rec]
  PROVE  /\ requests' \in [Requests -> Record]
         /\ requests'[r] = rec
         /\ \A q \in Requests : q # r => requests'[q] = requests[q]
  BY DEF TypeOK

(* A call remembers which invalidations came before it. *)
LEMMA CalledType ==
  ASSUME TypeOK, NEW r \in Requests
  PROVE  /\ Called(r) \in Record
         /\ Called(r).pc = requests[r].pc /\ Called(r).got = requests[r].got
         /\ Called(r).calmForced = reloadAfter.calm
<1>1. requests[r] \in Record /\ reloadAfter.any \in Nat /\ reloadAfter.calm \in Nat
  BY DEF TypeOK
<1> QED  BY <1>1 DEF Called, Record

(* The record of a request that is given a snapshot. *)
LEMMA GivenType ==
  ASSUME NEW rec \in Record, NEW l \in Nat \ {None}
  PROVE  /\ Append(rec.got, l) \in Seq(Nat \ {None})
         /\ Len(Append(rec.got, l)) = Len(rec.got) + 1 /\ Len(rec.got) \in Nat
         /\ Append(rec.got, l)[Len(rec.got) + 1] = l
         /\ \A i \in DOMAIN rec.got : Append(rec.got, l)[i] = rec.got[i] /\ rec.got[i] \in Nat
         /\ DOMAIN Append(rec.got, l) = DOMAIN rec.got \cup {Len(rec.got) + 1}
<1>1. rec.got \in Seq(Nat \ {None})
  BY DEF Record
<1> QED  BY <1>1

-----------------------------------------------------------------------------
(* What each step does, in terms of the records it writes. *)
LEMMA CachedStep ==
  ASSUME TypeOK, NEW r \in Requests, GetCached(r)
  PROVE  LET rec == [Called(r) EXCEPT !.got = Append(@, cachedSnapshot)] IN
         /\ rec \in Record /\ requests' = [requests EXCEPT ![r] = rec]
         /\ rec.pc = "ready" /\ rec.got = Append(requests[r].got, cachedSnapshot)
         /\ rec.calmForced = reloadAfter.calm
         /\ cachedSnapshot \in Nat \ {None} /\ cachedSnapshot \in Loads
<1>1. cachedSnapshot \in Loads /\ cachedSnapshot \in Nat \ {None}
  BY DEF TypeOK, GetCached, Fresh, Loads, None
<1>2. Append(Called(r).got, cachedSnapshot) \in Seq(Nat \ {None})
  BY <1>1, CalledType, GivenType
<1>3. [Called(r) EXCEPT !.got = Append(@, cachedSnapshot)] \in Record
  BY <1>2, CalledType DEF Record
<1> QED  BY <1>1, <1>3, CalledType DEF GetCached, MayCall, Record

LEMMA WaitStep ==
  ASSUME IInv, NEW r \in Requests, JoinLoad(r) \/ StartLoad(r)
  PROVE  \E l \in Nat \ {None}, rec \in Record :
         /\ requests' = [requests EXCEPT ![r] = rec]
         /\ rec.pc = "waiting" /\ rec.on = l /\ rec.got = requests[r].got
         /\ rec.calmForced = reloadAfter.calm
         /\ loadingPromise' = l /\ l \in loading' /\ l \in 1 .. started'
         /\ \/ JoinLoad(r) /\ l = loadingPromise /\ l \in loading
            \/ StartLoad(r) /\ l = started + 1
<1> DEFINE l == IF JoinLoad(r) THEN loadingPromise ELSE started + 1
           rec == [Called(r) EXCEPT !.pc = "waiting", !.on = l]
<1>1. CASE JoinLoad(r)
  <2>1. loadingPromise \in loading /\ loading \subseteq 1 .. started
    BY <1>1 DEF IInv, WaitInv, JoinLoad, JoinableLoadIsRunning, TypeOK, Loads
  <2>2. l \in Nat \ {None} /\ l = loadingPromise
    BY <1>1, <2>1 DEF None
  <2>3. rec \in Record
    BY <2>2, CalledType DEF Record, IInv
  <2> QED  BY <1>1, <2>1, <2>2, <2>3, CalledType DEF JoinLoad, Record, IInv
<1>2. CASE StartLoad(r) /\ ~JoinLoad(r)
  <2>1. l = started + 1 /\ l \in Nat \ {None} /\ started' = started + 1 /\ started \in Nat
    BY <1>2 DEF None, IInv, TypeOK, StartLoad
  <2>2. /\ rec \in Record /\ rec.pc = "waiting" /\ rec.on = l
        /\ rec.got = requests[r].got /\ rec.calmForced = reloadAfter.calm
    BY <2>1, CalledType DEF Record, IInv
  <2>3. /\ requests' = [requests EXCEPT ![r] = rec]
        /\ loadingPromise' = l /\ l \in loading' /\ l \in 1 .. started'
    BY <1>2, <2>1 DEF StartLoad
  <2> HIDE DEF rec, l
  <2> QED  BY <1>2, <2>1, <2>2, <2>3
<1> QED  BY <1>1, <1>2

LEMMA ResumeStep ==
  ASSUME TypeOK, NEW r \in Requests, Resume(r)
  PROVE  LET l == requests[r].on
             rec == [requests[r] EXCEPT !.pc = "ready", !.on = None, !.got = Append(@, l)] IN
         /\ rec \in Record /\ requests' = [requests EXCEPT ![r] = rec]
         /\ rec.pc = "ready" /\ rec.got = Append(requests[r].got, l)
         /\ rec.calmForced = requests[r].calmForced
         /\ l \in Nat \ {None} /\ l \in Ended
<1> DEFINE l == requests[r].on
<1>1. l \in Ended /\ l \in Nat \ {None}
  BY DEF Resume, Ended, Loads, TypeOK, None
<1>2. requests[r] \in Record
  BY DEF TypeOK
<1>3. Append(requests[r].got, l) \in Seq(Nat \ {None})
  BY <1>1, <1>2, GivenType
<1> QED  BY <1>1, <1>2, <1>3 DEF Resume, Record, None

LEMMA ErrorStep ==
  ASSUME TypeOK, NEW r \in Requests, ResumeWithError(r)
  PROVE  LET rec == [requests[r] EXCEPT !.pc = "failed"] IN
         /\ rec \in Record /\ requests' = [requests EXCEPT ![r] = rec]
         /\ rec.pc = "failed" /\ rec.got = requests[r].got
<1>1. requests[r] \in Record
  BY DEF TypeOK
<1> QED  BY <1>1 DEF ResumeWithError, Record

-----------------------------------------------------------------------------
(* Every step keeps the types. *)
LEMMA TypeStep ==
  ASSUME IInv, [Next]_vars
  PROVE  TypeOK'
<1> USE DEF IInv
<1>0. TypeOK
  OBVIOUS
<1>1. ASSUME NEW r \in Requests, GetCached(r)
      PROVE  TypeOK'
  <2>1. requests' \in [Requests -> Record]
    BY <1>1, CachedStep, RecordUpdate
  <2> QED  BY <1>1, <2>1 DEF TypeOK, GetCached, Loads
<1>2. ASSUME NEW r \in Requests, JoinLoad(r)
      PROVE  TypeOK'
  <2>1. requests' \in [Requests -> Record]
    BY <1>2, WaitStep, RecordUpdate
  <2> QED  BY <1>2, <2>1 DEF TypeOK, JoinLoad, Loads
<1>3. ASSUME NEW r \in Requests, StartLoad(r)
      PROVE  TypeOK'
  <2>1. requests' \in [Requests -> Record]
    BY <1>3, WaitStep, RecordUpdate
  <2> QED  BY <1>3, <2>1 DEF TypeOK, StartLoad, Loads, None
<1>4. ASSUME NEW r \in Requests, Resume(r)
      PROVE  TypeOK'
  <2>1. requests' \in [Requests -> Record]
    BY <1>4, ResumeStep, RecordUpdate
  <2> QED  BY <1>4, <2>1 DEF TypeOK, Resume, Loads
<1>5. ASSUME NEW r \in Requests, ResumeWithError(r)
      PROVE  TypeOK'
  <2>1. requests' \in [Requests -> Record]
    BY <1>5, ErrorStep, RecordUpdate
  <2> QED  BY <1>5, <2>1 DEF TypeOK, ResumeWithError, Loads
<1>6. ASSUME NEW l \in Loads, LoadCompletes(l)
      PROVE  TypeOK'
  <2>1. UNCHANGED <<now, started, failed, requests, invalidations, reloadAfter>>
    BY <1>6 DEF LoadCompletes
  <2>2. /\ loading' \subseteq Loads /\ cachedSnapshot' \in Loads /\ cachedAt' \in 0 .. now
        /\ loadingPromise' = None
    BY <1>0, <1>6 DEF TypeOK, LoadCompletes
  <2> QED  BY <1>0, <2>1, <2>2 DEF TypeOK, Loads
<1>7. ASSUME NEW l \in Loads, LoadFails(l)
      PROVE  TypeOK'
  <2>1. UNCHANGED <<now, started, cachedSnapshot, cachedAt, requests, invalidations, reloadAfter>>
    BY <1>7 DEF LoadFails
  <2>2. loading' \subseteq Loads /\ failed' \subseteq Loads /\ loadingPromise' = None
    BY <1>0, <1>7 DEF TypeOK, LoadFails
  <2> QED  BY <1>0, <2>1, <2>2 DEF TypeOK, Loads
<1>8. CASE invalidate
  BY <1>8, RegistryAssumption DEF TypeOK, invalidate, Loads, None
<1>9. CASE Tick
  <2>1. now' = now + 1 /\ cachedAt' = cachedAt
    BY <1>9 DEF Tick
  <2>2. now' \in Nat /\ cachedAt' \in 0 .. now'
    BY <1>0, <2>1 DEF TypeOK
  <2> QED  BY <1>0, <1>9, <2>2 DEF TypeOK, Tick, Loads
<1>10. CASE UNCHANGED vars
  BY <1>0, <1>10 DEF TypeOK, vars, Loads
<1> QED  BY <1>1, <1>2, <1>3, <1>4, <1>5, <1>6, <1>7, <1>8, <1>9, <1>10 DEF Next, getSnapshot

(* The load new calls join is running: whatever ends a load, clears it.      *)
LEMMA WaitInvStep ==
  ASSUME IInv, [Next]_vars
  PROVE  WaitInv'
<1> USE DEF IInv
<1>0. TypeOK /\ WaitInv
  OBVIOUS
<1>1. ASSUME NEW r \in Requests, GetCached(r)
      PROVE  WaitInv'
  BY <1>0, <1>1, CachedStep, RecordUpdate DEF WaitInv, JoinableLoadIsRunning, GetCached, Loads
<1>2. ASSUME NEW r \in Requests, JoinLoad(r) \/ StartLoad(r)
      PROVE  WaitInv'
  <2>1. PICK l \in Nat \ {None}, rec \in Record :
          /\ requests' = [requests EXCEPT ![r] = rec]
          /\ rec.pc = "waiting" /\ rec.on = l
          /\ loadingPromise' = l /\ l \in loading' /\ l \in 1 .. started'
    BY <1>2, WaitStep
  <2>2. started' \in Nat /\ started' >= started
    BY <1>0, <1>2 DEF TypeOK, JoinLoad, StartLoad
  <2>3. \A q \in Requests : requests'[q].pc = "waiting" => requests'[q].on \in 1 .. started'
    BY <1>0, <2>1, <2>2, RecordUpdate DEF WaitInv, Loads, TypeOK
  <2> QED  BY <2>1, <2>3 DEF WaitInv, JoinableLoadIsRunning, Loads
<1>3. ASSUME NEW r \in Requests, Resume(r)
      PROVE  WaitInv'
  BY <1>0, <1>3, ResumeStep, RecordUpdate DEF WaitInv, JoinableLoadIsRunning, Resume, Loads
<1>4. ASSUME NEW r \in Requests, ResumeWithError(r)
      PROVE  WaitInv'
  BY <1>0, <1>4, ErrorStep, RecordUpdate
     DEF WaitInv, JoinableLoadIsRunning, ResumeWithError, Loads
<1>5. ASSUME NEW l \in Loads, LoadCompletes(l) \/ LoadFails(l)
      PROVE  WaitInv'
  BY <1>5 DEF WaitInv, JoinableLoadIsRunning, LoadCompletes, LoadFails, Loads
<1>6. CASE invalidate \/ Tick \/ UNCHANGED vars
  BY <1>6 DEF WaitInv, JoinableLoadIsRunning, invalidate, Tick, vars, Loads
<1> QED  BY <1>1, <1>2, <1>3, <1>4, <1>5, <1>6 DEF Next, getSnapshot

(* An invalidation that disturbs no load leaves nothing older behind.        *)
LEMMA CalmInvStep ==
  ASSUME IInv, [Next]_vars
  PROVE  CalmInv'
<1> USE DEF IInv
<1>0. TypeOK /\ WaitInv /\ CalmInv
  OBVIOUS
<1>1. ASSUME NEW r \in Requests, NEW rec \in Record, requests' = [requests EXCEPT ![r] = rec],
             UNCHANGED <<loading, cachedSnapshot, reloadAfter>>,
             rec.pc = "waiting" => rec.on > rec.calmForced,
             rec.pc = "ready" => rec.got[Len(rec.got)] > rec.calmForced
      PROVE  CalmInv'
  BY <1>0, <1>1, RecordUpdate DEF CalmInv, CalmInvalidateForcesReload
<1>2. ASSUME NEW r \in Requests, GetCached(r)
      PROVE  CalmInv'
  <2> DEFINE rec == [Called(r) EXCEPT !.got = Append(@, cachedSnapshot)]
  <2>1. /\ rec \in Record /\ requests' = [requests EXCEPT ![r] = rec] /\ rec.pc = "ready"
        /\ rec.got = Append(requests[r].got, cachedSnapshot)
        /\ rec.calmForced = reloadAfter.calm /\ cachedSnapshot \in Nat \ {None}
    BY <1>0, <1>2, CachedStep
  <2>2. requests[r] \in Record
    BY <1>0 DEF TypeOK
  <2> HIDE DEF rec
  <2>3. rec.got[Len(rec.got)] = cachedSnapshot
    BY <2>1, <2>2, GivenType
  <2>4. UNCHANGED <<loading, cachedSnapshot, reloadAfter>>
    BY <1>2 DEF GetCached
  <2> QED  BY <1>0, <1>1, <2>1, <2>3, <2>4 DEF CalmInv
<1>3. ASSUME NEW r \in Requests, JoinLoad(r) \/ StartLoad(r)
      PROVE  CalmInv'
  <2>1. PICK l \in Nat \ {None}, rec \in Record :
          /\ requests' = [requests EXCEPT ![r] = rec]
          /\ rec.pc = "waiting" /\ rec.on = l /\ rec.calmForced = reloadAfter.calm
          /\ \/ JoinLoad(r) /\ l = loadingPromise /\ l \in loading
             \/ StartLoad(r) /\ l = started + 1
    BY <1>3, WaitStep
  <2>2. reloadAfter.calm \in 0 .. started /\ started \in Nat
    BY <1>0 DEF TypeOK
  <2>3. l > reloadAfter.calm
    BY <1>0, <2>1, <2>2 DEF CalmInv
  <2>4. loading' \subseteq loading \cup {started + 1} /\ UNCHANGED <<cachedSnapshot, reloadAfter>>
    BY <2>1 DEF JoinLoad, StartLoad
  <2>5. \A m \in loading' : m > reloadAfter'.calm
    BY <1>0, <2>2, <2>4 DEF CalmInv
  <2>6. \A q \in Requests : q # r => requests'[q] = requests[q]
    BY <1>0, <2>1, RecordUpdate
  <2>7. requests'[r] = rec
    BY <1>0, <2>1, RecordUpdate
  <2> QED  BY <1>0, <2>1, <2>3, <2>4, <2>5, <2>6, <2>7 DEF CalmInv, CalmInvalidateForcesReload
<1>4. ASSUME NEW r \in Requests, Resume(r)
      PROVE  CalmInv'
  <2> DEFINE l == requests[r].on
             rec == [requests[r] EXCEPT !.pc = "ready", !.on = None, !.got = Append(@, l)]
  <2>1. /\ rec \in Record /\ requests' = [requests EXCEPT ![r] = rec] /\ rec.pc = "ready"
        /\ rec.got = Append(requests[r].got, l)
        /\ rec.calmForced = requests[r].calmForced /\ l \in Nat \ {None}
    BY <1>0, <1>4, ResumeStep
  <2>2. requests[r] \in Record
    BY <1>0 DEF TypeOK
  <2>3. l > requests[r].calmForced
    BY <1>0, <1>4 DEF CalmInv, Resume
  <2> HIDE DEF rec, l
  <2>4. rec.got[Len(rec.got)] = l
    BY <2>1, <2>2, GivenType
  <2>5. UNCHANGED <<loading, cachedSnapshot, reloadAfter>>
    BY <1>4 DEF Resume
  <2> QED  BY <1>1, <2>1, <2>3, <2>4, <2>5
<1>5. ASSUME NEW r \in Requests, ResumeWithError(r)
      PROVE  CalmInv'
  <2> DEFINE rec == [requests[r] EXCEPT !.pc = "failed"]
  <2>1. rec \in Record /\ requests' = [requests EXCEPT ![r] = rec] /\ rec.pc = "failed"
    BY <1>0, <1>5, ErrorStep
  <2>2. UNCHANGED <<loading, cachedSnapshot, reloadAfter>>
    BY <1>5 DEF ResumeWithError
  <2> HIDE DEF rec
  <2> QED  BY <1>1, <2>1, <2>2
<1>6. ASSUME NEW l \in Loads, LoadCompletes(l) \/ LoadFails(l)
      PROVE  CalmInv'
  BY <1>0, <1>6 DEF CalmInv, CalmInvalidateForcesReload, LoadCompletes, LoadFails
<1>7. CASE invalidate
  <2>1. reloadAfter'.calm = IF loading = {} THEN started ELSE reloadAfter.calm
    BY <1>7 DEF invalidate
  <2> QED  BY <1>0, <1>7, <2>1 DEF CalmInv, CalmInvalidateForcesReload, invalidate
<1>8. CASE Tick \/ UNCHANGED vars
  BY <1>0, <1>8 DEF CalmInv, CalmInvalidateForcesReload, Tick, vars
<1> QED  BY <1>2, <1>3, <1>4, <1>5, <1>6, <1>7, <1>8 DEF Next, getSnapshot

-----------------------------------------------------------------------------
(* Giving a request a load no older than what it holds keeps it in order.    *)
LEMMA OrderedGiven ==
  ASSUME NEW old \in Record, NEW rec \in Record, NEW l \in Nat \ {None}, NEW newest \in Nat,
         rec.got = Append(old.got, l), rec.pc # "waiting",
         \A i \in DOMAIN old.got : old.got[i] <= l, l <= newest
  PROVE  Ordered(rec, newest)
<1>1. \A i \in DOMAIN rec.got : rec.got[i] <= l
  BY GivenType
<1>2. \A i \in DOMAIN rec.got : rec.got[i] \in Nat
  BY GivenType
<1>3. \A i \in DOMAIN rec.got : rec.got[i] <= newest
  BY <1>1, <1>2
<1>4. ASSUME Len(rec.got) = 2
      PROVE  rec.got[1] <= rec.got[2]
  <2>1. /\ Len(rec.got) = Len(old.got) + 1 /\ Len(old.got) \in Nat
        /\ rec.got[Len(old.got) + 1] = l
    BY GivenType
  <2>2. Len(old.got) = 1
    <3>1. \A n \in Nat : 2 = n + 1 => n = 1
      OBVIOUS
    <3> QED  BY <1>4, <2>1, <3>1, Zenon
  <2>3. rec.got[2] = l
    BY <2>1, <2>2
  <2>4. 1 \in DOMAIN rec.got
    BY <1>4 DEF Record
  <2> QED  BY <1>1, <2>3, <2>4
<1> QED  BY <1>3, <1>4 DEF Ordered

(* While nothing invalidates, the index stays sequential and requests ordered. *)
LEMMA SequentialInvStep ==
  ASSUME IInv, [Next]_vars
  PROVE  SequentialInv'
<1>0. TypeOK /\ WaitInv /\ SequentialInv
  BY DEF IInv
<1>1. SUFFICES ASSUME invalidations' = 0
               PROVE  Sequential' /\ \A r \in Requests : Ordered(requests'[r], cachedSnapshot')
  BY DEF SequentialInv
<1>2. invalidations = 0 /\ UNCHANGED invalidations
  <2>1. UNCHANGED invalidations \/ invalidations' = invalidations + 1
    BY DEF Next, getSnapshot, GetCached, JoinLoad, StartLoad, Resume, ResumeWithError,
           LoadCompletes, LoadFails, invalidate, Tick, vars
  <2> QED  BY <1>0, <1>1, <2>1 DEF TypeOK
<1>3. Sequential /\ \A r \in Requests : Ordered(requests[r], cachedSnapshot)
  BY <1>0, <1>2 DEF SequentialInv
<1>4. /\ cachedSnapshot \in Nat /\ started \in Nat /\ cachedSnapshot <= started
      /\ \A r \in Requests : requests[r] \in Record
  BY <1>0 DEF TypeOK, Loads, None
<1>5. ASSUME NEW r \in Requests, NEW rec \in Record, requests' = [requests EXCEPT ![r] = rec],
             UNCHANGED cachedSnapshot, Ordered(rec, cachedSnapshot)
      PROVE  \A q \in Requests : Ordered(requests'[q], cachedSnapshot')
  BY <1>0, <1>3, <1>5, RecordUpdate
<1>6. ASSUME UNCHANGED <<started, loading, failed, cachedSnapshot, loadingPromise>>
      PROVE  Sequential'
  BY <1>3, <1>6 DEF Sequential, Ended, Loads
<1>7. ASSUME NEW r \in Requests, GetCached(r)
      PROVE  Sequential' /\ \A q \in Requests : Ordered(requests'[q], cachedSnapshot')
  <2> DEFINE rec == [Called(r) EXCEPT !.got = Append(@, cachedSnapshot)]
  <2>1. /\ rec \in Record /\ requests' = [requests EXCEPT ![r] = rec] /\ rec.pc = "ready"
        /\ rec.got = Append(requests[r].got, cachedSnapshot) /\ cachedSnapshot \in Nat \ {None}
    BY <1>0, <1>7, CachedStep
  <2>2. UNCHANGED <<started, loading, failed, cachedSnapshot, loadingPromise>>
    BY <1>7 DEF GetCached
  <2> HIDE DEF rec
  <2>3. \A i \in DOMAIN requests[r].got : requests[r].got[i] <= cachedSnapshot
    BY <1>3 DEF Ordered
  <2>4. Ordered(rec, cachedSnapshot)
    BY <1>4, <2>1, <2>3, OrderedGiven
  <2> QED  BY <1>5, <1>6, <2>1, <2>2, <2>4
<1>8. ASSUME NEW r \in Requests, JoinLoad(r) \/ StartLoad(r)
      PROVE  Sequential' /\ \A q \in Requests : Ordered(requests'[q], cachedSnapshot')
  <2>1. PICK l \in Nat \ {None}, rec \in Record :
          /\ requests' = [requests EXCEPT ![r] = rec]
          /\ rec.pc = "waiting" /\ rec.on = l /\ rec.got = requests[r].got
          /\ \/ JoinLoad(r) /\ l = loadingPromise /\ l \in loading
             \/ StartLoad(r) /\ l = started + 1
    BY <1>8, WaitStep
  <2>2. UNCHANGED cachedSnapshot
    BY <1>8 DEF JoinLoad, StartLoad
  <2>3. cachedSnapshot <= l
    BY <1>3, <1>4, <2>1 DEF Sequential
  <2>4. \A i \in DOMAIN rec.got : rec.got[i] \in Nat
    BY DEF Record
  <2>5. Ordered(rec, cachedSnapshot)
    BY <1>3, <1>4, <2>1, <2>3, <2>4 DEF Ordered
  <2>6. CASE JoinLoad(r)
    <3>1. UNCHANGED <<started, loading, failed, cachedSnapshot, loadingPromise>>
      BY <2>6 DEF JoinLoad
    <3> QED  BY <1>5, <1>6, <2>1, <2>2, <2>5, <3>1
  <2>7. CASE StartLoad(r)
    <3>1. loading = {}
      BY <1>0, <1>3, <2>7 DEF StartLoad, Sequential, TypeOK, Loads, None
    <3>2. loading' = {started'} /\ loadingPromise' = started'
      BY <2>7, <3>1 DEF StartLoad
    <3>3. Ended' \subseteq Ended
      BY <1>4, <2>7, <3>1 DEF StartLoad, Ended, Loads
    <3>4. Sequential'
      BY <1>3, <2>2, <3>2, <3>3 DEF Sequential
    <3> QED  BY <1>5, <2>1, <2>2, <2>5, <3>4
  <2> QED  BY <1>8, <2>6, <2>7
<1>9. ASSUME NEW r \in Requests, Resume(r)
      PROVE  Sequential' /\ \A q \in Requests : Ordered(requests'[q], cachedSnapshot')
  <2> DEFINE l == requests[r].on
             rec == [requests[r] EXCEPT !.pc = "ready", !.on = None, !.got = Append(@, l)]
  <2>1. /\ rec \in Record /\ requests' = [requests EXCEPT ![r] = rec] /\ rec.pc = "ready"
        /\ rec.got = Append(requests[r].got, l) /\ l \in Nat \ {None} /\ l \in Ended
    BY <1>0, <1>9, ResumeStep
  <2>2. UNCHANGED <<started, loading, failed, cachedSnapshot, loadingPromise>>
    BY <1>9 DEF Resume
  <2>3. \A i \in DOMAIN requests[r].got : requests[r].got[i] <= l
    BY <1>3, <1>9 DEF Ordered, Resume
  <2>4. l <= cachedSnapshot
    BY <1>3, <2>1 DEF Sequential
  <2> HIDE DEF rec, l
  <2>5. Ordered(rec, cachedSnapshot)
    BY <1>4, <2>1, <2>3, <2>4, OrderedGiven
  <2> QED  BY <1>5, <1>6, <2>1, <2>2, <2>5
<1>10. ASSUME NEW r \in Requests, ResumeWithError(r)
       PROVE  Sequential' /\ \A q \in Requests : Ordered(requests'[q], cachedSnapshot')
  <2> DEFINE rec == [requests[r] EXCEPT !.pc = "failed"]
  <2>1. /\ rec \in Record /\ requests' = [requests EXCEPT ![r] = rec] /\ rec.pc = "failed"
        /\ rec.got = requests[r].got
    BY <1>0, <1>10, ErrorStep
  <2>2. UNCHANGED <<started, loading, failed, cachedSnapshot, loadingPromise>>
    BY <1>10 DEF ResumeWithError
  <2> HIDE DEF rec
  <2>3. Ordered(rec, cachedSnapshot)
    BY <1>3, <2>1 DEF Ordered
  <2> QED  BY <1>5, <1>6, <2>1, <2>2, <2>3
<1>11. ASSUME NEW l \in Loads, LoadCompletes(l)
       PROVE  Sequential' /\ \A q \in Requests : Ordered(requests'[q], cachedSnapshot')
  <2>1. l = started /\ loading' = {} /\ cachedSnapshot' = started
        /\ UNCHANGED <<started, requests>>
    BY <1>3, <1>11 DEF LoadCompletes, Sequential
  <2>2. Sequential'
    BY <1>4, <2>1 DEF Sequential, Ended, Loads
  <2>3. ASSUME NEW q \in Requests
        PROVE  Ordered(requests'[q], cachedSnapshot')
    <3>1. \A i \in DOMAIN requests[q].got : requests[q].got[i] \in Nat
      BY <1>4 DEF Record
    <3> QED  BY <1>3, <1>4, <2>1, <3>1 DEF Ordered
  <2> QED  BY <2>2, <2>3
<1>12. ASSUME NEW l \in Loads, LoadFails(l)
       PROVE  Sequential' /\ \A q \in Requests : Ordered(requests'[q], cachedSnapshot')
  <2>1. loading' = {} /\ UNCHANGED <<started, cachedSnapshot, requests>>
    BY <1>3, <1>12 DEF LoadFails, Sequential
  <2>2. Ended' \subseteq Ended
    BY <1>12 DEF LoadFails, Ended, Loads
  <2> QED  BY <1>3, <2>1, <2>2 DEF Sequential
<1>13. CASE invalidate
  BY <1>0, <1>2, <1>13 DEF invalidate, TypeOK
<1>14. CASE Tick \/ UNCHANGED vars
  <2>1. UNCHANGED <<started, loading, failed, cachedSnapshot, loadingPromise, requests>>
    BY <1>14 DEF Tick, vars
  <2> QED  BY <1>3, <1>6, <2>1
<1> QED  BY <1>7, <1>8, <1>9, <1>10, <1>11, <1>12, <1>13, <1>14 DEF Next, getSnapshot

-----------------------------------------------------------------------------
(* The inductive invariant holds in every state of every index.              *)
THEOREM Invariance == Spec => []IInv
<1>1. IInv /\ [Next]_vars => IInv'
  BY TypeStep, WaitInvStep, CalmInvStep, SequentialInvStep DEF IInv
<1> QED  BY InitIInv, <1>1, PTL DEF Spec

(* Every variable of the service keeps its type. *)
THEOREM Typing == Spec => []TypeOK
<1>1. IInv => TypeOK
  BY DEF IInv
<1> QED  BY Invariance, <1>1, PTL

(* getSnapshot never joins a load that has ended. *)
THEOREM JoinableLoads == Spec => []JoinableLoadIsRunning
<1>1. IInv => JoinableLoadIsRunning
  BY DEF IInv, WaitInv
<1> QED  BY Invariance, <1>1, PTL

(* Without an invalidation concurrent requests share one reading of the packs. *)
THEOREM SharedLoads == Spec => []OneLoadAtATime
<1>1. IInv => OneLoadAtATime
  BY DEF IInv, SequentialInv, Sequential, OneLoadAtATime
<1> QED  BY Invariance, <1>1, PTL

(* Without an invalidation a second lookup never reads an older snapshot.    *)
THEOREM LookupsGoForward == Spec => []TemplateNotOlderThanScenario
<1>1. IInv => TemplateNotOlderThanScenario
  BY DEF IInv, SequentialInv, Ordered, TemplateNotOlderThanScenario
<1> QED  BY Invariance, <1>1, PTL

(* An invalidation made while nothing loads is honoured by every later call. *)
THEOREM CalmInvalidations == Spec => []CalmInvalidateForcesReload
<1>1. IInv => CalmInvalidateForcesReload
  BY DEF IInv, CalmInv
<1> QED  BY Invariance, <1>1, PTL
=============================================================================
