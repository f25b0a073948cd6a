------------------------- MODULE TokenMinterProofs --------------------------
(* What TokenMinter keeps for every set of calls, asks, clock bounds and    *)
(* lifetimes.  The cache keys stay opaque except in the last theorem.       *)
EXTENDS TokenMinter, TLAPS

Outstanding(r) == Unsettled(r) \/ Settled(r)
Answered(r) == requests[r].stage \in {"resolved", "finished"}
KeyOf(r) == cacheKey(requests[r].ask)

(* inflight holds exactly the requests whose finally has not run.           *)
FlightInv ==
  /\ \A r \in Calls : Outstanding(r) => inflight[KeyOf(r)] = r
  /\ \A k \in Keys : inflight[k] # NoCall =>
       Outstanding(inflight[k]) /\ KeyOf(inflight[k]) = k

(* An unanswered request is younger than its abort.                         *)
ClockInv ==
  \A r \in Calls :
    /\ requests[r].signedAt <= now
    /\ Unsettled(r) => /\ requests[r].sentAt <= requests[r].signedAt
                       /\ now <= requests[r].sentAt + Timeout

(* A call that has not been made owns no request and no token.              *)
CallInv ==
  \A c \in Calls :
    /\ calls[c].pc = "idle" => requests[c].stage = "none" /\ calls[c].token = NoCall
    /\ calls[c].pc = "waiting" => /\ calls[c].on \in Calls
                                  /\ requests[calls[c].on].stage # "none"
                                  /\ KeyOf(calls[c].on) = cacheKey(calls[c].ask)
    /\ calls[c].pc = "hit" => calls[c].token # NoCall
    /\ calls[c].token # NoCall => /\ Answered(calls[c].token)
                                  /\ KeyOf(calls[c].token) = cacheKey(calls[c].ask)

(* The expiry the cache computes is late by at most the response latency.   *)
CacheInv ==
  \A k \in Keys : cache[k] # NoEntry =>
    LET r == cache[k].token
        lifetime == AtLeastOne(requests[r].granted)
    IN /\ Answered(r)
       /\ KeyOf(r) = k
       /\ cache[k].expiresAt <= requests[r].signedAt + Timeout + lifetime
       /\ cache[k].expiresAt <= now + lifetime

(* A request is sent after the token it will replace was signed.            *)
OrderInv ==
  \A k \in Keys, r \in Calls :
    cache[k] # NoEntry /\ Unsettled(r) /\ KeyOf(r) = k =>
      requests[cache[k].token].signedAt <= requests[r].sentAt

IInv == TypeOK /\ FlightInv /\ ClockInv /\ CallInv /\ CacheInv /\ OrderInv
          /\ HitsAreAccepted

-----------------------------------------------------------------------------
CallRecord == [pc : {"idle", "waiting", "hit", "minted", "failed"}, ask : Asks,
               on : Calls \cup {NoCall}, token : Calls \cup {NoCall}, at : Nat]
RequestRecord == [stage : Stages, ask : Asks, sentAt : Nat,
                  signedAt : Nat, granted : 0 .. Ttl]

(* Every ask has a key of the cache. *)
LEMMA KeyType == \A a \in Asks : cacheKey(a) \in Keys
  BY DEF Keys

(* Any first ask is as good as another. *)
LEMMA FirstAsk == (CHOOSE a \in Asks : TRUE) \in Asks
  BY AskAssumption

(* The minter starts with nothing cached and nothing in flight. *)
LEMMA InitIInv == Init => IInv
<1> SUFFICES ASSUME Init PROVE IInv
  OBVIOUS
<1> USE DEF Init
<1>1. TypeOK
  BY FirstAsk, TimesAssumption DEF TypeOK, Stages
<1>2. FlightInv /\ ClockInv /\ CallInv /\ CacheInv /\ OrderInv /\ HitsAreAccepted
  BY FirstAsk DEF FlightInv, ClockInv, CallInv, CacheInv, OrderInv, HitsAreAccepted,
     Outstanding, Unsettled, Settled, Answered, KeyOf
<1> QED  BY <1>1, <1>2 DEF IInv

(* Every step of the minter, its callers and the clock keeps the types. *)
LEMMA TypeStep == TypeOK /\ [Next]_vars => TypeOK'
<1> SUFFICES ASSUME TypeOK, [Next]_vars PROVE TypeOK'
  OBVIOUS
<1> USE KeyType, TimesAssumption, GrantsAssumption
<1>1. ASSUME NEW c \in Calls, NEW a \in Asks, MintWithoutSender(c, a) PROVE TypeOK'
  BY <1>1 DEF TypeOK, MintWithoutSender
<1>2. ASSUME NEW c \in Calls, NEW a \in Asks, MintHit(c, a) PROVE TypeOK'
  BY <1>2 DEF TypeOK, MintHit, Usable
<1>3. ASSUME NEW c \in Calls, NEW a \in Asks, MintJoin(c, a) PROVE TypeOK'
  BY <1>3 DEF TypeOK, MintJoin, readCache
<1>4. ASSUME NEW c \in Calls, NEW a \in Asks, MintRequest(c, a) PROVE TypeOK'
  BY <1>4 DEF TypeOK, MintRequest, readCache, Stages
<1>5. ASSUME NEW c \in Calls, Deliver(c) PROVE TypeOK'
  <2> DEFINE r == calls[c].on
             delivered == [pc |-> "minted", ask |-> calls[c].ask, on |-> r,
                           token |-> r, at |-> now]
  <2>1. calls[c] \in CallRecord /\ now \in Nat
    BY DEF TypeOK, CallRecord
  <2>2. delivered \in CallRecord
    BY <2>1 DEF CallRecord
  <2>3. CASE calls' = [calls EXCEPT ![c] = delivered]
    <3> HIDE DEF delivered
    <3> QED  BY <1>5, <2>2, <2>3 DEF TypeOK, Deliver, CallRecord
  <2>4. CASE calls' = [calls EXCEPT ![c].pc = "failed"]
    BY <1>5, <2>1, <2>4 DEF TypeOK, Deliver, CallRecord
  <2> QED  BY <1>5, <2>3, <2>4 DEF Deliver
<1>6. ASSUME NEW r \in Calls, NEW g \in Grants, AuthServiceSign(r, g) PROVE TypeOK'
  <2>1. [requests[r] EXCEPT !.stage = "signed", !.signedAt = now, !.granted = g]
          \in RequestRecord
    <3>1. requests[r] \in RequestRecord /\ now \in Nat /\ g \in 0 .. Ttl
      BY <1>6, GrantsAssumption DEF TypeOK, RequestRecord
    <3>2. "signed" \in Stages
      BY DEF Stages
    <3> QED  BY <3>1, <3>2 DEF RequestRecord
  <2> QED  BY <1>6, <2>1 DEF TypeOK, AuthServiceSign, RequestRecord
<1>7. ASSUME NEW r \in Calls, RequestSucceeds(r) PROVE TypeOK'
  BY <1>7 DEF TypeOK, RequestSucceeds, ttlSeconds, AtLeastOne, Stages
<1>8. ASSUME NEW r \in Calls, RequestFails(r) PROVE TypeOK'
  BY <1>8 DEF TypeOK, RequestFails, Stages
<1>9. ASSUME NEW r \in Calls, RequestTimesOut(r) PROVE TypeOK'
  BY <1>9 DEF TypeOK, RequestTimesOut, Stages
<1>10. ASSUME NEW r \in Calls, Finally(r) PROVE TypeOK'
  BY <1>10 DEF TypeOK, Finally, Stages
<1>11. CASE Tick
  BY <1>11 DEF TypeOK, Tick
<1>12. CASE UNCHANGED vars
  BY <1>12 DEF TypeOK, vars
<1> QED
  BY <1>1, <1>2, <1>3, <1>4, <1>5, <1>6, <1>7, <1>8, <1>9, <1>10, <1>11, <1>12
  DEF Next, mintToken

-----------------------------------------------------------------------------
Rest == FlightInv /\ ClockInv /\ CallInv /\ CacheInv /\ OrderInv /\ HitsAreAccepted

(* Every step keeps the rest of the inductive invariant. *)
LEMMA RestStep == IInv /\ [Next]_vars => Rest'
<1> SUFFICES ASSUME IInv, [Next]_vars PROVE Rest'
  OBVIOUS
<1> USE KeyType, TimesAssumption, GrantsAssumption, CallAssumption
    DEF IInv, TypeOK, Outstanding, Unsettled, Settled, Answered, KeyOf, ExpiryOf
<1>1. ASSUME NEW c \in Calls, NEW a \in Asks, MintWithoutSender(c, a) PROVE Rest'
  <2>1. FlightInv'
    BY <1>1 DEF MintWithoutSender, FlightInv
  <2>2. ClockInv'
    BY <1>1 DEF MintWithoutSender, ClockInv
  <2>3. CallInv'
    BY <1>1 DEF MintWithoutSender, CallInv
  <2>4. CacheInv'
    BY <1>1 DEF MintWithoutSender, CacheInv
  <2>5. OrderInv'
    BY <1>1 DEF MintWithoutSender, OrderInv
  <2>6. HitsAreAccepted'
    BY <1>1 DEF MintWithoutSender, HitsAreAccepted
  <2> QED  BY <2>1, <2>2, <2>3, <2>4, <2>5, <2>6 DEF Rest
<1>2. ASSUME NEW c \in Calls, NEW a \in Asks, MintHit(c, a) PROVE Rest'
  <2>1. FlightInv'
    BY <1>2 DEF MintHit, Usable, FlightInv
  <2>2. ClockInv'
    BY <1>2 DEF MintHit, Usable, ClockInv
  <2>3. CallInv'
    BY <1>2 DEF MintHit, Usable, CallInv, CacheInv
  <2>4. CacheInv'
    BY <1>2 DEF MintHit, Usable, CacheInv
  <2>5. OrderInv'
    BY <1>2 DEF MintHit, Usable, OrderInv
  <2>6. HitsAreAccepted'
    <3> DEFINE k == cacheKey(a)
               r == cache[k].token
               g == requests[r].granted
    <3>1. /\ cache[k] \in [token : Calls, expiresAt : Nat]
          /\ now + Skew < cache[k].expiresAt
      BY <1>2 DEF MintHit, Usable
    <3>2. /\ cache[k].expiresAt <= requests[r].signedAt + Timeout + AtLeastOne(g)
          /\ cache[k].expiresAt <= now + AtLeastOne(g)
      BY <1>2 DEF MintHit, Usable, CacheInv
    <3>3. r \in Calls /\ g \in 0 .. Ttl /\ requests[r].signedAt \in Nat
      BY <3>1
    <3>4. now + Drift < requests[r].signedAt + g
      (* A token granted no lifetime was never usable, as Skew >= 1. *)
      BY <3>1, <3>2, <3>3, SkewCovers DEF AtLeastOne
    <3> QED  BY <1>2, <3>3, <3>4 DEF MintHit, HitsAreAccepted
  <2> QED  BY <2>1, <2>2, <2>3, <2>4, <2>5, <2>6 DEF Rest
<1>3. ASSUME NEW c \in Calls, NEW a \in Asks, MintJoin(c, a) PROVE Rest'
  <2>1. FlightInv'
    BY <1>3 DEF MintJoin, readCache, FlightInv
  <2>2. ClockInv'
    BY <1>3 DEF MintJoin, readCache, ClockInv
  <2>3. CallInv'
    BY <1>3 DEF MintJoin, readCache, CallInv, FlightInv
  <2>4. CacheInv'
    BY <1>3 DEF MintJoin, readCache, CacheInv
  <2>5. OrderInv'
    BY <1>3 DEF MintJoin, readCache, OrderInv
  <2>6. HitsAreAccepted'
    BY <1>3 DEF MintJoin, readCache, HitsAreAccepted
  <2> QED  BY <2>1, <2>2, <2>3, <2>4, <2>5, <2>6 DEF Rest
<1>4. ASSUME NEW c \in Calls, NEW a \in Asks, MintRequest(c, a) PROVE Rest'
  <2>1. FlightInv'
    BY <1>4 DEF MintRequest, readCache, FlightInv, CallInv
  <2>2. ClockInv'
    BY <1>4 DEF MintRequest, readCache, ClockInv
  <2>3. CallInv'
    BY <1>4 DEF MintRequest, readCache, CallInv
  <2>4. CacheInv'
    BY <1>4 DEF MintRequest, readCache, CacheInv, CallInv
  <2>5. OrderInv'
    BY SMTT(30), <1>4 DEF MintRequest, readCache, OrderInv, CallInv, CacheInv
  <2>6. HitsAreAccepted'
    BY <1>4 DEF MintRequest, readCache, HitsAreAccepted, CallInv
  <2> QED  BY <2>1, <2>2, <2>3, <2>4, <2>5, <2>6 DEF Rest
<1>5. ASSUME NEW c \in Calls, Deliver(c) PROVE Rest'
  <2>1. FlightInv'
    BY <1>5 DEF Deliver, FlightInv
  <2>2. ClockInv'
    BY <1>5 DEF Deliver, ClockInv
  <2>3. CallInv'
    BY <1>5 DEF Deliver, CallInv
  <2>4. CacheInv'
    BY <1>5 DEF Deliver, CacheInv
  <2>5. OrderInv'
    BY <1>5 DEF Deliver, OrderInv
  <2>6. HitsAreAccepted'
    BY <1>5 DEF Deliver, HitsAreAccepted
  <2> QED  BY <2>1, <2>2, <2>3, <2>4, <2>5, <2>6 DEF Rest
<1>6. ASSUME NEW s \in Calls, NEW g \in Grants, AuthServiceSign(s, g) PROVE Rest'
  <2>1. FlightInv'
    BY <1>6 DEF AuthServiceSign, FlightInv
  <2>2. ClockInv'
    BY <1>6 DEF AuthServiceSign, ClockInv
  <2>3. CallInv'
    BY <1>6 DEF AuthServiceSign, CallInv
  <2>4. CacheInv'
    BY <1>6 DEF AuthServiceSign, CacheInv
  <2>5. OrderInv'
    BY <1>6 DEF AuthServiceSign, OrderInv, CallInv, CacheInv
  <2>6. HitsAreAccepted'
    BY <1>6 DEF AuthServiceSign, HitsAreAccepted, CallInv
  <2> QED  BY <2>1, <2>2, <2>3, <2>4, <2>5, <2>6 DEF Rest
<1>7. ASSUME NEW s \in Calls, RequestSucceeds(s) PROVE Rest'
  <2>1. FlightInv'
    BY <1>7 DEF RequestSucceeds, ttlSeconds, AtLeastOne, FlightInv
  <2>2. ClockInv'
    BY <1>7 DEF RequestSucceeds, ttlSeconds, AtLeastOne, ClockInv
  <2>3. CallInv'
    BY <1>7 DEF RequestSucceeds, ttlSeconds, AtLeastOne, CallInv
  <2>4. CacheInv'
    BY <1>7 DEF RequestSucceeds, ttlSeconds, AtLeastOne, CacheInv, ClockInv
  <2>5. OrderInv'
    BY <1>7 DEF RequestSucceeds, ttlSeconds, AtLeastOne, OrderInv, FlightInv
  <2>6. HitsAreAccepted'
    BY <1>7 DEF RequestSucceeds, ttlSeconds, AtLeastOne, HitsAreAccepted
  <2> QED  BY <2>1, <2>2, <2>3, <2>4, <2>5, <2>6 DEF Rest
<1>8. ASSUME NEW s \in Calls, RequestFails(s) PROVE Rest'
  <2>1. FlightInv'
    BY <1>8 DEF RequestFails, FlightInv
  <2>2. ClockInv'
    BY <1>8 DEF RequestFails, ClockInv
  <2>3. CallInv'
    BY <1>8 DEF RequestFails, CallInv
  <2>4. CacheInv'
    BY <1>8 DEF RequestFails, CacheInv
  <2>5. OrderInv'
    BY <1>8 DEF RequestFails, OrderInv
  <2>6. HitsAreAccepted'
    BY <1>8 DEF RequestFails, HitsAreAccepted
  <2> QED  BY <2>1, <2>2, <2>3, <2>4, <2>5, <2>6 DEF Rest
<1>9. ASSUME NEW s \in Calls, RequestTimesOut(s) PROVE Rest'
  <2>1. FlightInv'
    BY <1>9 DEF RequestTimesOut, FlightInv
  <2>2. ClockInv'
    BY <1>9 DEF RequestTimesOut, ClockInv
  <2>3. CallInv'
    BY <1>9 DEF RequestTimesOut, CallInv
  <2>4. CacheInv'
    BY <1>9 DEF RequestTimesOut, CacheInv
  <2>5. OrderInv'
    BY <1>9 DEF RequestTimesOut, OrderInv
  <2>6. HitsAreAccepted'
    BY <1>9 DEF RequestTimesOut, HitsAreAccepted
  <2> QED  BY <2>1, <2>2, <2>3, <2>4, <2>5, <2>6 DEF Rest
<1>10. ASSUME NEW s \in Calls, Finally(s) PROVE Rest'
  <2>1. FlightInv'
    BY <1>10 DEF Finally, FlightInv
  <2>2. ClockInv'
    BY <1>10 DEF Finally, ClockInv
  <2>3. CallInv'
    BY <1>10 DEF Finally, CallInv
  <2>4. CacheInv'
    BY <1>10 DEF Finally, CacheInv
  <2>5. OrderInv'
    BY <1>10 DEF Finally, OrderInv
  <2>6. HitsAreAccepted'
    BY <1>10 DEF Finally, HitsAreAccepted
  <2> QED  BY <2>1, <2>2, <2>3, <2>4, <2>5, <2>6 DEF Rest
<1>11. CASE Tick
  <2>1. FlightInv' /\ CallInv' /\ OrderInv' /\ HitsAreAccepted'
    BY <1>11 DEF Tick, FlightInv, CallInv, OrderInv, HitsAreAccepted
  <2>2. ClockInv'
    BY <1>11 DEF Tick, ClockInv
  <2>3. CacheInv'
    BY <1>11 DEF Tick, CacheInv, AtLeastOne
  <2> QED  BY <2>1, <2>2, <2>3 DEF Rest
<1>12. CASE UNCHANGED vars
  BY <1>12 DEF vars, Rest, FlightInv, ClockInv, CallInv, CacheInv, OrderInv, HitsAreAccepted
<1> QED
  BY <1>1, <1>2, <1>3, <1>4, <1>5, <1>6, <1>7, <1>8, <1>9, <1>10, <1>11, <1>12
  DEF Next, mintToken

-----------------------------------------------------------------------------
(* IInv is inductive. *)
THEOREM Invariance == Spec => []IInv
<1>1. IInv /\ [Next]_vars => IInv'
  BY TypeStep, RestStep DEF IInv, Rest
<1> QED  BY InitIInv, <1>1, PTL DEF Spec

(* The state of the minter always has its type. *)
THEOREM Typing == Spec => []TypeOK
<1>1. IInv => TypeOK
  BY DEF IInv
<1> QED  BY Invariance, <1>1, PTL

(* A cached token is handed out only while every verifier whose clock is    *)
(* within Drift of the signer's still accepts it, for every lifetime the    *)
(* auth-service may grant, provided latency and drift fit in the skew.      *)
THEOREM CachedTokensAccepted == Spec => []HitsAreAccepted
<1>1. IInv => HitsAreAccepted
  BY DEF IInv
<1> QED  BY Invariance, <1>1, PTL

(* At most one request per key is outstanding, for any number of callers.   *)
THEOREM AtMostOneRequest == Spec => []SingleFlight
<1>1. IInv => SingleFlight
  BY DEF IInv, FlightInv, SingleFlight, Outstanding, KeyOf
<1> QED  BY Invariance, <1>1, PTL

(* No call ever joins a request that has reported its outcome.              *)
THEOREM NoNegativeCaching == Spec => JoinsOnlyLiveRequests
<1> DEFINE Live == \A c \in Calls :
       calls[c].pc = "idle" /\ calls'[c].pc = "waiting" =>
         requests'[calls'[c].on].stage \notin {"finished", "failed"}
<1>1. IInv /\ [Next]_vars => [Live]_vars
  <2> SUFFICES ASSUME IInv, Next PROVE Live
    BY DEF vars
  <2> USE DEF IInv, TypeOK
  <2>1. ASSUME NEW c \in Calls, NEW a \in Asks, MintWithoutSender(c, a) PROVE Live
    BY <2>1 DEF MintWithoutSender
  <2>2. ASSUME NEW c \in Calls, NEW a \in Asks, MintHit(c, a) PROVE Live
    BY <2>2 DEF MintHit
  <2>3. ASSUME NEW c \in Calls, NEW a \in Asks, MintJoin(c, a) PROVE Live
    BY <2>3, KeyType DEF MintJoin, FlightInv, Outstanding, Unsettled, Settled
  <2>4. ASSUME NEW c \in Calls, NEW a \in Asks, MintRequest(c, a) PROVE Live
    BY <2>4 DEF MintRequest
  <2>5. ASSUME NEW c \in Calls, Deliver(c) PROVE Live
    BY <2>5 DEF Deliver
  <2>6. ASSUME UNCHANGED calls PROVE Live
    BY <2>6
  <2> QED
    BY <2>1, <2>2, <2>3, <2>4, <2>5, <2>6
    DEF Next, mintToken, AuthServiceSign, RequestSucceeds, RequestFails,
        RequestTimesOut, Finally, Tick
<1> QED  BY Invariance, <1>1, PTL DEF Spec, JoinsOnlyLiveRequests

(* A cached token is only ever replaced by one signed after it: the request   *)
(* for the new one was sent when the old one had been signed and given up,    *)
(* however many requests for other keys, failures and timeouts lie between.   *)
THEOREM NeverAnOlderToken == Spec => CacheMovesForward
<1>1. ASSUME IInv, [Next]_vars, NEW k \in Keys, cache[k] # NoEntry, cache'[k] # NoEntry
      PROVE  requests[cache[k].token].signedAt <= requests'[cache'[k].token].signedAt
  <2> DEFINE old == cache[k].token
  <2>1. TypeOK /\ old \in Calls /\ requests[old].signedAt \in Nat
    BY <1>1 DEF IInv, TypeOK
  <2>2. Answered(old) /\ KeyOf(old) = k
    BY <1>1 DEF IInv, CacheInv
  <2> HIDE DEF old
  <2>3. requests'[old].signedAt = requests[old].signedAt
    <3>1. ASSUME NEW c \in Calls, mintToken(c) PROVE requests'[old] = requests[old]
      <4>1. calls[c].pc = "idle"
        BY <3>1 DEF mintToken, MintWithoutSender, MintHit, MintJoin, MintRequest
      <4>2. c # old
        BY <1>1, <2>2, <4>1 DEF IInv, CallInv, Answered
      <4> QED  BY <2>1, <3>1, <4>2
               DEF TypeOK, mintToken, MintWithoutSender, MintHit, MintJoin, MintRequest
    <3>2. ASSUME NEW r \in Calls, NEW g \in Grants, AuthServiceSign(r, g)
          PROVE  requests'[old] = requests[old]
      <4>1. r # old
        BY <2>2, <3>2 DEF AuthServiceSign, Answered
      <4> QED  BY <2>1, <3>2, <4>1 DEF TypeOK, AuthServiceSign
    <3>3. ASSUME NEW r \in Calls,
                 RequestSucceeds(r) \/ RequestFails(r) \/ RequestTimesOut(r) \/ Finally(r)
          PROVE  requests'[old].signedAt = requests[old].signedAt
      BY <2>1, <3>3 DEF TypeOK, RequestSucceeds, RequestFails, RequestTimesOut, Finally
    <3>4. ASSUME UNCHANGED requests PROVE requests'[old].signedAt = requests[old].signedAt
      BY <3>4
    <3> QED  BY <1>1, <3>1, <3>2, <3>3, <3>4 DEF Next, Deliver, Tick, vars
  <2>4. CASE cache'[k].token = old
    BY <2>1, <2>3, <2>4 DEF old
  <2>5. ASSUME NEW r \in Calls, RequestSucceeds(r), KeyOf(r) = k
        PROVE  requests[old].signedAt <= requests'[cache'[k].token].signedAt
    <3>1. cache'[k].token = r /\ requests'[r].signedAt = requests[r].signedAt
      BY <2>1, <2>5 DEF RequestSucceeds, TypeOK, KeyOf
    <3>2. Unsettled(r)
      BY <2>5 DEF RequestSucceeds, Unsettled
    <3>3. requests[old].signedAt <= requests[r].sentAt
      BY <1>1, <2>5, <3>2 DEF IInv, OrderInv, old
    <3>4. requests[r].sentAt <= requests[r].signedAt
      BY <1>1, <3>2 DEF IInv, ClockInv
    <3>5. requests[r].sentAt \in Nat /\ requests[r].signedAt \in Nat
      BY <2>1 DEF TypeOK
    <3> QED  BY <2>1, <3>1, <3>3, <3>4, <3>5
  <2>6. ASSUME ~\E r \in Calls : RequestSucceeds(r) /\ KeyOf(r) = k
        PROVE  cache'[k] = cache[k]
    <3>1. ASSUME NEW r \in Calls, RequestSucceeds(r) PROVE cache'[k] = cache[k]
      BY <2>1, <2>6, <3>1 DEF RequestSucceeds, KeyOf, TypeOK
    <3>2. ASSUME NEW c \in Calls, mintToken(c) PROVE cache'[k] = cache[k]
      BY <1>1, <2>1, <3>2
         DEF TypeOK, mintToken, MintWithoutSender, MintHit, MintJoin, MintRequest, readCache
    <3> QED  BY <1>1, <3>1, <3>2
             DEF Next, Deliver, AuthServiceSign, RequestFails, RequestTimesOut, Finally, Tick, vars
  <2>7. CASE ~\E r \in Calls : RequestSucceeds(r) /\ KeyOf(r) = k
    BY <2>4, <2>6, <2>7 DEF old
  <2> QED  BY <2>5, <2>7 DEF old
<1>2. IInv /\ [Next]_vars =>
        [\A k \in Keys : cache[k] # NoEntry /\ cache'[k] # NoEntry =>
           requests[cache[k].token].signedAt <= requests'[cache'[k].token].signedAt]_vars
  BY <1>1
<1> QED  BY Invariance, <1>2, PTL DEF Spec, CacheMovesForward

(* Scopes that hash alike grant the same authority: sorting an array loses  *)
(* its order only, and the other fields are part of the hash.               *)
LEMMA HashKeepsAuthority ==
  ASSUME NEW s, NEW t, stableScopeHash(s) = stableScopeHash(t)
  PROVE  SameAuthority(s, t)
<1>1. DOMAIN stableScopeHash(s) = DOMAIN s /\ DOMAIN stableScopeHash(t) = DOMAIN t
  BY DEF stableScopeHash
<1>2. \A f \in DOMAIN s : stableScopeHash(s)[f] = stableScopeHash(t)[f]
  OBVIOUS
<1>3. ASSUME NEW f \in DOMAIN s, f # ModeField PROVE s[f] = t[f]
  BY <1>1, <1>2, <1>3 DEF stableScopeHash
<1>4. ASSUME NEW f \in DOMAIN s, f = ModeField
      PROVE  {s[f][i] : i \in DOMAIN s[f]} = {t[f][i] : i \in DOMAIN t[f]}
  <2>1. Sorted(s[f]) = Sorted(t[f])
    BY <1>1, <1>2, <1>4 DEF stableScopeHash
  <2>2. \A seq : DOMAIN Sorted(seq) = {seq[i] : i \in DOMAIN seq}
    BY DEF Sorted
  <2> QED  BY <2>1, <2>2
<1> QED  BY <1>1, <1>3, <1>4 DEF SameAuthority

(* Sharing a cache entry or a request in flight never widens a caller's     *)
(* authority nor gives it another sender's token.                           *)
THEOREM LeastPrivilege == Spec => []TokensMatchAsks
<1>1. IInv => TokensMatchAsks
  <2> SUFFICES ASSUME IInv, NEW c \in Calls, calls[c].token # NoCall
               PROVE  LET minted == requests[calls[c].token].ask
                      IN  /\ minted.sender = calls[c].ask.sender
                          /\ SameAuthority(minted.scopes, calls[c].ask.scopes)
    BY DEF TokensMatchAsks
  <2> DEFINE minted == requests[calls[c].token].ask
  <2>1. cacheKey(minted) = cacheKey(calls[c].ask)
    BY DEF IInv, CallInv, KeyOf
  <2>2. /\ minted.sender = calls[c].ask.sender
        /\ stableScopeHash(minted.scopes) = stableScopeHash(calls[c].ask.scopes)
    BY <2>1 DEF cacheKey
  <2> QED  BY <2>2, HashKeepsAuthority
<1> QED  BY Invariance, <1>1, PTL
=============================================================================
