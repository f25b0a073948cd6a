---------------------------- MODULE TokenMinter -----------------------------
(***************************************************************************)
(* AuthTokenMinterService (src/auth/auth-token-minter.service.ts): bearer  *)
(* tokens for spawned agents, cached per (sender, scopes) and minted by    *)
(* the auth-service with at most one request in flight per key.            *)
(*                                                                         *)
(* A call is one invocation of mintToken.  A call that finds neither a     *)
(* cached token nor a request in flight starts the HTTP request, and the   *)
(* request (and the token it may return) is named after that call.         *)
(* JavaScript runs one turn at a time: a mintToken call runs to its return *)
(* in one step, and the awaits of requestToken are the points where other  *)
(* calls run.  Time is in seconds.                                         *)
(***************************************************************************)
EXTENDS AuthScopes

CONSTANTS Calls,      \* the invocations of mintToken
          Asks,       \* the [sender, scopes] pairs the callers ask for
          NoSender,   \* the empty sender
          NoCall,     \* stands for "no request" in inflight and in calls
          NoEntry,    \* stands for "no entry" in the cache
          Ttl,        \* MACP_AUTH_TOKEN_TTL_SECONDS
          Skew,       \* CLOCK_SKEW_MS, in seconds
          Timeout,    \* MACP_AUTH_SERVICE_TIMEOUT_MS, in seconds
          Grants,     \* the lifetimes the auth-service may grant
          Drift,      \* the verifier's clock is at most this far ahead of the signer's
          Horizon     \* bound: no call starts after Horizon

ASSUME TimesAssumption == /\ Ttl \in Nat \ {0}
                          /\ Skew \in Nat \ {0}
                          /\ Timeout \in Nat
                          /\ Drift \in Nat
                          /\ Horizon \in Nat
ASSUME GrantsAssumption == Grants \subseteq 0 .. Ttl
ASSUME CallAssumption == NoCall \notin Calls
ASSUME AskAssumption == Asks # {}
(* The defaults (10 s of skew, 5 s of timeout) leave 5 s for drift.         *)
ASSUME SkewCovers == Timeout + Drift <= Skew

VARIABLES now,      \* Date.now()
          calls,    \* what each caller knows
          requests, \* the requestToken executions, by the call that started them
          inflight, \* the inflight map
          cache     \* the cache map

vars == <<now, calls, requests, inflight, cache>>

Keys == {cacheKey(a) : a \in Asks}

Stages == {"none", "sent", "signed", "resolved", "rejected", "finished", "failed"}

(* Not settled: the auth-service has still to answer. *)
Unsettled(r) == requests[r].stage \in {"sent", "signed"}
(* Settled, but the finally callback that clears inflight has still to run. *)
Settled(r) == requests[r].stage \in {"resolved", "rejected"}

(* Mutation: rounds a lifetime down past zero. *)
LifetimeOffByOne(n) == n - 1

AtLeastOne(n) == IF n < 1 THEN 1 ELSE n

(* What requestToken takes for the lifetime: an answer without a finite one   *)
(* is taken to have granted what was asked.                                 *)
ttlSeconds(isFinite, expires_in_seconds) ==
  IF isFinite THEN AtLeastOne(expires_in_seconds) ELSE Ttl

Init ==
  /\ now = 0
  /\ calls = [c \in Calls |-> [pc |-> "idle", ask |-> CHOOSE a \in Asks : TRUE,
                               on |-> NoCall, token |-> NoCall, at |-> 0]]
  /\ requests = [c \in Calls |-> [stage |-> "none", ask |-> CHOOSE a \in Asks : TRUE,
                                  sentAt |-> 0, signedAt |-> 0, granted |-> 0]]
  /\ inflight = [k \in Keys |-> NoCall]
  /\ cache = [k \in Keys |-> NoEntry]

-----------------------------------------------------------------------------
(* mintToken *)

(* Mutation: the cache trusts a token to its last second. *)
UsableWithoutSkew(entry) == entry # NoEntry /\ now < entry.expiresAt

Usable(entry) == entry # NoEntry /\ now + Skew < entry.expiresAt

(* readCache drops an entry it finds too old. *)
readCache(k) ==
  IF Usable(cache[k]) THEN cache ELSE [cache EXCEPT ![k] = NoEntry]

MintWithoutSender(c, a) ==
  /\ calls[c].pc = "idle"
  /\ a.sender = NoSender
  /\ calls' = [calls EXCEPT ![c] = [pc |-> "failed", ask |-> a, on |-> NoCall,
                                    token |-> NoCall, at |-> 0]]
  /\ UNCHANGED <<now, requests, inflight, cache>>

MintHit(c, a) ==
  LET k == cacheKey(a) IN
  /\ calls[c].pc = "idle" /\ now <= Horizon
  /\ a.sender # NoSender
  /\ Usable(cache[k])
  /\ calls' = [calls EXCEPT ![c] = [pc |-> "hit", ask |-> a, on |-> NoCall,
                                    token |-> cache[k].token, at |-> now]]
  /\ UNCHANGED <<now, requests, inflight, cache>>

MintJoin(c, a) ==
  LET k == cacheKey(a) IN
  /\ calls[c].pc = "idle" /\ now <= Horizon
  /\ a.sender # NoSender
  /\ ~Usable(cache[k])
  /\ inflight[k] # NoCall
  /\ cache' = readCache(k)
  /\ calls' = [calls EXCEPT ![c] = [pc |-> "waiting", ask |-> a, on |-> inflight[k],
                                    token |-> NoCall, at |-> 0]]
  /\ UNCHANGED <<now, requests, inflight>>

(* Mutation: the request is not recorded as in flight. *)
MintRequestUnrecorded(c, a) ==
  LET k == cacheKey(a) IN
  /\ calls[c].pc = "idle" /\ now <= Horizon
  /\ a.sender # NoSender
  /\ ~Usable(cache[k])
  /\ inflight[k] = NoCall
  /\ cache' = readCache(k)
  /\ requests' = [requests EXCEPT ![c] = [stage |-> "sent", ask |-> a, sentAt |-> now,
                                          signedAt |-> now, granted |-> 0]]
  /\ calls' = [calls EXCEPT ![c] = [pc |-> "waiting", ask |-> a, on |-> c,
                                    token |-> NoCall, at |-> 0]]
  /\ UNCHANGED <<now, inflight>>

MintRequest(c, a) ==
  LET k == cacheKey(a) IN
  /\ calls[c].pc = "idle" /\ now <= Horizon
  /\ a.sender # NoSender
  /\ ~Usable(cache[k])
  /\ inflight[k] = NoCall
  /\ cache' = readCache(k)
  /\ inflight' = [inflight EXCEPT ![k] = c]
  /\ requests' = [requests EXCEPT ![c] = [stage |-> "sent", ask |-> a, sentAt |-> now,
                                          signedAt |-> now, granted |-> 0]]
  /\ calls' = [calls EXCEPT ![c] = [pc |-> "waiting", ask |-> a, on |-> c,
                                    token |-> NoCall, at |-> 0]]
  /\ UNCHANGED now

-----------------------------------------------------------------------------
(* The auth-service: it signs a token for what was asked, for at most the   *)
(* lifetime asked, and reports the lifetime it granted.  One that reports     *)
(* none has granted what was asked.                                         *)

AuthServiceSign(r, granted) ==
  /\ requests[r].stage = "sent"
  /\ requests' = [requests EXCEPT ![r] = [@ EXCEPT !.stage = "signed", !.signedAt = now,
                                                  !.granted = granted]]
  /\ UNCHANGED <<now, calls, inflight, cache>>

(* requestToken *)

RequestSucceeds(r) ==
  LET k == cacheKey(requests[r].ask)
      granted == requests[r].granted
  IN
  /\ requests[r].stage = "signed"
  /\ \E isFinite \in BOOLEAN :
       /\ isFinite \/ granted = Ttl
       /\ cache' = [cache EXCEPT ![k] = [token |-> r,
                                         expiresAt |-> now + ttlSeconds(isFinite, granted)]]
  /\ requests' = [requests EXCEPT ![r].stage = "resolved"]
  /\ UNCHANGED <<now, calls, inflight>>

(* A network error, a status that is not 2xx, a body that is not JSON or    *)
(* has no token.                                                            *)
RequestFails(r) ==
  /\ Unsettled(r)
  /\ requests' = [requests EXCEPT ![r].stage = "rejected"]
  /\ UNCHANGED <<now, calls, inflight, cache>>

(* Mutation: the abort covers the response headers only. *)
TimesOutBeforeHeaders(r) ==
  /\ requests[r].stage = "sent"
  /\ now = requests[r].sentAt + Timeout
  /\ requests' = [requests EXCEPT ![r].stage = "rejected"]
  /\ UNCHANGED <<now, calls, inflight, cache>>

(* AbortSignal.timeout covers the response and its body. *)
RequestTimesOut(r) ==
  /\ Unsettled(r)
  /\ now = requests[r].sentAt + Timeout
  /\ requests' = [requests EXCEPT ![r].stage = "rejected"]
  /\ UNCHANGED <<now, calls, inflight, cache>>

(* Mutation: then instead of finally, a rejected promise stays in flight. *)
ThenOnly(r) ==
  /\ Settled(r)
  /\ inflight' = IF requests[r].stage = "resolved"
                   THEN [inflight EXCEPT ![cacheKey(requests[r].ask)] = NoCall]
                   ELSE inflight
  /\ requests' = [requests EXCEPT ![r].stage =
                    IF requests[r].stage = "resolved" THEN "finished" ELSE "failed"]
  /\ UNCHANGED <<now, calls, cache>>

(* The finally callback, a microtask after the request settled. *)
Finally(r) ==
  /\ Settled(r)
  /\ inflight' = [inflight EXCEPT ![cacheKey(requests[r].ask)] = NoCall]
  /\ requests' = [requests EXCEPT ![r].stage =
                    IF requests[r].stage = "resolved" THEN "finished" ELSE "failed"]
  /\ UNCHANGED <<now, calls, cache>>

(* Every caller awaits the promise finally returned. *)
Deliver(c) ==
  LET r == calls[c].on IN
  /\ calls[c].pc = "waiting"
  /\ \/ /\ requests[r].stage = "finished"
        /\ calls' = [calls EXCEPT ![c] = [pc |-> "minted", ask |-> calls[c].ask, on |-> r,
                                          token |-> r, at |-> now]]
     \/ /\ requests[r].stage = "failed"
        /\ calls' = [calls EXCEPT ![c].pc = "failed"]
  /\ UNCHANGED <<now, requests, inflight, cache>>

(* Time passes between turns: not while a promise callback is due, and not  *)
(* past the moment an abort is due.                                         *)
Tick ==
  /\ now < Horizon + Timeout
  /\ \A r \in Calls : /\ ~Settled(r)
                      /\ Unsettled(r) => now < requests[r].sentAt + Timeout
  /\ \A c \in Calls : calls[c].pc = "waiting" =>
                        requests[calls[c].on].stage \notin {"finished", "failed"}
  /\ now' = now + 1
  /\ UNCHANGED <<calls, requests, inflight, cache>>

-----------------------------------------------------------------------------
mintToken(c) ==
  \E a \in Asks :
    \/ MintWithoutSender(c, a)
    \/ MintHit(c, a)
    \/ MintJoin(c, a)
    \/ MintRequest(c, a)

Next ==
  \/ \E c \in Calls : mintToken(c) \/ Deliver(c)
  \/ \E r \in Calls :
       \/ \E granted \in Grants : AuthServiceSign(r, granted)
       \/ RequestSucceeds(r)
       \/ RequestFails(r)
       \/ RequestTimesOut(r)
       \/ Finally(r)
  \/ Tick

(* Timers fire and microtasks run; nothing obliges the auth-service to     *)
(* answer, nor a caller to call.                                           *)
Fairness ==
  /\ WF_vars(Tick)
  /\ \A c \in Calls : /\ WF_vars(RequestTimesOut(c))
                      /\ WF_vars(Finally(c))
                      /\ WF_vars(Deliver(c))

Spec == Init /\ [][Next]_vars
FairSpec == Spec /\ Fairness

-----------------------------------------------------------------------------
(* The verifier refuses a token from this moment of the signer's clock on. *)
ExpiryOf(r) == requests[r].signedAt + requests[r].granted

TypeOK ==
  /\ now \in Nat
  /\ calls \in [Calls -> [pc : {"idle", "waiting", "hit", "minted", "failed"}, ask : Asks,
                          on : Calls \cup {NoCall}, token : Calls \cup {NoCall}, at : Nat]]
  /\ requests \in [Calls -> [stage : Stages, ask : Asks, sentAt : Nat,
                             signedAt : Nat, granted : 0 .. Ttl]]
  /\ inflight \in [Keys -> Calls \cup {NoCall}]
  /\ cache \in [Keys -> {NoEntry} \cup [token : Calls, expiresAt : Nat]]

(* A token handed out from the cache is still accepted by a verifier whose *)
(* clock is up to Drift seconds ahead: the skew buffer of readCache has to  *)
(* pay for the response latency (expiresAt is computed when the answer      *)
(* arrives, after the token was signed) and for the drift.                  *)
HitsAreAccepted ==
  \A c \in Calls : calls[c].pc = "hit" =>
                     calls[c].at + Drift < ExpiryOf(calls[c].token)

(* Concurrent spawns coalesce: two requests for the same key are never in   *)
(* flight together, whatever the order of answers, failures and timeouts.   *)
SingleFlight ==
  \A r, s \in Calls :
    /\ Unsettled(r) /\ Unsettled(s)
    /\ cacheKey(requests[r].ask) = cacheKey(requests[s].ask)
    => r = s

(* Least privilege: whether cached, shared with a concurrent call or fresh, *)
(* the token a caller gets was minted for its sender and for the authority  *)
(* it asked for.                                                            *)
TokensMatchAsks ==
  \A c \in Calls : calls[c].token # NoCall =>
    LET minted == requests[calls[c].token].ask IN
    /\ minted.sender = calls[c].ask.sender
    /\ SameAuthority(minted.scopes, calls[c].ask.scopes)

(* No negative caching: a call that joins a request joins one whose outcome *)
(* is not yet known to any caller, so a failure is never replayed to a call *)
(* made after it was reported.                                              *)
JoinsOnlyLiveRequests ==
  [][\A c \in Calls :
       calls[c].pc = "idle" /\ calls'[c].pc = "waiting" =>
         requests'[calls'[c].on].stage \notin {"finished", "failed"}]_vars

(* The cache never goes back to a token signed before the one it replaces,  *)
(* although several requests for the key may have come and gone.            *)
CacheMovesForward ==
  [][\A k \in Keys :
       cache[k] # NoEntry /\ cache'[k] # NoEntry =>
         requests[cache[k].token].signedAt <= requests'[cache'[k].token].signedAt]_vars

(* Every call returns a token or an error, even when the auth-service never *)
(* answers: the abort timer settles the request and with it every call      *)
(* that joined it.                                                          *)
EveryCallReturns ==
  \A c \in Calls : calls[c].pc = "waiting" ~> calls[c].pc \in {"minted", "failed"}
=============================================================================
