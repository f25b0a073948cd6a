----------------------------- MODULE AuthScopes -----------------------------
(***************************************************************************)
(* What a minted token is allowed to do, and when two requests may share   *)
(* one.  The host provider derives the scopes of every spawned agent       *)
(* (deriveScopes), the operator may override them per sender (mergeScopes) *)
(* and the minter keys its cache by sender and scopes (cacheKey).          *)
(*                                                                         *)
(* A scopes object is a function from the names of the fields it has to    *)
(* their values; allowed_modes is a sequence of modes, the other fields    *)
(* are Booleans.  In an override a field may also be NullValue.            *)
(***************************************************************************)
EXTENDS Integers, Sequences, FiniteSets

CONSTANTS NullValue,  \* JSON null, which an override uses to clear a field
          AmbientMode \* the mode "" of the Signal and Progress envelopes

ModeField == "allowed_modes"

(* The role defaults: only the initiator may start sessions. *)
RoleScopes(isInitiator, mode) ==
  [can_start_sessions |-> isInitiator,
   is_observer        |-> FALSE,
   allowed_modes      |-> <<mode, AmbientMode>>]

(* Override fields replace the defaults, null clears the field. *)
mergeScopes(base, override) ==
  [f \in {g \in DOMAIN base \cup DOMAIN override :
            g \in DOMAIN override => override[g] # NullValue} |->
     IF f \in DOMAIN override THEN override[f] ELSE base[f]]

deriveScopes(isInitiator, mode, override) ==
  mergeScopes(RoleScopes(isInitiator, mode), override)

(* Sorting an array forgets the order of its elements and nothing else. *)
Sorted(seq) ==
  [x \in {seq[i] : i \in DOMAIN seq} |->
     Cardinality({i \in DOMAIN seq : seq[i] = x})]

stableScopeHash(scopes) ==
  [f \in DOMAIN scopes |->
     IF f = ModeField THEN Sorted(scopes[f]) ELSE scopes[f]]

(* Mutation: the cache is keyed by sender alone. *)
senderKey(ask) == <<ask.sender>>

cacheKey(ask) == <<ask.sender, stableScopeHash(ask.scopes)>>

(* Two scopes objects grant the same authority when they have the same     *)
(* fields, allow the same modes and agree on every other field.            *)
SameAuthority(s, t) ==
  /\ DOMAIN s = DOMAIN t
  /\ \A f \in DOMAIN s :
       IF f = ModeField
         THEN {s[f][i] : i \in DOMAIN s[f]} = {t[f][i] : i \in DOMAIN t[f]}
         ELSE s[f] = t[f]
=============================================================================
