---------------------------- MODULE SigningKeys ----------------------------
(* The verification of bearer tokens of the identity provider               *)
(* (core/auth.py): its signing keys are cached for a time, and asked for    *)
(* again when a token names a key that is not among them.  Verifications    *)
(* interleave at their requests to the provider, which rotates its keys     *)
(* meanwhile.                                                               *)
EXTENDS Browser

CONSTANTS Keys,      \* what a token can name as its signing key
          Verifiers, \* verifications at a time
          Ttl,       \* cache_ttl_seconds, in ticks
          MaxFetch,  \* the timeout of a request, in ticks
          MaxTicks

ASSUME TimesAssumption == Ttl \in Nat \ {0} /\ MaxFetch \in Nat

VARIABLES provided,      \* keys the provider has
          gone,          \* [key]: ticks since it was withdrawn, and one; as far as they matter
          jwks,          \* the cached keys and the ticks they have left, or None
          discovery,     \* ticks the cached discovery document has left
          verifications, \* [verifier]: where it is
          ticks

keyVars == <<provided, gone, jwks, discovery, verifications, ticks>>

NoVerification == [at |-> "idle", key |-> None, tries |-> 0, since |-> FALSE, age |-> 0,
                   document |-> {}, late |-> 0]

(* since: its key has been published all the time; tries: lookups.          *)
NewVerification(k) == [NoVerification EXCEPT !.key = k, !.tries = 1, !.since = k \in provided]

Verifies(v, change) == verifications' = [verifications EXCEPT ![v] = change]
Outcome(c, result) ==
  [NoVerification EXCEPT !.at = result, !.since = c.since,
                         !.late = IF result = "accepted" THEN gone[c.key] ELSE 0]

Waiting(v) == verifications[v].at \in {"discover", "fetch", "fetched"}

-----------------------------------------------------------------------------
(* _get_jwks() without cached keys: a request, after one for the discovery  *)
(* document where that is not cached either.                                *)
Asks(c) == [c EXCEPT !.age = 0, !.at = IF discovery > 0 THEN "fetch" ELSE "discover"]

(* Mutant: the cached keys stay where they lack the key.                    *)
BadLookedUp_Kept(v, c, cached) ==
  /\ jwks' = cached
  /\ Verifies(v,
       IF c.key \in cached.keys THEN Outcome(c, "accepted")
       ELSE Outcome(c, "unknownKey"))

(* The key of the token is looked for; the first time it is missing, the    *)
(* cached keys are dropped and asked for again.                             *)
LookedUp(v, c, cached) ==
  \/ /\ c.key \in cached.keys
     /\ jwks' = cached
     /\ Verifies(v, Outcome(c, "accepted"))
  \/ /\ c.key \notin cached.keys /\ c.tries = 1
     /\ jwks' = None
     /\ Verifies(v, Asks([c EXCEPT !.tries = 2]))
  \/ /\ c.key \notin cached.keys /\ c.tries = 2
     /\ jwks' = cached
     /\ Verifies(v, Outcome(c, "unknownKey"))

(* Up to its first request a verification is one step.                      *)
StartVerification(v, k) ==
  /\ ~Waiting(v)
  /\ Act
  /\ IF jwks # None THEN LookedUp(v, NewVerification(k), jwks)
     ELSE Verifies(v, Asks(NewVerification(k))) /\ UNCHANGED jwks
  /\ UNCHANGED <<page, flights, provided, gone, discovery, ticks>>

Discovered(v) ==
  /\ verifications[v].at = "discover"
  /\ Verifies(v, [verifications[v] EXCEPT !.at = "fetch", !.age = 0])
  /\ discovery' = Ttl
  /\ UNCHANGED <<browserVars, provided, gone, jwks, ticks>>

ServeKeys(v) ==
  /\ verifications[v].at = "fetch"
  /\ Verifies(v, [verifications[v] EXCEPT !.at = "fetched", !.document = provided])
  /\ UNCHANGED <<browserVars, provided, gone, jwks, discovery, ticks>>

(* Whatever is cached by then is replaced.                                  *)
KeysArrive(v) ==
  /\ verifications[v].at = "fetched"
  /\ LookedUp(v, verifications[v], [keys |-> verifications[v].document, left |-> Ttl])
  /\ UNCHANGED <<browserVars, provided, gone, discovery, ticks>>

FetchFails(v) ==
  /\ Waiting(v)
  /\ Act
  /\ Verifies(v, Outcome(verifications[v], "failed"))
  /\ UNCHANGED <<page, flights, provided, gone, jwks, discovery, ticks>>

-----------------------------------------------------------------------------
(* The provider adds a key, or withdraws one.                               *)
AddKey(k) ==
  /\ k \notin provided /\ gone[k] = 0
  /\ provided' = provided \cup {k}
  /\ UNCHANGED <<browserVars, gone, jwks, discovery, verifications, ticks>>

WithdrawKey(k) ==
  /\ k \in provided
  /\ provided' = provided \ {k}
  /\ gone' = [gone EXCEPT ![k] = 1]
  /\ verifications' = [v \in Verifiers |-> [verifications[v] EXCEPT !.since = @ /\ verifications[v].key # k]]
  /\ UNCHANGED <<browserVars, jwks, discovery, ticks>>

(* Mutant: no time to live.                                                 *)
BadOlder_Forever(cached) == cached

Older(cached) ==
  IF cached = None \/ cached.left = 1 THEN None ELSE [cached EXCEPT !.left = @ - 1]

(* Time passes, but not over the timeout of a request.                      *)
TimePasses ==
  /\ ticks < MaxTicks /\ ticks' = ticks + 1
  /\ \A v \in Verifiers : Waiting(v) => verifications[v].age < MaxFetch
  /\ verifications' = [v \in Verifiers |-> IF Waiting(v) THEN [verifications[v] EXCEPT !.age = @ + 1]
                                           ELSE verifications[v]]
  /\ gone' = [k \in Keys |-> IF gone[k] \in 1..(Ttl + MaxFetch) THEN gone[k] + 1 ELSE gone[k]]
  /\ jwks' = Older(jwks)
  /\ discovery' = IF discovery = 0 THEN 0 ELSE discovery - 1
  /\ UNCHANGED <<browserVars, provided>>

-----------------------------------------------------------------------------
KeyInit ==
  /\ provided \in SUBSET Keys /\ gone = [k \in Keys |-> 0]
  /\ jwks = None /\ discovery = 0 /\ ticks = 0
  /\ verifications = [v \in Verifiers |-> NoVerification]
  /\ page = [at |-> "none", of |-> None, no |-> 0] /\ flights = {} /\ acts = 0

KeyNext ==
  \/ TimePasses
  \/ \E k \in Keys : AddKey(k) \/ WithdrawKey(k)
  \/ \E v \in Verifiers :
       \/ \E k \in Keys : StartVerification(v, k)
       \/ Discovered(v) \/ ServeKeys(v) \/ KeysArrive(v) \/ FetchFails(v)
=============================================================================
