----------------------------- MODULE JwksRefresh -----------------------------
(***************************************************************************)
(* refreshingKeySet of service/jwks.go: goroutines verify tokens with the  *)
(* cached keys of the authorization service and share one refresh when the *)
(* cache does not have the key, while the service replaces its keys.       *)
(*                                                                         *)
(* What the service publishes, one key or none, is numbered in the order   *)
(* it is published; a token is the number of the key it was signed with.   *)
(***************************************************************************)
EXTENDS Integers, FiniteSets

CONSTANTS
  Verifiers,     \* goroutines that call VerifySignature
  MaxRotations   \* bound: key sets the service publishes

ASSUME JwksAssumption == IsFiniteSet(Verifiers) /\ MaxRotations \in Nat \ {0}

VARIABLES
  published,   \* the key set the service publishes
  keyless,     \* the key sets, published so far, that have no key
  cachedKeys,  \* the key set in the cache, 0 before the first fetch
  recent,      \* time.Since(lastFetch) < refreshInterval
  inflight,    \* the refresh in flight, 0 for none
  flights,     \* the refreshes, by number: how far each is and what it fetched
  verifier,    \* the call of each goroutine
  early        \* history: refreshes begun since the cache was recent and had a key

jwksVars == <<published, keyless, cachedKeys, recent, inflight, flights, verifier, early>>

(* A refresh that ended is free for another one once nobody reads it. *)
FlightIDs == 1 .. Cardinality(Verifiers) + 1
Failed == 0
NoCall == [pc |-> "idle", on |-> 0]

JwksInit ==
  /\ published = 1 /\ keyless \in SUBSET {1}
  /\ cachedKeys = 0 /\ recent = FALSE
  /\ inflight = 0
  /\ flights = [f \in FlightIDs |-> [state |-> "over", key |-> Failed]]
  /\ verifier = [v \in Verifiers |-> NoCall]
  /\ early = 0

(* len(cachedKeys) # 0 *)
HasKeys == cachedKeys # 0 /\ cachedKeys \notin keyless

(* Mutant: an unknown key is always fetched. *)
needsRefreshAlways(kid) == TRUE

(* The cache is empty, or does not have the key the token names and is old. *)
needsRefresh(kid) == ~HasKeys \/ (kid # 0 /\ ~recent)

(* A call looks at the cache and either returns or goes for a refresh.  A  *)
(* token without a kid, 0, is tried with every key; published + 1 is a key *)
(* the service does not have.                                              *)
VerifySignature(v) ==
  /\ verifier[v].pc = "idle"
  /\ \E token \in 1 .. published + 1 : \E kid \in {0, token} :
       /\ HasKeys => token # cachedKeys
       /\ needsRefresh(kid)
       /\ verifier' = [verifier EXCEPT ![v] = [NoCall EXCEPT !.pc = "remote"]]
  /\ UNCHANGED <<published, keyless, cachedKeys, recent, inflight, flights, early>>

Free == CHOOSE f \in FlightIDs :
  flights[f].state = "over" /\ \A v \in Verifiers : verifier[v].on # f

Started(f) == [flights EXCEPT ![f] = [state |-> "fetching", key |-> Failed]]
Counted == IF recent /\ HasKeys /\ early <= Cardinality(Verifiers) THEN early + 1 ELSE early
WaitOn(v, f) == verifier' = [verifier EXCEPT ![v].pc = "wait", ![v].on = f]

(* keysFromRemote, under the lock: join the refresh in flight... *)
joinRefresh(v) ==
  /\ verifier[v].pc = "remote"
  /\ inflight # 0
  /\ WaitOn(v, inflight)
  /\ UNCHANGED <<published, keyless, cachedKeys, recent, inflight, flights, early>>

(* Mutant: every caller starts a refresh of its own. *)
startAnyway(v) ==
  /\ verifier[v].pc = "remote"
  /\ \E f \in FlightIDs : flights[f].state = "over" /\ \A w \in Verifiers : verifier[w].on # f
  /\ flights' = Started(Free) /\ inflight' = Free /\ WaitOn(v, Free)
  /\ early' = Counted
  /\ UNCHANGED <<published, keyless, cachedKeys, recent>>

(* ...or start one. *)
startRefresh(v) ==
  /\ verifier[v].pc = "remote"
  /\ inflight = 0
  /\ flights' = Started(Free) /\ inflight' = Free /\ WaitOn(v, Free)
  /\ early' = Counted
  /\ UNCHANGED <<published, keyless, cachedKeys, recent>>

(* updateKeys: the request fails, or returns what the service publishes,   *)
(* which decodeKeySet accepts without a key too.                           *)
updateKeys(f) ==
  /\ flights[f].state = "fetching"
  /\ \E key \in {Failed, published} :
       flights' = [flights EXCEPT ![f] = [state |-> "fetched", key |-> key]]
  /\ UNCHANGED <<published, keyless, cachedKeys, recent, inflight, verifier, early>>

(* close(inflight.doneCh), before the lock is taken... *)
closeDone(f) ==
  /\ flights[f].state = "fetched"
  /\ flights' = [flights EXCEPT ![f].state = "closed"]
  /\ UNCHANGED <<published, keyless, cachedKeys, recent, inflight, verifier, early>>

(* ...and the cache is updated, also with a key set that has no key. *)
storeKeys(f) ==
  /\ flights[f].state = "closed"
  /\ flights' = [flights EXCEPT ![f] = [state |-> "over", key |-> Failed]]
  /\ IF flights[f].key # Failed
     THEN /\ cachedKeys' = flights[f].key
          /\ recent' = TRUE
          /\ early' = IF recent /\ HasKeys THEN early ELSE 0
     ELSE UNCHANGED <<cachedKeys, recent, early>>
  /\ inflight' = 0
  /\ UNCHANGED <<published, keyless, verifier>>

(* The select of keysFromRemote; a token is then tried with the new keys. *)
refreshDone(v) ==
  /\ verifier[v].pc = "wait"
  /\ flights[verifier[v].on].state \in {"closed", "over"}
  /\ verifier' = [verifier EXCEPT ![v] = NoCall]
  /\ UNCHANGED <<published, keyless, cachedKeys, recent, inflight, flights, early>>

contextDone(v) ==
  /\ verifier[v].pc = "wait"
  /\ verifier' = [verifier EXCEPT ![v] = NoCall]
  /\ UNCHANGED <<published, keyless, cachedKeys, recent, inflight, flights, early>>

(* External: the service replaces its keys, perhaps by none, and time      *)
(* passes.                                                                 *)
Rotate ==
  /\ published < MaxRotations
  /\ published' = published + 1
  /\ keyless' \in {keyless, keyless \cup {published + 1}}
  /\ UNCHANGED <<cachedKeys, recent, inflight, flights, verifier, early>>

IntervalPasses ==
  /\ recent
  /\ recent' = FALSE
  /\ UNCHANGED <<published, keyless, cachedKeys, inflight, flights, verifier, early>>

Refresh(f) == updateKeys(f) \/ closeDone(f) \/ storeKeys(f)
KeysFromRemote(v) == joinRefresh(v) \/ startRefresh(v) \/ refreshDone(v)

JwksNext ==
  \/ \E v \in Verifiers : VerifySignature(v) \/ KeysFromRemote(v) \/ contextDone(v)
  \/ \E f \in FlightIDs : Refresh(f)
  \/ Rotate \/ IntervalPasses

JwksSpec == JwksInit /\ [][JwksNext]_jwksVars

------------------------------------------------------------------------------
(* Properties. *)

(* The cache follows what the service publishes: it never goes back to an  *)
(* older key set, with keys or without, nor to the state before the first  *)
(* fetch.  Not by a refresh that fails, and not by one that is stored      *)
(* late, although waiters are woken and new callers arrive before.         *)
CacheNeverRegresses == [][cachedKeys' >= cachedKeys]_jwksVars

(* While the cache has a key, refreshes are rate limited: a caller decides *)
(* on what it saw before it took the lock, so that a refresh may begin     *)
(* although the last one is recent, but no more often than there are       *)
(* callers.  A cache that was fetched without a key is not limited: every  *)
(* call refreshes it, as if nothing had been fetched yet.                  *)
RefreshesBounded == early <= Cardinality(Verifiers)
==============================================================================
