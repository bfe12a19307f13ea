-------------------------- MODULE ServiceClientProofs ------------------------
(***************************************************************************)
(* Theorems about the clients of the online services: the version search   *)
(* of the Realms client and the refresh of the JWKS key set, for any       *)
(* number of goroutines.                                                   *)
(***************************************************************************)
EXTENDS JwksRefresh, RealmsVersion, FiniteSetTheorems, TLAPS

(* Realms: what a goroutine may be doing, and who owns negotiateMu. *)
RequestPCs == {"idle", "send", "rejected", "locked", "search", "found", "failed", "retry"}
Searching == {"locked", "search", "found", "failed"}

RealmsTypeOK ==
  /\ cooling \in BOOLEAN
  /\ request \in [Requests -> [pc : RequestPCs, sent : Int, next : Int, low : Int]]
  /\ preferredVersion \in Versions \cup {NoVersion}
  /\ acceptedVersion \in Int

LockInv ==
  /\ negotiateMu \in Requests \cup {Unlocked}
  /\ \A r \in Requests : request[r].pc \in Searching <=> negotiateMu = r

RealmsInv == RealmsTypeOK /\ LockInv /\ NoSearchWhileCooling

(* No compatibility check is sent while the cooldown of a failed search    *)
(* runs: the lock makes whoever was rejected meanwhile look at the         *)
(* cooldown after the failure was recorded, for any number of requests and *)
(* whatever SetClientVersion and the server do.                            *)
THEOREM SearchesOnce == RealmsSpec => []NoSearchWhileCooling
<1> USE RealmsAssumption DEF Unlocked, NoVersion, Versions
<1>1. RealmsInit => RealmsInv
  <2> SUFFICES ASSUME RealmsInit PROVE RealmsInv
    OBVIOUS
  <2>1. NoRequest \in [pc : RequestPCs, sent : Int, next : Int, low : Int]
    BY DEF NoRequest, RequestPCs
  <2>2. cooling \in BOOLEAN
    BY Zenon DEF RealmsInit
  <2>3. RealmsTypeOK
    BY <2>1, <2>2 DEF RealmsInit, RealmsTypeOK
  <2>4. LockInv
    BY DEF RealmsInit, LockInv, NoRequest, Searching
  <2> QED BY <2>3, <2>4 DEF RealmsInit, RealmsInv, NoSearchWhileCooling
<1>2. RealmsInv /\ [RealmsNext]_realmsVars => RealmsInv'
  <2> SUFFICES ASSUME RealmsInv, [RealmsNext]_realmsVars PROVE RealmsInv'
    OBVIOUS
  <2> USE DEF RealmsInv, RealmsTypeOK, LockInv, NoSearchWhileCooling, RequestPCs, Searching
  <2>1. clientVersion \in Int /\ Preferred \in Int /\ versionCandidates(Preferred) \in Int
    BY DEF clientVersion, Preferred, versionCandidates
  <2>2. ASSUME NEW r \in Requests, requestWithMethod(r) PROVE RealmsInv'
    BY <2>1, <2>2, ZenonT(60) DEF requestWithMethod
  <2>3. ASSUME NEW r \in Requests, sendWithMethod(r) PROVE RealmsInv'
    BY <2>3 DEF sendWithMethod, NoRequest
  <2>4. ASSUME NEW r \in Requests, retry(r) PROVE RealmsInv'
    BY <2>4 DEF retry, NoRequest
  <2>5. ASSUME NEW r \in Requests, negotiateClientVersion(r) PROVE RealmsInv'
    BY <2>5 DEF negotiateClientVersion
  <2>6. ASSUME NEW r \in Requests, startSearch(r) PROVE RealmsInv'
    BY <2>1, <2>6 DEF startSearch, NoRequest
  <2>7. ASSUME NEW r \in Requests, versionCompatible(r) PROVE RealmsInv'
    BY <2>7 DEF versionCompatible
  <2>8. ASSUME NEW r \in Requests, storeAccepted(r) PROVE RealmsInv'
    BY <2>8 DEF storeAccepted
  <2>9. ASSUME NEW r \in Requests, recordSearchFailure(r) PROVE RealmsInv'
    BY <2>9 DEF recordSearchFailure, NoRequest
  <2>10. CASE SetClientVersion
    <3>1. PICK version \in Versions \cup {NoVersion} : preferredVersion' = version
      BY <2>10 DEF SetClientVersion
    <3>2. cooling' \in BOOLEAN /\ ~cooling'
      BY <2>10, Zenon DEF SetClientVersion
    <3> QED BY <2>10, <3>1, <3>2 DEF SetClientVersion
  <2>11. CASE SupportChanges
    BY <2>11 DEF SupportChanges
  <2>12. CASE CooldownPasses
    BY <2>12 DEF CooldownPasses
  <2>13. CASE UNCHANGED realmsVars
    BY <2>13 DEF realmsVars
  <2> QED BY <2>2, <2>3, <2>4, <2>5, <2>6, <2>7, <2>8, <2>9, <2>10, <2>13, <2>11, <2>12
          DEF RealmsNext, Negotiate
<1> QED BY <1>1, <1>2, PTL DEF RealmsSpec, RealmsInv

------------------------------------------------------------------------------
(* JWKS: the types, with at most one refresh that is not over, the one in  *)
(* flight; what it fetched is no older than the cache.                     *)
Calls == [pc : {"idle", "remote", "wait"}, on : Nat]

JwksTypeOK ==
  /\ published \in Nat \ {0} /\ keyless \in SUBSET (1 .. published) /\ cachedKeys \in Nat
  /\ recent \in BOOLEAN /\ early \in Nat
  /\ inflight \in FlightIDs \cup {0}
  /\ flights \in [FlightIDs -> [state : {"fetching", "fetched", "closed", "over"}, key : Nat]]
  /\ verifier \in [Verifiers -> Calls]

FlightInv ==
  /\ cachedKeys <= published
  /\ \A f \in FlightIDs :
       /\ flights[f].state = "over" => flights[f].key = Failed
       /\ flights[f].state # "over" => inflight = f
       /\ flights[f].key # Failed => cachedKeys <= flights[f].key /\ flights[f].key <= published

(* The callers that saw an old cache and have not taken the lock yet. *)
Remote == {v \in Verifiers : verifier[v].pc = "remote"}

(* While the last fetch is recent, and found a key, no caller goes for a   *)
(* refresh: each early one was begun by a caller that has left Remote      *)
(* since.                                                                  *)
RateInv ==
  /\ early <= Cardinality(Verifiers)
  /\ recent /\ HasKeys => early + Cardinality(Remote) <= Cardinality(Verifiers)

JwksInv == JwksTypeOK /\ FlightInv /\ RateInv

LEMMA VerifiersCounted ==
  /\ Cardinality(Verifiers) \in Nat
  /\ \A S \in SUBSET Verifiers :
       /\ IsFiniteSet(S) /\ Cardinality(S) \in Nat /\ Cardinality(S) <= Cardinality(Verifiers)
       /\ \A v \in S : Cardinality(S \ {v}) = Cardinality(S) - 1
  BY JwksAssumption, FS_CardinalityType, FS_Subset, FS_RemoveElement

(* A call that waits is a call. *)
LEMMA WaitOnType ==
  ASSUME verifier \in [Verifiers -> Calls], NEW v \in Verifiers, NEW f \in Nat, WaitOn(v, f)
  PROVE  verifier' \in [Verifiers -> Calls]
  BY DEF WaitOn, Calls

(* There is one refresh more than callers, so one is always free. *)
LEMMA FreeExists ==
  ASSUME JwksTypeOK, \A f \in FlightIDs : flights[f].state = "over"
  PROVE  Free \in FlightIDs
<1> DEFINE N == Cardinality(Verifiers)
           read == {verifier[v].on : v \in Verifiers}
<1>1. N \in Nat
  BY VerifiersCounted
<1>2. IsFiniteSet(read) /\ Cardinality(read) <= N
  <2> DEFINE on == [v \in Verifiers |-> verifier[v].on]
  <2>1. on \in Surjection(Verifiers, read)
    BY DEF Surjection
  <2> QED BY <2>1, JwksAssumption, FS_Surjection
<1>3. ~(FlightIDs \subseteq read)
  <2>1. Cardinality(1 .. N + 1) = N + 1
    BY <1>1, FS_Interval
  <2> HIDE DEF read, N
  <2>2. Cardinality(read) \in Nat
    BY <1>2, FS_CardinalityType
  <2>3. FlightIDs = 1 .. N + 1
    BY DEF FlightIDs, N
  <2> QED BY <1>1, <1>2, <2>1, <2>2, <2>3, FS_Subset
<1>4. PICK f \in FlightIDs : f \notin read
  BY <1>3
<1> QED BY <1>4 DEF Free

(* A refresh that ends does what it fetched no harm, and the keys in the   *)
(* cache never get older: JwksInv is inductive.                            *)
LEMMA JwksInductive == JwksSpec => []JwksInv
<1> USE DEF JwksInv, JwksTypeOK, Calls
<1>1. JwksInit => JwksInv
  <2> SUFFICES ASSUME JwksInit PROVE JwksInv
    OBVIOUS
  <2>1. recent \in BOOLEAN /\ ~recent
    BY Zenon DEF JwksInit
  <2>2. JwksTypeOK
    BY <2>1 DEF JwksInit, NoCall, Failed
  <2>3. FlightInv
    BY DEF JwksInit, FlightInv, Failed
  <2>4. RateInv
    BY <2>1, VerifiersCounted DEF JwksInit, RateInv
  <2> QED BY <2>2, <2>3, <2>4
<1>2. JwksInv /\ [JwksNext]_jwksVars => JwksInv'
  <2> SUFFICES ASSUME JwksInv, [JwksNext]_jwksVars PROVE JwksInv'
    OBVIOUS
  <2> DEFINE N == Cardinality(Verifiers)
  <2>1. N \in Nat /\ Remote \in SUBSET Verifiers /\ Remote' \in SUBSET Verifiers
        /\ Cardinality(Remote) \in Nat /\ Cardinality(Remote') \in Nat
        /\ Cardinality(Remote) <= N /\ Cardinality(Remote') <= N
    BY VerifiersCounted DEF Remote
  <2>2. ASSUME NEW v \in Verifiers, VerifySignature(v) PROVE JwksInv'
    <3>1. ~(recent' /\ HasKeys')
      BY <2>2 DEF VerifySignature, needsRefresh, HasKeys
    <3>2. JwksTypeOK' /\ FlightInv'
      BY <2>2 DEF VerifySignature, FlightInv, NoCall
    <3> QED BY <2>2, <3>1, <3>2 DEF VerifySignature, RateInv
  <2>3. ASSUME NEW v \in Verifiers, joinRefresh(v) PROVE JwksInv'
    <3>1. inflight \in Nat
      BY <2>1 DEF FlightIDs
    <3>2. JwksTypeOK' /\ FlightInv'
      BY <2>3, <3>1, WaitOnType DEF joinRefresh, FlightInv
    <3>3. Remote' = Remote \ {v} /\ v \in Remote
      BY <2>3 DEF joinRefresh, WaitOn, Remote
    <3>4. Cardinality(Remote') = Cardinality(Remote) - 1
      BY <2>1, <3>3, VerifiersCounted
    <3> QED BY <2>1, <2>3, <3>2, <3>4 DEF joinRefresh, RateInv, HasKeys
  <2>4. ASSUME NEW v \in Verifiers, startRefresh(v) PROVE JwksInv'
    <3>1. \A f \in FlightIDs : flights[f].state = "over"
      BY <2>4 DEF startRefresh, FlightInv, FlightIDs
    <3>2. Free \in FlightIDs
      BY <3>1, FreeExists
    <3>3. Free \in Nat
      BY <2>1, <3>2 DEF FlightIDs
    <3>4. verifier' \in [Verifiers -> Calls]
      BY <2>4, <3>3, WaitOnType DEF startRefresh
    <3>5. JwksTypeOK'
      BY <2>4, <3>2, <3>4 DEF startRefresh, Started, Counted, Failed
    <3>6. FlightInv'
      BY <2>4, <3>1, <3>2 DEF startRefresh, Started, FlightInv, Failed
    <3>7. Remote' = Remote \ {v} /\ v \in Remote
      BY <2>4 DEF startRefresh, WaitOn, Remote
    <3>8. Cardinality(Remote') = Cardinality(Remote) - 1
      BY <2>1, <3>7, VerifiersCounted
    <3> QED BY <2>1, <2>4, <3>5, <3>6, <3>8 DEF startRefresh, RateInv, Counted, HasKeys
  <2>5. ASSUME NEW f \in FlightIDs, updateKeys(f) PROVE JwksInv'
    <3>1. PICK key \in {Failed, published} :
            flights' = [flights EXCEPT ![f] = [state |-> "fetched", key |-> key]]
      BY <2>5 DEF updateKeys
    <3>2. JwksTypeOK'
      BY <2>5, <3>1 DEF updateKeys, Failed
    <3>3. FlightInv'
      BY <2>5, <3>1 DEF updateKeys, FlightInv, Failed
    <3> QED BY <2>5, <3>2, <3>3 DEF updateKeys, RateInv, Remote, HasKeys
  <2>6. ASSUME NEW f \in FlightIDs, closeDone(f) PROVE JwksInv'
    BY <2>6 DEF closeDone, FlightInv, RateInv, Remote, HasKeys
  <2>7. ASSUME NEW f \in FlightIDs, storeKeys(f) PROVE JwksInv'
    <3>1. inflight = f /\ \A g \in FlightIDs \ {f} : flights[g].state = "over"
      BY <2>7 DEF storeKeys, FlightInv
    <3>2. Remote' = Remote
      BY <2>7 DEF storeKeys, Remote
    <3>3. CASE flights[f].key # Failed
      <4>1. recent' \in BOOLEAN /\ recent'
        BY <2>7, <3>3, Zenon DEF storeKeys
      <4>2. JwksTypeOK'
        BY <2>7, <3>3, <4>1 DEF storeKeys, Failed
      <4>3. FlightInv'
        BY <2>7, <3>1, <3>3 DEF storeKeys, FlightInv, Failed
      <4>4. early' = IF recent /\ HasKeys THEN early ELSE 0
        BY <2>7, <3>3 DEF storeKeys, Failed
      <4> QED BY <2>1, <3>2, <4>2, <4>3, <4>4 DEF RateInv
    <3>4. CASE flights[f].key = Failed
      <4>1. JwksTypeOK'
        BY <2>7, <3>4 DEF storeKeys, Failed
      <4>2. FlightInv'
        BY <2>7, <3>1, <3>4 DEF storeKeys, FlightInv, Failed
      <4> QED BY <2>7, <3>2, <3>4, <4>1, <4>2 DEF storeKeys, RateInv, HasKeys
    <3> QED BY <3>3, <3>4
  <2>8. ASSUME NEW v \in Verifiers, refreshDone(v) \/ contextDone(v) PROVE JwksInv'
    <3>1. JwksTypeOK' /\ FlightInv'
      <4>1. UNCHANGED <<published, keyless, cachedKeys, recent, inflight, flights, early>>
        BY <2>8 DEF refreshDone, contextDone
      <4>2. verifier' \in [Verifiers -> Calls]
        BY <2>8 DEF refreshDone, contextDone, NoCall
      <4> QED BY <4>1, <4>2 DEF FlightInv
    <3>2. Remote' = Remote
      BY <2>8 DEF refreshDone, contextDone, Remote, NoCall
    <3> QED BY <2>8, <3>1, <3>2 DEF refreshDone, contextDone, RateInv, HasKeys
  <2>9. CASE Rotate
    <3>1. JwksTypeOK' /\ FlightInv'
      BY <2>9 DEF Rotate, FlightInv
    <3>2. HasKeys' = HasKeys
      BY <2>9 DEF Rotate, FlightInv, HasKeys
    <3> QED BY <2>9, <3>1, <3>2 DEF Rotate, RateInv, Remote
  <2>10. CASE IntervalPasses
    <3>1. recent' \in BOOLEAN /\ ~recent'
      BY <2>10, Zenon DEF IntervalPasses
    <3> QED BY <2>10, <3>1 DEF IntervalPasses, FlightInv, RateInv
  <2>11. CASE UNCHANGED jwksVars
    BY <2>11 DEF jwksVars, FlightInv, RateInv, Remote, HasKeys
  <2> QED BY <2>2, <2>3, <2>4, <2>5, <2>6, <2>7, <2>8, <2>9, <2>10, <2>11
          DEF JwksNext, Refresh, KeysFromRemote
<1> QED BY <1>1, <1>2, PTL DEF JwksSpec

(* While the last fetch is recent and found a key, no more refreshes begin *)
(* than there are callers, although each decides on what it saw before it  *)
(* took the lock (VerifySignature), and although the service may publish   *)
(* key sets without a key in between.                                      *)
THEOREM RefreshesRateLimited == JwksSpec => []RefreshesBounded
  BY JwksInductive, PTL DEF JwksInv, RateInv, RefreshesBounded

(* The cached key set, with keys or without, is never replaced by an older *)
(* one, by a failed refresh or by one that is stored late, for any number  *)
(* of callers and of key rotations (keysFromRemote): refreshes do not      *)
(* overlap.                                                                *)
THEOREM CacheMonotonic == JwksSpec => CacheNeverRegresses
<1>1. JwksInv /\ [JwksNext]_jwksVars => [cachedKeys' >= cachedKeys]_jwksVars
  <2> SUFFICES ASSUME JwksInv, JwksNext PROVE cachedKeys' >= cachedKeys
    OBVIOUS
  <2>1. ASSUME NEW f \in FlightIDs, storeKeys(f) PROVE cachedKeys' >= cachedKeys
    BY <2>1 DEF storeKeys, JwksInv, JwksTypeOK, FlightInv
  <2>2. CASE UNCHANGED cachedKeys
    BY <2>2 DEF JwksInv, JwksTypeOK
  <2> QED BY <2>1, <2>2
          DEF JwksNext, Refresh, KeysFromRemote, VerifySignature, joinRefresh, startRefresh,
              updateKeys, closeDone, refreshDone, contextDone, Rotate, IntervalPasses
<1> QED BY <1>1, JwksInductive, PTL DEF JwksSpec, CacheNeverRegresses
==============================================================================
