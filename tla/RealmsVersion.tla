---------------------------- MODULE RealmsVersion ----------------------------
(***************************************************************************)
(* The Client-Version of the Realms client (realms/clientversion.go and    *)
(* requestWithMethod of realms/realms.go): concurrent requests, one of     *)
(* which searches for a version Realms accepts after it was rejected.      *)
(*                                                                         *)
(* A version is its patch number: the search only walks the patch down.    *)
(* The build revision some versions end in is left out.                    *)
(***************************************************************************)
EXTENDS Integers

CONSTANTS
  Requests,            \* goroutines that make requests
  MaxPatch,            \* bound: versions are 0 .. MaxPatch
  CurrentVersion,      \* protocol.CurrentVersion
  maxVersionFallback,  \* how far a search walks down (24 in the code)
  MaxUpsets            \* bound: outside events and failures of a run

ASSUME RealmsAssumption ==
  /\ MaxPatch \in Nat /\ maxVersionFallback \in Nat /\ MaxUpsets \in Nat
  /\ CurrentVersion \in 0 .. MaxPatch
  /\ "unlocked" \notin Requests

VARIABLES
  preferredVersion,  \* set by the caller of the Client, NoVersion for ""
  acceptedVersion,   \* found by a search
  cooling,           \* searchFailedAt is less than versionSearchCooldown ago
  negotiateMu,       \* the request that holds the lock
  request,           \* what each goroutine is doing
  supported,         \* external: the versions Realms accepts
  upsets             \* outside events and failures so far

realmsVars == <<preferredVersion, acceptedVersion, cooling, negotiateMu, request,
                supported, upsets>>

Versions == 0 .. MaxPatch
NoVersion == -1
Unlocked == "unlocked"
NoRequest == [pc |-> "idle", sent |-> NoVersion, next |-> NoVersion, low |-> NoVersion]

RealmsInit ==
  /\ preferredVersion = NoVersion /\ acceptedVersion = NoVersion
  /\ cooling = FALSE /\ negotiateMu = Unlocked
  /\ request = [r \in Requests |-> NoRequest]
  /\ supported \in SUBSET Versions
  /\ upsets = 0

(* SetClientVersion; "" is NoVersion, and a version that does not parse is ignored. *)
SetClientVersion ==
  /\ upsets < MaxUpsets /\ upsets' = upsets + 1
  /\ \E version \in Versions \cup {NoVersion} :
       /\ version # preferredVersion
       /\ preferredVersion' = version
  /\ acceptedVersion' = NoVersion
  /\ cooling' = FALSE
  /\ UNCHANGED <<negotiateMu, request, supported>>

Preferred == IF preferredVersion # NoVersion THEN preferredVersion ELSE CurrentVersion
clientVersion == IF acceptedVersion # NoVersion THEN acceptedVersion ELSE Preferred

(* Mutant: the loop ends one candidate early. *)
shortCandidates(version) ==
  LET low == version - maxVersionFallback IN IF low > 0 THEN low + 1 ELSE 1

(* versionCandidates(version) are version, version - 1, ..., its lowest. *)
versionCandidates(version) ==
  LET low == version - maxVersionFallback IN IF low > 0 THEN low ELSE 0

(* requestWithMethod reads the version, *)
requestWithMethod(r) ==
  /\ request[r].pc = "idle"
  /\ request' = [request EXCEPT ![r].pc = "send", ![r].sent = clientVersion]
  /\ UNCHANGED <<preferredVersion, acceptedVersion, cooling, negotiateMu, supported, upsets>>

(* and its request succeeds, fails, or is rejected for its version. *)
sendWithMethod(r) ==
  /\ request[r].pc = "send"
  /\ \/ /\ request[r].sent \in supported
        /\ request' = [request EXCEPT ![r] = NoRequest]
        /\ UNCHANGED upsets
     \/ /\ upsets < MaxUpsets /\ upsets' = upsets + 1
        /\ request' = [request EXCEPT ![r] = NoRequest]
     \/ /\ request[r].sent \notin supported
        /\ request' = [request EXCEPT ![r].pc = "rejected"]
        /\ UNCHANGED upsets
  /\ UNCHANGED <<preferredVersion, acceptedVersion, cooling, negotiateMu, supported>>

(* negotiateClientVersion: another request may have found a version while  *)
(* this one waited for the lock.                                           *)
negotiateClientVersion(r) ==
  /\ request[r].pc = "rejected" /\ negotiateMu = Unlocked
  /\ IF clientVersion # request[r].sent
     THEN /\ request' = [request EXCEPT ![r].pc = "retry"]
          /\ UNCHANGED negotiateMu
     ELSE /\ request' = [request EXCEPT ![r].pc = "locked"]
          /\ negotiateMu' = r
  /\ UNCHANGED <<preferredVersion, acceptedVersion, cooling, supported, upsets>>

(* Mutant: the cooldown is not looked at. *)
searchAnyway(r) ==
  /\ request[r].pc = "locked"
  /\ request' = [request EXCEPT ![r].pc = "search", ![r].next = Preferred,
                                ![r].low = versionCandidates(Preferred)]
  /\ UNCHANGED <<preferredVersion, acceptedVersion, cooling, negotiateMu, supported, upsets>>

(* It reads where to start, or gives up while a failed search is recent. *)
startSearch(r) ==
  /\ request[r].pc = "locked"
  /\ IF cooling
     THEN /\ request' = [request EXCEPT ![r] = NoRequest]
          /\ negotiateMu' = Unlocked
     ELSE /\ request' = [request EXCEPT ![r].pc = "search", ![r].next = Preferred,
                                        ![r].low = versionCandidates(Preferred)]
          /\ UNCHANGED negotiateMu
  /\ UNCHANGED <<preferredVersion, acceptedVersion, cooling, supported, upsets>>

(* versionCompatible, for every candidate but the rejected version. *)
versionCompatible(r) ==
  /\ request[r].pc = "search" /\ request[r].next >= request[r].low
  /\ \/ /\ request[r].next = request[r].sent \/ request[r].next \notin supported
        /\ request' = [request EXCEPT ![r].next = @ - 1]
        /\ UNCHANGED upsets
     \/ /\ request[r].next # request[r].sent /\ request[r].next \in supported
        /\ request' = [request EXCEPT ![r].pc = "found"]
        /\ UNCHANGED upsets
     \/ /\ request[r].next # request[r].sent
        /\ upsets < MaxUpsets /\ upsets' = upsets + 1
        /\ request' = [request EXCEPT ![r].pc = "failed"]
  /\ UNCHANGED <<preferredVersion, acceptedVersion, cooling, negotiateMu, supported>>

(* The accepted candidate is stored and the lock given up. *)
storeAccepted(r) ==
  /\ request[r].pc = "found"
  /\ acceptedVersion' = request[r].next /\ cooling' = FALSE
  /\ request' = [request EXCEPT ![r].pc = "retry"]
  /\ negotiateMu' = Unlocked
  /\ UNCHANGED <<preferredVersion, supported, upsets>>

(* Mutant: the early return of a failed check skips the deferred unlock. *)
failureKeepsLock(r) ==
  /\ request[r].pc = "failed" \/ (request[r].pc = "search" /\ request[r].next < request[r].low)
  /\ cooling' = TRUE
  /\ request' = [request EXCEPT ![r] = NoRequest]
  /\ negotiateMu' = IF request[r].pc = "failed" THEN negotiateMu ELSE Unlocked
  /\ UNCHANGED <<preferredVersion, acceptedVersion, supported, upsets>>

(* The candidates are exhausted, or the compatibility endpoint failed. *)
recordSearchFailure(r) ==
  /\ request[r].pc = "failed" \/ (request[r].pc = "search" /\ request[r].next < request[r].low)
  /\ cooling' = TRUE
  /\ request' = [request EXCEPT ![r] = NoRequest]
  /\ negotiateMu' = Unlocked
  /\ UNCHANGED <<preferredVersion, acceptedVersion, supported, upsets>>

(* The request is sent again, once. *)
retry(r) ==
  /\ request[r].pc = "retry"
  /\ request' = [request EXCEPT ![r] = NoRequest]
  /\ UNCHANGED <<preferredVersion, acceptedVersion, cooling, negotiateMu, supported, upsets>>

(* External: Realms accepts other versions, and time passes. *)
SupportChanges ==
  /\ upsets < MaxUpsets /\ upsets' = upsets + 1
  /\ supported' \in SUBSET Versions \ {supported}
  /\ UNCHANGED <<preferredVersion, acceptedVersion, cooling, negotiateMu, request>>

CooldownPasses ==
  /\ cooling /\ cooling' = FALSE
  /\ UNCHANGED <<preferredVersion, acceptedVersion, negotiateMu, request, supported, upsets>>

Negotiate(r) ==
  startSearch(r) \/ versionCompatible(r) \/ storeAccepted(r) \/ recordSearchFailure(r)

RealmsNext ==
  \/ \E r \in Requests :
       \/ requestWithMethod(r) \/ sendWithMethod(r) \/ retry(r)
       \/ negotiateClientVersion(r) \/ Negotiate(r)
  \/ SetClientVersion \/ SupportChanges \/ CooldownPasses

RealmsSpec == RealmsInit /\ [][RealmsNext]_realmsVars

(* HTTP requests end, the lock is given to everyone who waits for it, and  *)
(* the cooldown ends.  No caller has to make a request.                    *)
RealmsFairness ==
  /\ \A r \in Requests :
       /\ WF_realmsVars(sendWithMethod(r) \/ Negotiate(r) \/ retry(r))
       /\ SF_realmsVars(negotiateClientVersion(r))
  /\ WF_realmsVars(CooldownPasses)

------------------------------------------------------------------------------
(* Properties. *)

(* Requests that are rejected together search once: whoever gets the lock  *)
(* after a failed search gives up, so no compatibility check is sent while *)
(* the cooldown runs.                                                      *)
NoSearchWhileCooling == cooling => \A r \in Requests : request[r].pc # "search"

(* Every request returns, whatever the server answers to its checks. *)
RequestsReturn == \A r \in Requests : request[r].pc # "idle" ~> request[r].pc = "idle"

(* When the outside world has settled and requests go on, the client ends  *)
(* up with a version Realms accepts, if there is one in reach; whatever    *)
(* searches, changed preferences and failures went before.                 *)
Settled ==
  /\ upsets = MaxUpsets
  /\ \E v \in supported : v <= Preferred /\ v >= Preferred - maxVersionFallback
SettlesOnSupported ==
  []<>(\E r \in Requests : Settled /\ request[r].pc = "send") => <>[](clientVersion \in supported)
==============================================================================
