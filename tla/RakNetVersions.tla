--------------------------- MODULE RakNetVersions ----------------------------
(***************************************************************************)
(* The protocol versions of RakNet connections (raknet.go).  The listener  *)
(* underneath only knows the current version, so ReadFrom rewrites the     *)
(* version of a v10 handshake and remembers the address it came from;      *)
(* Accept takes the record to report the version of the connection.        *)
(*                                                                         *)
(* The network loses, repeats and delays the handshake datagrams, clients  *)
(* give up and come back, and addresses are used again.                    *)
(***************************************************************************)
EXTENDS Integers, FiniteSets

CONSTANTS
  MaxAttempts, \* bound: connection attempts
  Addresses,   \* remote addresses
  MaxRecords   \* records at which old ones are purged (1024 in the code)

ASSUME RakNetAssumption ==
  /\ IsFiniteSet(Addresses) /\ Addresses # {}
  /\ MaxAttempts \in Nat /\ MaxRecords \in Nat

rakNetProtocolV10 == 10
rakNetProtocolCurrent == 11
Protocols == {rakNetProtocolV10, rakNetProtocolCurrent}
None == 0
Attempts == 1 .. MaxAttempts  \* in the order they are made

VARIABLES
  attempt,   \* the client side and the RakNet side of each attempt
  wire,      \* OpenConnectionRequest1 datagrams that may still arrive
  versions,  \* the tracker: the age of each address's record, if it has one
  reported,  \* the connection accepted last: ProtocolVersion(), its client's version
  excused    \* history: waiting attempts whose record expired or was taken by another

rakNetVars == <<attempt, wire, versions, reported, excused>>

NoAttempt(a) == [pc |-> "off", addr |-> a, version |-> rakNetProtocolCurrent]

RakNetInit ==
  /\ attempt = [t \in Attempts |-> NoAttempt(CHOOSE a \in Addresses : TRUE)]
  /\ wire = {}
  /\ versions = [a \in Addresses |-> "none"]
  /\ reported = [addr |-> None, version |-> None, client |-> None, excused |-> FALSE]
  /\ excused = {}

(* rakNetV10DialConn.Write: the datagram of a v10 dialer carries version 10. *)
Write(version) ==
  IF version = rakNetProtocolV10 THEN rakNetProtocolV10 ELSE rakNetProtocolCurrent

(* External: a client opens a connection from an address nobody uses now. *)
Open(t) ==
  /\ attempt[t].pc = "off" /\ \A earlier \in 1 .. t - 1 : attempt[earlier].pc # "off"
  /\ \E a \in Addresses, version \in Protocols :
       /\ \A other \in Attempts :
            attempt[other].addr = a => attempt[other].pc \in {"off", "left", "over"}
       /\ attempt' = [attempt EXCEPT ![t] = [pc |-> "opening", addr |-> a, version |-> version]]
       /\ wire' = wire \cup {[from |-> t, addr |-> a, version |-> Write(version)]}
  /\ UNCHANGED <<versions, reported, excused>>

(* External: a datagram arrives any number of times until it is lost. *)
Lose(d) ==
  /\ wire' = wire \ {d}
  /\ UNCHANGED <<attempt, versions, reported, excused>>

Records == {a \in Addresses : versions[a] # "none"}

(* Mutant: at the limit every record is dropped. *)
purgeAll == IF Cardinality(Records) >= MaxRecords THEN Records ELSE {}

(* The records remember deletes when there are many: those 30 seconds old. *)
purged ==
  IF Cardinality(Records) >= MaxRecords THEN {a \in Records : versions[a] = "old"} ELSE {}

(* Connections whose record is lost with that of their address. *)
Waiting(a) == {t \in Attempts : attempt[t].addr = a /\ attempt[t].pc \in {"answered", "pending", "left"}}

remember(addr) ==
  /\ versions' = [a \in Addresses |->
       IF a = addr THEN "recent" ELSE IF a \in purged THEN "none" ELSE versions[a]]
  /\ excused' = excused \cup UNION {Waiting(a) : a \in {a \in purged : versions[a] = "old"} \ {addr}}

(* ReadFrom: the tracker sees the version before RakNet does, and RakNet   *)
(* answers.                                                                *)
ReadFrom(d) ==
  /\ attempt' = IF attempt[d.from].pc = "opening"
                THEN [attempt EXCEPT ![d.from].pc = "answered"] ELSE attempt
  /\ IF d.version = rakNetProtocolV10 THEN remember(d.addr) ELSE UNCHANGED <<versions, excused>>
  /\ UNCHANGED <<wire, reported>>

(* External: RakNet's handshake ends and the connection waits for Accept; *)
(* the client may leave at any time, also while its connection waits.     *)
Established(t) ==
  /\ attempt[t].pc = "answered"
  /\ attempt' = [attempt EXCEPT ![t].pc = "pending"]
  /\ UNCHANGED <<wire, versions, reported, excused>>

Leave(t) ==
  /\ \/ attempt[t].pc \in {"opening", "answered"} /\ attempt' = [attempt EXCEPT ![t].pc = "over"]
     \/ attempt[t].pc = "pending" /\ attempt' = [attempt EXCEPT ![t].pc = "left"]
  /\ excused' = {other \in excused : attempt'[other].pc # "over"}
  /\ UNCHANGED <<wire, versions, reported>>

take(addr) == IF versions[addr] # "none" THEN rakNetProtocolV10 ELSE rakNetProtocolCurrent

Accept(t) ==
  /\ attempt[t].pc \in {"pending", "left"}
  /\ attempt' = [attempt EXCEPT ![t].pc = "over"]
  /\ reported' = [addr |-> attempt[t].addr, version |-> take(attempt[t].addr),
                  client |-> attempt[t].version, excused |-> t \in excused]
  /\ versions' = [versions EXCEPT ![attempt[t].addr] = "none"]
  /\ excused' = (excused \cup Waiting(attempt[t].addr)) \ {t}
  /\ UNCHANGED wire

(* Thirty seconds pass. *)
GrowOld(a) ==
  /\ versions[a] = "recent"
  /\ versions' = [versions EXCEPT ![a] = "old"]
  /\ UNCHANGED <<attempt, wire, reported, excused>>

RakNetNext ==
  \/ \E t \in Attempts : Open(t) \/ Established(t) \/ Leave(t) \/ Accept(t)
  \/ \E d \in wire : ReadFrom(d) \/ Lose(d)
  \/ \E a \in Addresses : GrowOld(a)

RakNetSpec == RakNetInit /\ [][RakNetNext]_rakNetVars

------------------------------------------------------------------------------
(* Properties. *)

(* Whatever datagrams are lost or repeated and whatever other addresses    *)
(* do, a connection is reported as v10 only if a v10 client used its       *)
(* address, and the connection of a v10 client as current only if its      *)
(* record was 30 seconds old when it was purged, or was taken by another   *)
(* connection of its address that was accepted after its handshake.        *)
VersionReported ==
  reported.addr # None =>
    /\ reported.version = rakNetProtocolV10 =>
         \E t \in Attempts :
           /\ attempt[t].pc # "off"
           /\ attempt[t].addr = reported.addr /\ attempt[t].version = rakNetProtocolV10
    /\ reported.version = rakNetProtocolCurrent /\ reported.client = rakNetProtocolV10 =>
         reported.excused
==============================================================================
