------------------------ MODULE RakNetVersionsProofs -------------------------
(***************************************************************************)
(* A theorem about the version tracker of the RakNet listener: whatever    *)
(* the network does to the handshakes, however many addresses connect at a *)
(* time and in which order Accept takes them, it reports version 10 only   *)
(* where a v10 client was, and misses a v10 client only if the record had  *)
(* a reason to be gone.                                                    *)
(***************************************************************************)
EXTENDS RakNetVersions, TLAPS

AttemptRecords ==
  [pc : {"off", "opening", "answered", "pending", "left", "over"},
   addr : Addresses, version : Protocols]

(* The addresses that clients connect, or connected, from, each with the   *)
(* version of such a client.                                               *)
Clients ==
  {<<attempt[t].addr, attempt[t].version>> : t \in {u \in Attempts : attempt[u].pc # "off"}}

RakNetTypeOK ==
  /\ attempt \in [Attempts -> AttemptRecords]
  /\ versions \in [Addresses -> {"none", "recent", "old"}]

(* A datagram carries the address and the version of the attempt it is of. *)
WireInv ==
  \A d \in wire :
    /\ d.from \in Attempts /\ attempt[d.from].pc # "off"
    /\ d.addr = attempt[d.from].addr /\ d.version = attempt[d.from].version

(* A record was made for a v10 client of the address... *)
RecordInv == \A a \in Addresses : versions[a] # "none" => <<a, rakNetProtocolV10>> \in Clients

(* ...and a v10 client that RakNet has answered has one until it is        *)
(* accepted, unless it expired or was taken.                               *)
RecordedInv ==
  \A t \in Attempts :
    attempt[t].pc \in {"answered", "pending", "left"} /\ attempt[t].version = rakNetProtocolV10
      => versions[attempt[t].addr] # "none" \/ t \in excused

RakNetInv == RakNetTypeOK /\ WireInv /\ RecordInv /\ RecordedInv /\ VersionReported

(* An attempt that was made stays what it is. *)
LEMMA ClientsStay ==
  ASSUME RakNetTypeOK,
         \A t \in Attempts : attempt[t].pc # "off" =>
           /\ attempt'[t].pc # "off"
           /\ attempt'[t].addr = attempt[t].addr /\ attempt'[t].version = attempt[t].version
  PROVE  Clients \subseteq Clients'
BY DEF Clients

(* Accept reports version 10 only if a v10 client used the connection's    *)
(* address, whatever datagrams were lost or repeated; the connection of a  *)
(* v10 client is reported as current only if its record was 30 seconds old *)
(* when another handshake purged it or was taken by another connection of  *)
(* its address (ReadFrom, rakNetVersionTracker.take).                            *)
THEOREM VersionsReported == RakNetSpec => []VersionReported
<1> USE RakNetAssumption DEF rakNetProtocolV10, rakNetProtocolCurrent, Protocols, None
<1>1. RakNetInit => RakNetInv
  <2> SUFFICES ASSUME RakNetInit PROVE RakNetInv
    OBVIOUS
  <2>1. (CHOOSE a \in Addresses : TRUE) \in Addresses
    BY Zenon DEF RakNetAssumption
  <2> QED BY <2>1 DEF RakNetInit, RakNetInv, RakNetTypeOK, WireInv, RecordInv, RecordedInv,
                      VersionReported, AttemptRecords, NoAttempt
<1>2. RakNetInv /\ [RakNetNext]_rakNetVars => RakNetInv'
  <2> SUFFICES ASSUME RakNetInv, [RakNetNext]_rakNetVars PROVE RakNetInv'
    OBVIOUS
  <2>1. VersionReported <=> (reported.addr # None =>
           /\ reported.version = rakNetProtocolV10 =>
                <<reported.addr, rakNetProtocolV10>> \in Clients
           /\ reported.version = rakNetProtocolCurrent /\ reported.client = rakNetProtocolV10
                => reported.excused)
    BY DEF VersionReported, Clients
  <2>2. VersionReported' <=> (reported'.addr # None =>
           /\ reported'.version = rakNetProtocolV10 =>
                <<reported'.addr, rakNetProtocolV10>> \in Clients'
           /\ reported'.version = rakNetProtocolCurrent /\ reported'.client = rakNetProtocolV10
                => reported'.excused)
    BY DEF VersionReported, Clients
  <2> USE DEF RakNetInv, RakNetTypeOK, AttemptRecords, WireInv, RecordedInv
  <2>3. ASSUME NEW t \in Attempts, Open(t) PROVE RakNetInv'
    <3>1. PICK a \in Addresses, version \in Protocols :
            /\ attempt' = [attempt EXCEPT ![t] = [pc |-> "opening", addr |-> a, version |-> version]]
            /\ wire' = wire \cup {[from |-> t, addr |-> a, version |-> Write(version)]}
      BY <2>3 DEF Open
    <3>2. Clients \subseteq Clients'
      BY <2>3, <3>1, ClientsStay DEF Open
    <3>3. WireInv'
      BY <2>3, <3>1 DEF Open, Write
    <3> QED BY <2>3, <2>1, <2>2, <3>1, <3>2, <3>3 DEF Open, RecordInv
  <2>4. ASSUME NEW t \in Attempts, Established(t) PROVE RakNetInv'
    <3>1. Clients \subseteq Clients'
      BY <2>4, ClientsStay DEF Established
    <3> QED BY <2>4, <2>1, <2>2, <3>1 DEF Established, RecordInv
  <2>5. ASSUME NEW t \in Attempts, Leave(t) PROVE RakNetInv'
    <3>1. PICK next \in {"over", "left"} : attempt' = [attempt EXCEPT ![t].pc = next]
             /\ (next = "left" => attempt[t].pc = "pending") /\ attempt[t].pc # "off"
      BY <2>5 DEF Leave
    <3>2. Clients \subseteq Clients'
      BY <2>5, <3>1, ClientsStay
    <3> QED BY <2>5, <2>1, <2>2, <3>1, <3>2 DEF Leave, RecordInv
  <2>6. ASSUME NEW t \in Attempts, Accept(t) PROVE RakNetInv'
    <3>1. Clients \subseteq Clients'
      BY <2>6, ClientsStay DEF Accept
    <3>2. reported'.version = rakNetProtocolV10 => <<reported'.addr, rakNetProtocolV10>> \in Clients
      BY <2>6 DEF Accept, take, RecordInv
    <3>3. reported'.excused = (t \in excused)
      BY <2>6, Zenon DEF Accept
    <3>4. reported'.version = rakNetProtocolCurrent /\ reported'.client = rakNetProtocolV10
            => t \in excused
      BY <2>6 DEF Accept, take
    <3>5. VersionReported'
      <4>1. reported'.version = rakNetProtocolCurrent /\ reported'.client = rakNetProtocolV10
              => reported'.excused
        BY <3>3, <3>4, Zenon
      <4> QED BY <2>2, <3>1, <3>2, <4>1
    <3>6. RecordedInv'
      BY <2>6 DEF Accept, Waiting
    <3> QED BY <2>6, <3>1, <3>5, <3>6 DEF Accept, RecordInv
  <2>7. ASSUME NEW d \in wire, Lose(d) PROVE RakNetInv'
    <3>1. Clients \subseteq Clients'
      BY <2>7, ClientsStay DEF Lose
    <3> QED BY <2>7, <2>1, <2>2, <3>1 DEF Lose, RecordInv
  <2>8. ASSUME NEW d \in wire, ReadFrom(d) PROVE RakNetInv'
    <3>1. \A t \in Attempts : attempt[t].pc # "off" =>
             /\ attempt'[t].pc # "off"
             /\ attempt'[t].addr = attempt[t].addr /\ attempt'[t].version = attempt[t].version
      BY <2>8 DEF ReadFrom
    <3>2. Clients \subseteq Clients'
      BY <3>1, ClientsStay
    <3>3. attempt' \in [Attempts -> AttemptRecords] /\ WireInv'
      BY <2>8 DEF ReadFrom
    <3>4. VersionReported'
      BY <2>8, <2>1, <2>2, <3>2 DEF ReadFrom
    <3>5. CASE d.version = rakNetProtocolV10
      <4>1. RakNetTypeOK' /\ RecordInv'
        <5>1. <<d.addr, rakNetProtocolV10>> \in Clients
          BY <3>5 DEF Clients
        <5> QED BY <2>8, <3>2, <3>3, <3>5, <5>1 DEF ReadFrom, remember, RecordInv
      <4>2. RecordedInv'
        <5>1. purged \subseteq {a \in Addresses : versions[a] = "old"}
          BY DEF purged, Records
        <5>2. /\ \A a \in Addresses :
                   versions'[a] = IF a = d.addr THEN "recent"
                                  ELSE IF a \in purged THEN "none" ELSE versions[a]
              /\ excused' = excused \cup
                   UNION {Waiting(a) : a \in {a \in purged : versions[a] = "old"} \ {d.addr}}
          BY <2>8, <3>5 DEF ReadFrom, remember
        <5>3. \A a \in purged \ {d.addr} : Waiting(a) \subseteq excused'
          BY <5>1, <5>2
        <5>4. ASSUME NEW t \in Attempts,
                     attempt'[t].pc \in {"answered", "pending", "left"},
                     attempt'[t].version = rakNetProtocolV10
              PROVE  versions'[attempt'[t].addr] # "none" \/ t \in excused'
          <6>1. CASE attempt[t].addr = d.addr
            BY <2>8, <5>2, <5>4, <6>1 DEF ReadFrom
          <6>2. CASE attempt[t].addr # d.addr
            <7>1. attempt'[t] = attempt[t]
              BY <2>8, <6>2 DEF ReadFrom
            <7>2. t \in Waiting(attempt[t].addr)
              BY <5>4, <7>1 DEF Waiting
            <7> QED BY <5>2, <5>3, <5>4, <6>2, <7>1, <7>2
          <6> QED BY <6>1, <6>2
        <5> QED BY <5>4
      <4> QED BY <3>3, <3>4, <4>1, <4>2
    <3>6. CASE d.version # rakNetProtocolV10
      BY <2>8, <3>1, <3>2, <3>3, <3>4, <3>6 DEF ReadFrom, RecordInv
    <3> QED BY <3>5, <3>6
  <2>9. ASSUME NEW a \in Addresses, GrowOld(a) PROVE RakNetInv'
    <3>1. Clients \subseteq Clients'
      BY <2>9, ClientsStay DEF GrowOld
    <3> QED BY <2>9, <2>1, <2>2, <3>1 DEF GrowOld, RecordInv
  <2>10. CASE UNCHANGED rakNetVars
    <3>1. Clients \subseteq Clients'
      BY <2>10, ClientsStay DEF rakNetVars
    <3> QED BY <2>10, <2>1, <2>2, <3>1 DEF rakNetVars, RecordInv
  <2> QED BY <2>3, <2>4, <2>5, <2>6, <2>7, <2>8, <2>9, <2>10 DEF RakNetNext
<1> QED BY <1>1, <1>2, PTL DEF RakNetSpec, RakNetInv
==============================================================================
