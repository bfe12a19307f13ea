-------------------------- MODULE ConnReceiveProofs --------------------------
(***************************************************************************)
(* Theorems about the receiving half of a Conn, for every number of        *)
(* packets, batches, deadlines and channel slots.                          *)
(***************************************************************************)
EXTENDS ConnReceive, SequenceTheorems, TLAPS

ReaderCall == [pc : ReaderPCs, op : ReadOps, on : Channels, pk : packetData]

(* The helpers of the model have the types their names promise. *)
LEMMA HelperTypes ==
  /\ NoPacket \in packetData
  /\ 0 \in Channels
  /\ Idle \in ReaderCall
  /\ Idle.pc = "idle"
  /\ \A pk \in packetData : ensureOwned(pk) \in packetData /\ ensureOwned(pk).owned
<1>1. NoPacket \in packetData
  BY DEF NoPacket, packetData, Kinds
<1>2. 0 \in Channels
  BY ConstantsAssumption DEF Channels
<1>3. Idle \in ReaderCall /\ Idle.pc = "idle"
  BY <1>1, <1>2 DEF Idle, ReaderCall, ReaderPCs, ReadOps
<1>4. \A pk \in packetData : ensureOwned(pk) \in packetData /\ ensureOwned(pk).owned
  BY DEF ensureOwned, packetData
<1> QED BY <1>1, <1>2, <1>3, <1>4

(* Converting a packet gives a sequence of packets that carry its number.  *)
LEMMA ConvertedType ==
  ASSUME NEW pk \in packetData, NEW n \in Nat \ {0}, pool \in Nat
  PROVE  /\ Converted(pk, n) \in Seq(Returned)
         /\ Len(Converted(pk, n)) = n
         /\ Head(Converted(pk, n)) \in Returned
         /\ Tail(Converted(pk, n)) \in Seq(Returned)
         /\ Len(Tail(Converted(pk, n))) = n - 1
         /\ \A k \in 1..n : /\ Converted(pk, n)[k].bytes = Bytes(pk)
                            /\ Converted(pk, n)[k].id = pk.id
                            /\ Converted(pk, n)[k].k = k
                            /\ Converted(pk, n)[k].op = "ReadPacket"
<1>1. Bytes(pk) \in Nat /\ pk.id \in Nat
  BY DEF Bytes, packetData
<1>2. Converted(pk, n) \in Seq(Returned) /\ Len(Converted(pk, n)) = n
  BY <1>1 DEF Converted, Returned, ReadOps
<1>3. Converted(pk, n) # <<>>
  BY <1>2
<1>4. \A k \in 1..n : /\ Converted(pk, n)[k].bytes = Bytes(pk)
                      /\ Converted(pk, n)[k].id = pk.id
                      /\ Converted(pk, n)[k].k = k
                      /\ Converted(pk, n)[k].op = "ReadPacket"
  BY DEF Converted
<1>5. Head(Converted(pk, n)) = Converted(pk, n)[1]
  BY <1>2, <1>3
<1>6. /\ Tail(Converted(pk, n)) \in Seq(Returned)
      /\ Len(Tail(Converted(pk, n))) = n - 1
  BY <1>2, <1>3, HeadTailProperties
<1>7. Head(Converted(pk, n)) \in Returned
  BY <1>2, <1>3, HeadTailProperties
<1> QED BY <1>2, <1>4, <1>6, <1>7

(* What a blocked ReadPacket managed to send fits the channel exactly.     *)
LEMMA FilledType ==
  ASSUME NEW pks \in Seq(Returned), NEW room \in Nat, Len(pks) > room
  PROVE  /\ SubSeq(pks, 2, 1 + room) \in Seq(Returned)
         /\ Len(SubSeq(pks, 2, 1 + room)) = room
         /\ \A i \in 1..room : i + 1 \in 1..Len(pks) /\ SubSeq(pks, 2, 1 + room)[i] = pks[i + 1]
<1>1. \A i \in 2..1 + room : i \in 1..Len(pks) /\ pks[i] \in Returned
  OBVIOUS
<1> QED BY <1>1

(* No step takes a variable out of its type. *)
LEMMA TypeNext ==
  ASSUME TypeOK, [Next]_vars
  PROVE  TypeOK'
<1> USE DEF TypeOK
<1>1. CASE DecodeFunc
  <2> PICK n \in 1..MaxBatch : \E kinds \in [1..n -> Kinds] :
          /\ arrived' = arrived + n
          /\ batch' = [i \in 1..n |-> [id |-> arrived + i, kind |-> kinds[i],
                                       gen |-> pool, owned |-> FALSE]]
    BY <1>1 DEF DecodeFunc
  <2>1. PICK kinds \in [1..n -> Kinds] :
          /\ arrived' = arrived + n
          /\ batch' = [i \in 1..n |-> [id |-> arrived + i, kind |-> kinds[i],
                                       gen |-> pool, owned |-> FALSE]]
    OBVIOUS
  <2>2. n \in Nat /\ arrived' \in Nat
    BY <2>1, ConstantsAssumption
  <2>3. batch' \in Seq(packetData)
    BY <2>1, <2>2 DEF packetData
  <2> QED BY <1>1, <2>2, <2>3 DEF DecodeFunc, readerVars
<1>2. CASE ReleaseBatch
  BY <1>2 DEF ReleaseBatch, readerVars
<1>3. CASE DecodeFails
  BY <1>3 DEF DecodeFails, readerVars
<1>4. CASE ReceiveFails
  BY <1>4 DEF ReceiveFails, readerVars
<1>5. CASE ReceiveDisconnect
  BY <1>5 DEF ReceiveDisconnect, readerVars
<1>6. CASE ReceiveHandled
  BY <1>6 DEF ReceiveHandled, readerVars
<1>7. CASE deferPacket
  <2>1. Head(batch) \in packetData /\ Tail(batch) \in Seq(packetData)
    BY <1>7, HeadTailProperties DEF deferPacket
  <2>2. ensureOwned(Head(batch)) \in packetData
    BY <2>1, HelperTypes
  <2>3. deferredPackets' \in Seq(packetData)
    BY <1>7, <2>2, AppendProperties DEF deferPacket
  <2> QED BY <1>7, <2>1, <2>3 DEF deferPacket, readerVars
<1>8. CASE signalReady
  BY <1>8 DEF signalReady, readerVars
<1>9. CASE StartGame
  BY <1>9 DEF StartGame, receiverVars, readerVars
<1>10. CASE Close
  BY <1>10 DEF Close, receiverVars, readerVars
<1>11. CASE SetReadDeadline
  <2>1. readDeadline + 1 \in Channels
    BY <1>11, ConstantsAssumption DEF SetReadDeadline, Channels
  <2> QED BY <1>11, <2>1 DEF SetReadDeadline, receiverVars
<1>12. ASSUME NEW c \in Channels, DeadlineFires(c) PROVE TypeOK'
  BY <1>12 DEF DeadlineFires, receiverVars
<1>13. ASSUME NEW r \in Readers, ReadAdditional(r) PROVE TypeOK'
  <2>1. additional # <<>>
    BY <1>13 DEF ReadAdditional, HasAdditional
  <2>2. /\ Head(additional) \in Returned
        /\ Tail(additional) \in Seq(Returned)
        /\ Len(Tail(additional)) = Len(additional) - 1
    BY <2>1, HeadTailProperties
  <2>3. delivered' \in Seq(Returned)
    BY <1>13, <2>2, AppendProperties DEF ReadAdditional
  <2> QED BY <1>13, <2>2, <2>3, ConstantsAssumption DEF ReadAdditional, receiverVars
<1>14. ASSUME NEW r \in Readers, BeginRead(r) PROVE TypeOK'
  <2>1. PICK op \in Ops : reader' = [reader EXCEPT ![r] = [Idle EXCEPT !.pc = "take", !.op = op]]
    BY <1>14 DEF BeginRead
  <2>2. [Idle EXCEPT !.pc = "take", !.op = op] \in ReaderCall
    BY HelperTypes, ConstantsAssumption DEF ReaderCall, ReaderPCs, ReadOps
  <2> QED BY <1>14, <2>1, <2>2 DEF BeginRead, receiverVars, ReaderCall
<1>15. ASSUME NEW r \in Readers, CallStep(r) PROVE TypeOK'
  <2> reader[r] \in ReaderCall
    BY DEF ReaderCall
  <2>1. CASE takeDeferredPacket(r)
    <3>1. Head(deferredPackets) \in packetData /\ Tail(deferredPackets) \in Seq(packetData)
      BY <2>1, HeadTailProperties DEF takeDeferredPacket
    <3> QED BY <2>1, <3>1 DEF takeDeferredPacket, receiverVars, ReaderCall, ReaderPCs
  <2>2. CASE takeNothing(r)
    BY <2>2 DEF takeNothing, receiverVars, ReaderPCs
  <2>3. CASE enterSelect(r)
    BY <2>3, ZenonT(60) DEF enterSelect, receiverVars, ReaderPCs
  <2>4. CASE selectClosed(r)
    BY <2>4, HelperTypes DEF selectClosed, receiverVars, ReaderCall
  <2>5. CASE selectDeadline(r)
    BY <2>5, HelperTypes DEF selectDeadline, receiverVars, ReaderCall
  <2>6. CASE selectReady(r)
    BY <2>6 DEF selectReady, receiverVars, ReaderPCs
  <2>7. CASE returnBytes(r)
    <3>1. [op |-> "Read", id |-> reader[r].pk.id, bytes |-> Bytes(reader[r].pk), k |-> 1] \in Returned
      BY DEF Returned, ReadOps, Bytes, ReaderCall, packetData
    <3>2. delivered' \in Seq(Returned)
      BY <2>7, <3>1, AppendProperties DEF returnBytes
    <3>3. returned' \in Seq(Nat)
      BY <2>7, AppendProperties DEF returnBytes, ReaderCall, packetData
    <3> QED BY <2>7, <3>2, <3>3, HelperTypes DEF returnBytes, receiverVars, ReaderCall
  <2>8. CASE bufferTooSmall(r)
    BY <2>8, HelperTypes DEF bufferTooSmall, receiverVars, ReaderCall
  <2>9. CASE decodeNothing(r)
    BY <2>9, HelperTypes DEF decodeNothing, receiverVars, ReaderCall, ReaderPCs
  <2>10. CASE returnPacket(r)
    <3> DEFINE pks(n) == Converted(reader[r].pk, n)
    <3>1. PICK n \in 1..MaxConverted :
            /\ Len(additional) + n - 1 <= AdditionalCap
            /\ additional' = additional \o Tail(pks(n))
            /\ delivered' = Append(delivered, Head(pks(n)))
      BY <2>10 DEF returnPacket
    <3>2. n \in Nat \ {0} /\ reader[r].pk \in packetData
      BY ConstantsAssumption DEF ReaderCall
    <3>3. /\ Head(pks(n)) \in Returned
          /\ Tail(pks(n)) \in Seq(Returned)
          /\ Len(Tail(pks(n))) = n - 1
      BY <3>2, ConvertedType
    <3> HIDE DEF pks
    <3>4. delivered' \in Seq(Returned)
      BY <3>1, <3>3, AppendProperties
    <3>5. additional' \in Seq(Returned) /\ Len(additional') = Len(additional) + (n - 1)
      <4>1. additional \in Seq(Returned)
        OBVIOUS
      <4> HIDE DEF TypeOK
      <4> QED BY <3>1, <3>3, <4>1, ConcatProperties
    <3>6. Len(additional') <= AdditionalCap
      BY <3>1, <3>2, <3>5
    <3>7. returned' \in Seq(Nat)
      BY <2>10, <3>2, AppendProperties DEF returnPacket, packetData
    <3>8. reader' \in [Readers -> ReaderCall]
      BY <2>10, HelperTypes DEF returnPacket, ReaderCall
    <3>9. UNCHANGED <<receiverVars, handling, closed, deferredPackets, packetReady, deadlines,
                      readDeadline>>
      BY <2>10 DEF returnPacket
    <3> QED BY <3>4, <3>5, <3>6, <3>7, <3>8, <3>9 DEF receiverVars, ReaderCall
  <2>11. CASE blockOnAdditional(r)
    <3> DEFINE pks(n) == Converted(reader[r].pk, n)
               room == AdditionalCap - Len(additional)
    <3>1. PICK n \in 1..MaxConverted :
            /\ Len(additional) + n - 1 > AdditionalCap
            /\ additional' = additional \o SubSeq(pks(n), 2, 1 + AdditionalCap - Len(additional))
      BY <2>11 DEF blockOnAdditional
    <3>2. n \in Nat \ {0} /\ reader[r].pk \in packetData /\ room \in Nat
      BY ConstantsAssumption DEF ReaderCall
    <3>3. pks(n) \in Seq(Returned) /\ Len(pks(n)) = n
      BY <3>2, ConvertedType
    <3>4. n > room /\ 1 + AdditionalCap - Len(additional) = 1 + room
      BY <3>1, <3>2, ConstantsAssumption
    <3> HIDE DEF pks, room
    <3>5. /\ SubSeq(pks(n), 2, 1 + room) \in Seq(Returned)
          /\ Len(SubSeq(pks(n), 2, 1 + room)) = room
      BY <3>2, <3>3, <3>4, FilledType
    <3>6. additional' \in Seq(Returned) /\ Len(additional') = Len(additional) + room
      BY <3>1, <3>4, <3>5, ConcatProperties
    <3>7. Len(additional') <= AdditionalCap
      BY <3>6, ConstantsAssumption DEF room
    <3> QED BY <2>11, <3>6, <3>7 DEF blockOnAdditional, receiverVars, ReaderPCs
  <2> QED BY <1>15, <2>1, <2>2, <2>3, <2>4, <2>5, <2>6, <2>7, <2>8, <2>9, <2>10, <2>11
          DEF CallStep
<1>16. CASE UNCHANGED vars
  BY <1>16 DEF vars
<1> QED BY <1>1, <1>2, <1>3, <1>4, <1>5, <1>6, <1>7, <1>8, <1>9, <1>10, <1>11, <1>12,
           <1>13, <1>14, <1>15, <1>16 DEF Next, ReceiveStep

(* Spec => []TypeOK: every variable of the receive path keeps its type,    *)
(* the additional channel its capacity included, whatever the transport,   *)
(* the application and the timers do.                                      *)
THEOREM TypeCorrect == Spec => []TypeOK
<1>1. Init => TypeOK
  <2> SUFFICES ASSUME Init PROVE TypeOK
    OBVIOUS
  <2>1. reader \in [Readers -> ReaderCall] /\ readDeadline \in Channels
    BY HelperTypes DEF Init
  <2>2. /\ batch \in Seq(packetData) /\ deferredPackets \in Seq(packetData)
        /\ additional \in Seq(Returned) /\ delivered \in Seq(Returned)
        /\ Len(additional) <= AdditionalCap
    BY ConstantsAssumption DEF Init
  <2> QED BY <2>1, <2>2, SMTT(40) DEF Init, TypeOK, ReaderCall
<1>2. TypeOK /\ [Next]_vars => TypeOK'
  BY TypeNext
<1> QED BY <1>1, <1>2, PTL DEF Spec

------------------------------------------------------------------------------
(* Read and ReadPacket are called from one goroutine at a time. *)
SingleReader == \A r, s \in Readers : r = s

(* The inductive form of NoLostWakeup: the reader has looked at the queue  *)
(* and is on its way into the select, or in it.                            *)
WakeupPending ==
  \A r \in Readers :
    reader[r].pc \in {"enter", "select"} /\ deferredPackets # <<>>
      => packetReady \/ receiver = "signal"

(* With one reader the one-slot channel loses no wake-up: whenever it is   *)
(* parked on a non-empty queue, the value that wakes it is in packetReady  *)
(* or about to be sent by deferPacket, for any number of packets.          *)
THEOREM WakeupNotLost == SingleReader => (Spec => []NoLostWakeup)
<1> SUFFICES ASSUME SingleReader PROVE Spec => []NoLostWakeup
  OBVIOUS
<1>1. Init => WakeupPending
  BY DEF Init, WakeupPending
<1>2. TypeOK /\ WakeupPending /\ [Next]_vars => WakeupPending'
  <2> SUFFICES ASSUME TypeOK, WakeupPending, [Next]_vars,
                      NEW q \in Readers,
                      reader'[q].pc \in {"enter", "select"}, deferredPackets' # <<>>
               PROVE  packetReady' \/ receiver' = "signal"
    BY DEF WakeupPending
  <2> reader \in [Readers -> ReaderCall]
    BY DEF TypeOK, ReaderCall
  <2>1. CASE DecodeFunc \/ ReleaseBatch \/ DecodeFails \/ ReceiveFails
             \/ ReceiveDisconnect \/ ReceiveHandled
    <3>1. UNCHANGED <<reader, deferredPackets, packetReady>> /\ receiver # "signal"
      BY <2>1 DEF DecodeFunc, ReleaseBatch, DecodeFails, ReceiveFails, ReceiveDisconnect,
                  ReceiveHandled, readerVars
    <3> QED BY <3>1 DEF WakeupPending
  <2>2. CASE deferPacket
    BY <2>2 DEF deferPacket
  <2>3. CASE signalReady
    BY <2>3 DEF signalReady
  <2>4. CASE StartGame \/ Close \/ SetReadDeadline \/ \E c \in Channels : DeadlineFires(c)
    <3>1. UNCHANGED <<reader, deferredPackets, packetReady, receiver>>
      BY <2>4 DEF StartGame, Close, SetReadDeadline, DeadlineFires, readerVars, receiverVars
    <3> QED BY <3>1 DEF WakeupPending
  <2>5. ASSUME NEW r \in Readers, ReadAdditional(r)
        PROVE packetReady' \/ receiver' = "signal"
    BY <2>5 DEF ReadAdditional, receiverVars, WakeupPending
  <2>6. ASSUME NEW r \in Readers, BeginRead(r)
        PROVE packetReady' \/ receiver' = "signal"
    <3>1. q = r
      BY DEF SingleReader
    <3>2. PICK op \in Ops : reader' = [reader EXCEPT ![r] = [Idle EXCEPT !.pc = "take", !.op = op]]
      BY <2>6 DEF BeginRead
    <3>3. reader'[r].pc = "take"
      BY <3>2 DEF Idle
    <3> QED BY <3>1, <3>3
  <2>7. ASSUME NEW r \in Readers, CallStep(r)
        PROVE packetReady' \/ receiver' = "signal"
    <3> q = r
      BY DEF SingleReader
    <3> reader[r] \in ReaderCall
      OBVIOUS
    <3>1. CASE takeDeferredPacket(r) \/ selectReady(r) \/ decodeNothing(r) \/ blockOnAdditional(r)
      <4>1. reader'[r].pc \notin {"enter", "select"}
        BY <3>1, ZenonT(60) DEF takeDeferredPacket, selectReady, decodeNothing, blockOnAdditional, ReaderCall
      <4> QED BY <4>1
    <3>2. CASE selectClosed(r) \/ selectDeadline(r) \/ returnBytes(r) \/ bufferTooSmall(r)
               \/ returnPacket(r)
      <4>1. reader'[r] = Idle
        BY <3>2 DEF selectClosed, selectDeadline, returnBytes, bufferTooSmall, returnPacket
      <4> QED BY <4>1 DEF Idle
    <3>3. CASE takeNothing(r)
      BY <3>3 DEF takeNothing
    <3>4. CASE enterSelect(r)
      BY <3>4 DEF enterSelect, WakeupPending, receiverVars
    <3> QED BY <2>7, <3>1, <3>2, <3>3, <3>4 DEF CallStep
  <2>8. CASE UNCHANGED vars
    BY <2>8 DEF vars, WakeupPending
  <2> QED BY <2>1, <2>2, <2>3, <2>4, <2>5, <2>6, <2>7, <2>8 DEF Next, ReceiveStep
<1>3. WakeupPending => NoLostWakeup
  BY DEF WakeupPending, NoLostWakeup
<1> QED BY <1>1, <1>2, <1>3, TypeCorrect, PTL DEF Spec

------------------------------------------------------------------------------
(* The inductive form of PayloadIntact: everything past deferPacket owns   *)
(* its bytes, and what was converted or returned carries the right ones.   *)
Owned ==
  /\ \A i \in DOMAIN deferredPackets : deferredPackets[i].owned
  /\ \A r \in Readers : reader[r].pk.owned
  /\ \A i \in DOMAIN additional : additional[i].bytes = additional[i].id
  /\ \A i \in DOMAIN delivered : delivered[i].bytes = delivered[i].id

(* No packet that is queued for, or returned to, the application shows     *)
(* bytes of a later batch: the pooled buffer may be reused at any time,    *)
(* because deferPacket copies what it retains (ensureOwned).  Any number   *)
(* of readers.                                                             *)
THEOREM PayloadNeverRecycled == Spec => []PayloadIntact
<1>1. Init => Owned
  BY DEF Init, Owned, Idle, NoPacket
<1>2. TypeOK /\ Owned /\ [Next]_vars => Owned'
  <2> SUFFICES ASSUME TypeOK, Owned, [Next]_vars PROVE Owned'
    OBVIOUS
  <2> reader \in [Readers -> ReaderCall]
    BY DEF TypeOK, ReaderCall
  <2> Idle.pk.owned
    BY DEF Idle, NoPacket
  <2>1. ASSUME UNCHANGED <<deferredPackets, additional, delivered, reader>> PROVE Owned'
    BY <2>1 DEF Owned
  <2>2. CASE deferPacket
    <3>1. Head(batch) \in packetData
      BY <2>2, HeadTailProperties DEF deferPacket, TypeOK
    <3>2. ensureOwned(Head(batch)) \in packetData /\ ensureOwned(Head(batch)).owned
      BY <3>1, HelperTypes
    <3>3. \A i \in DOMAIN deferredPackets' : deferredPackets'[i].owned
      BY <2>2, <3>2 DEF deferPacket, TypeOK, Owned
    <3> QED BY <2>2, <3>3 DEF deferPacket, Owned, readerVars
  <2>3. ASSUME NEW r \in Readers, ReadAdditional(r) PROVE Owned'
    <3>1. additional # <<>>
      BY <2>3 DEF ReadAdditional, HasAdditional
    <3>2. Head(additional) \in Returned /\ Head(additional).bytes = Head(additional).id
      BY <3>1, HeadTailProperties DEF Owned, TypeOK
    <3>3. \A i \in DOMAIN additional' : additional'[i].bytes = additional'[i].id
      BY <2>3, <3>1 DEF ReadAdditional, Owned, TypeOK
    <3>4. \A i \in DOMAIN delivered' : delivered'[i].bytes = delivered'[i].id
      BY <2>3, <3>2 DEF ReadAdditional, Owned, TypeOK
    <3> QED BY <2>3, <3>3, <3>4 DEF ReadAdditional, Owned
  <2>4. ASSUME NEW r \in Readers, BeginRead(r) PROVE Owned'
    <3>1. PICK op \in Ops : reader' = [reader EXCEPT ![r] = [Idle EXCEPT !.pc = "take", !.op = op]]
      BY <2>4 DEF BeginRead
    <3>2. [Idle EXCEPT !.pc = "take", !.op = op].pk.owned
      BY DEF Idle, NoPacket
    <3>3. \A s \in Readers : reader'[s].pk.owned
      BY <3>1, <3>2 DEF Owned
    <3> QED BY <2>4, <3>3 DEF BeginRead, Owned
  <2>5. ASSUME NEW r \in Readers, CallStep(r) PROVE Owned'
    <3> reader[r] \in ReaderCall /\ reader[r].pk \in packetData
      BY DEF ReaderCall
    <3> pool \in Nat
      BY DEF TypeOK
    <3>0. Bytes(reader[r].pk) = reader[r].pk.id
      BY DEF Owned, Bytes
    <3>1. CASE takeDeferredPacket(r)
      <4>1. Head(deferredPackets) = deferredPackets[1] /\ 1 \in DOMAIN deferredPackets
        BY <3>1 DEF takeDeferredPacket, TypeOK
      <4>2. \A s \in Readers : reader'[s].pk.owned
        BY <3>1, <4>1 DEF takeDeferredPacket, Owned, ReaderCall
      <4>3. \A i \in DOMAIN deferredPackets' : deferredPackets'[i].owned
        BY <3>1 DEF takeDeferredPacket, Owned, TypeOK
      <4> QED BY <3>1, <4>2, <4>3 DEF takeDeferredPacket, Owned
    <3>2. CASE takeNothing(r) \/ enterSelect(r) \/ selectReady(r)
      <4>1. \A s \in Readers : reader'[s].pk = reader[s].pk
        BY <3>2 DEF takeNothing, enterSelect, selectReady, ReaderCall
      <4> QED BY <3>2, <4>1 DEF takeNothing, enterSelect, selectReady, Owned
    <3>3. CASE selectClosed(r) \/ selectDeadline(r) \/ bufferTooSmall(r)
      <4>1. \A s \in Readers : reader'[s].pk.owned
        BY <3>3 DEF selectClosed, selectDeadline, bufferTooSmall, Owned
      <4> QED BY <3>3, <4>1 DEF selectClosed, selectDeadline, bufferTooSmall, Owned
    <3>4. CASE returnBytes(r)
      <4>1. \A s \in Readers : reader'[s].pk.owned
        BY <3>4 DEF returnBytes, Owned
      <4>2. \A i \in DOMAIN delivered' : delivered'[i].bytes = delivered'[i].id
        BY <3>4, <3>0 DEF returnBytes, Owned, TypeOK
      <4> QED BY <3>4, <4>1, <4>2 DEF returnBytes, Owned
    <3>5. CASE decodeNothing(r)
      <4>1. \A s \in Readers : reader'[s].pk.owned
        BY <3>5 DEF decodeNothing, Owned, NoPacket, ReaderCall
      <4> QED BY <3>5, <4>1 DEF decodeNothing, Owned
    <3>6. CASE returnPacket(r)
      <4> DEFINE pks(n) == Converted(reader[r].pk, n)
      <4>1. PICK n \in 1..MaxConverted :
              /\ additional' = additional \o Tail(pks(n))
              /\ delivered' = Append(delivered, Head(pks(n)))
        BY <3>6 DEF returnPacket
      <4>2. n \in Nat \ {0}
        BY ConstantsAssumption
      <4> HIDE DEF pks
      <4>3. /\ pks(n) \in Seq(Returned) /\ Len(pks(n)) = n
            /\ Head(pks(n)) \in Returned
            /\ Tail(pks(n)) \in Seq(Returned) /\ Len(Tail(pks(n))) = n - 1
            /\ \A k \in 1..n : pks(n)[k].bytes = pks(n)[k].id
        BY <4>2, <3>0, ConvertedType DEF pks
      <4>4. Head(pks(n)).bytes = Head(pks(n)).id
        BY <4>2, <4>3
      <4>5. \A i \in DOMAIN delivered' : delivered'[i].bytes = delivered'[i].id
        <5>1. /\ delivered \in Seq(Returned)
              /\ \A i \in DOMAIN delivered : delivered[i].bytes = delivered[i].id
          BY DEF Owned, TypeOK
        <5> QED BY <4>1, <4>3, <4>4, <5>1, AppendProperties
      <4>6. \A i \in DOMAIN Tail(pks(n)) : Tail(pks(n))[i].bytes = Tail(pks(n))[i].id
        BY <4>2, <4>3
      <4>7. \A i \in DOMAIN additional' : additional'[i].bytes = additional'[i].id
        BY <4>1, <4>3, <4>6 DEF Owned, TypeOK
      <4>8. \A s \in Readers : reader'[s].pk.owned
        BY <3>6 DEF returnPacket, Owned
      <4> QED BY <3>6, <4>5, <4>7, <4>8 DEF returnPacket, Owned
    <3>7. CASE blockOnAdditional(r)
      <4> DEFINE pks(n) == Converted(reader[r].pk, n)
                 room == AdditionalCap - Len(additional)
                 sent(n) == SubSeq(pks(n), 2, 1 + room)
      <4>1. PICK n \in 1..MaxConverted :
              /\ Len(additional) + n - 1 > AdditionalCap
              /\ additional' = additional \o SubSeq(pks(n), 2, 1 + AdditionalCap - Len(additional))
        BY <3>7 DEF blockOnAdditional
      <4>2. n \in Nat \ {0} /\ room \in Nat /\ n > room
        BY <4>1, ConstantsAssumption DEF TypeOK
      <4>3. additional' = additional \o sent(n)
        BY <4>1, ConstantsAssumption DEF TypeOK
      <4>4. /\ pks(n) \in Seq(Returned) /\ Len(pks(n)) = n
            /\ \A k \in 1..n : pks(n)[k].bytes = pks(n)[k].id
        BY <4>2, <3>0, ConvertedType
      <4> HIDE DEF pks, room
      <4>5. /\ sent(n) \in Seq(Returned) /\ Len(sent(n)) = room
            /\ \A i \in 1..room : sent(n)[i].bytes = sent(n)[i].id
        BY <4>2, <4>4, FilledType
      <4> HIDE DEF sent
      <4>6. \A i \in DOMAIN additional' : additional'[i].bytes = additional'[i].id
        BY <4>2, <4>3, <4>5 DEF Owned, TypeOK
      <4>7. \A s \in Readers : reader'[s].pk = reader[s].pk
        BY <3>7 DEF blockOnAdditional, ReaderCall
      <4> QED BY <3>7, <4>6, <4>7 DEF blockOnAdditional, Owned
    <3> QED BY <2>5, <3>1, <3>2, <3>3, <3>4, <3>5, <3>6, <3>7 DEF CallStep
  <2>6. CASE DecodeFunc \/ ReleaseBatch \/ DecodeFails \/ ReceiveFails
             \/ ReceiveDisconnect \/ ReceiveHandled \/ signalReady
    BY <2>1, <2>6 DEF DecodeFunc, ReleaseBatch, DecodeFails, ReceiveFails, ReceiveDisconnect,
                      ReceiveHandled, signalReady, readerVars
  <2>7. CASE StartGame \/ Close \/ SetReadDeadline \/ \E c \in Channels : DeadlineFires(c)
    BY <2>1, <2>7 DEF StartGame, Close, SetReadDeadline, DeadlineFires, readerVars, receiverVars
  <2>8. CASE UNCHANGED vars
    BY <2>1, <2>8 DEF vars
  <2> QED BY <2>2, <2>3, <2>4, <2>5, <2>6, <2>7, <2>8 DEF Next, ReceiveStep
<1>3. TypeOK /\ Owned => PayloadIntact
  BY DEF Owned, PayloadIntact, Bytes
<1> QED BY <1>1, <1>2, <1>3, TypeCorrect, PTL DEF Spec
------------------------------------------------------------------------------
(* Packet n, of a that arrived, came before all of queue q and batch b. *)
Ahead(n, a, q, b) ==
  /\ n <= a
  /\ \A i \in DOMAIN q : n < q[i].id
  /\ \A i \in DOMAIN b : n < b[i].id

(* It came before all that wait for the application, now or after a step. *)
Past(n) == Ahead(n, arrived, deferredPackets, batch)
PastNext(n) == Ahead(n, arrived', deferredPackets', batch')

(* The queue and the batch behind it are in the order of arrival. *)
Sorted ==
  /\ \A i \in DOMAIN batch :
       batch[i].id <= arrived /\ \A j \in DOMAIN batch : i < j => batch[i].id < batch[j].id
  /\ \A i \in DOMAIN deferredPackets :
       /\ deferredPackets[i].id <= arrived
       /\ \A j \in DOMAIN deferredPackets : i < j => deferredPackets[i].id < deferredPackets[j].id
       /\ \A j \in DOMAIN batch : deferredPackets[i].id < batch[j].id

Before(d, e) == d.id < e.id \/ (d.id = e.id /\ d.k < e.k)

(* One goroutine is in ReadPacket, and as long as it has not returned to   *)
(* its caller additional is empty, or what it blocks on.                   *)
OneReadPacket ==
  \A r \in Readers : InReadPacket(r) =>
    /\ \A s \in Readers : InReadPacket(s) => r = s
    /\ IF reader[r].pc = "blocked"
       THEN \A i \in DOMAIN additional : additional[i].id = reader[r].pk.id
       ELSE additional = <<>>

(* What ReadPacket returned comes before what is left over and before what *)
(* it holds, and all of it before what waits.                              *)
Conversions ==
  /\ \A i \in DOMAIN delivered : delivered[i].op = "ReadPacket" =>
       /\ Past(delivered[i].id)
       /\ \A j \in DOMAIN additional : Before(delivered[i], additional[j])
       /\ \A r \in Readers : InReadPacket(r) /\ reader[r].pc = "decode" =>
            delivered[i].id < reader[r].pk.id
  /\ \A i \in DOMAIN additional :
       /\ additional[i].op = "ReadPacket" /\ Past(additional[i].id)
       /\ \A j \in DOMAIN additional : i < j => Before(additional[i], additional[j])
  /\ \A r \in Readers : InReadPacket(r) /\ reader[r].pc = "decode" => Past(reader[r].pk.id)

BlockedInReadPacket == \A r \in Readers : reader[r].pc = "blocked" => reader[r].op = "ReadPacket"

OrderInv == Sorted /\ OneReadPacket /\ BlockedInReadPacket /\ Conversions /\ ReadPacketInOrder

(* The receiving goroutine moves packets from the batch to the queue and a *)
(* reader takes them from there: both stay sorted, and what was past stays *)
(* past.                                                                   *)
LEMMA SortedStep ==
  ASSUME TypeOK, Sorted, [Next]_vars
  PROVE  Sorted' /\ \A n \in Nat : Past(n) => PastNext(n)
<1> USE DEF TypeOK, Sorted, Past, PastNext, Ahead
<1>1. ASSUME UNCHANGED <<arrived, batch, deferredPackets>>
      PROVE  Sorted' /\ \A n \in Nat : Past(n) => PastNext(n)
  BY <1>1
<1>2. CASE DecodeFunc
  <2>1. PICK n \in 1..MaxBatch : \E kinds \in [1..n -> Kinds] :
          /\ arrived' = arrived + n
          /\ batch' = [i \in 1..n |-> [id |-> arrived + i, kind |-> kinds[i],
                                       gen |-> pool, owned |-> FALSE]]
    BY <1>2 DEF DecodeFunc
  <2>2. n \in Nat
    BY ConstantsAssumption
  <2>3. /\ arrived' = arrived + n /\ DOMAIN batch' = 1..n
        /\ \A i \in 1..n : batch'[i].id = arrived + i
    BY <2>1
  <2>4. deferredPackets' = deferredPackets
    BY <1>2 DEF DecodeFunc
  <2>5. \A i \in DOMAIN deferredPackets : deferredPackets[i] \in packetData
    OBVIOUS
  <2>6. \A i \in DOMAIN deferredPackets : deferredPackets[i].id \in Nat
    BY <2>5 DEF packetData
  <2> QED BY <2>2, <2>3, <2>4, <2>6, SMTT(40)
<1>3. CASE ReceiveFails
  BY <1>3 DEF ReceiveFails
<1>4. CASE ReceiveDisconnect \/ ReceiveHandled
  <2>1. batch # <<>> /\ batch' = Tail(batch) /\ UNCHANGED <<arrived, deferredPackets>>
    BY <1>4 DEF ReceiveDisconnect, ReceiveHandled
  <2>2. \A i \in DOMAIN batch' : i + 1 \in DOMAIN batch /\ batch'[i] = batch[i + 1]
    BY <2>1
  <2> QED BY <2>1, <2>2
<1>5. CASE deferPacket
  <2>1. batch # <<>> /\ batch' = Tail(batch) /\ arrived' = arrived
        /\ deferredPackets' = Append(deferredPackets, ensureOwned(Head(batch)))
    BY <1>5 DEF deferPacket
  <2>2. 1 \in DOMAIN batch /\ batch[1] \in packetData /\ ensureOwned(Head(batch)).id = batch[1].id
    <3>1. 1 \in DOMAIN batch /\ Head(batch) = batch[1] /\ batch[1] \in packetData
      BY <2>1
    <3>2. ensureOwned(batch[1]).id = batch[1].id
      BY <3>1 DEF ensureOwned, packetData
    <3> QED BY <3>1, <3>2, Zenon
  <2>3. ensureOwned(Head(batch)) \in packetData
    BY <2>1, HelperTypes, HeadTailProperties
  <2>4. \A i \in DOMAIN batch' : i + 1 \in DOMAIN batch /\ i + 1 > 1 /\ batch'[i] = batch[i + 1]
    BY <2>1
  <2>5. /\ DOMAIN deferredPackets' = 1..Len(deferredPackets) + 1
        /\ \A i \in 1..Len(deferredPackets) : deferredPackets'[i] = deferredPackets[i]
        /\ deferredPackets'[Len(deferredPackets) + 1].id = batch[1].id
    BY <2>1, <2>2, <2>3, AppendProperties
  <2>6. DOMAIN deferredPackets = 1..Len(deferredPackets) /\ Len(deferredPackets) \in Nat
    OBVIOUS
  <2> QED BY <2>1, <2>2, <2>4, <2>5, <2>6, SMTT(40)
<1>6. ASSUME NEW r \in Readers, takeDeferredPacket(r)
      PROVE  Sorted' /\ \A n \in Nat : Past(n) => PastNext(n)
  <2>1. deferredPackets # <<>> /\ deferredPackets' = Tail(deferredPackets)
        /\ UNCHANGED <<arrived, batch>>
    BY <1>6 DEF takeDeferredPacket, receiverVars
  <2>2. \A i \in DOMAIN deferredPackets' :
          i + 1 \in DOMAIN deferredPackets /\ deferredPackets'[i] = deferredPackets[i + 1]
    BY <2>1
  <2> QED BY <2>1, <2>2
<1>7. CASE ReleaseBatch \/ DecodeFails \/ signalReady \/ StartGame \/ Close \/ SetReadDeadline
           \/ (\E c \in Channels : DeadlineFires(c))
  BY <1>1, <1>7 DEF ReleaseBatch, DecodeFails, signalReady, StartGame, Close, SetReadDeadline,
                    DeadlineFires, receiverVars
<1>8. ASSUME NEW r \in Readers,
             \/ ReadAdditional(r) \/ BeginRead(r) \/ takeNothing(r) \/ enterSelect(r)
             \/ selectClosed(r) \/ selectDeadline(r) \/ selectReady(r) \/ returnBytes(r)
             \/ bufferTooSmall(r) \/ decodeNothing(r) \/ returnPacket(r) \/ blockOnAdditional(r)
      PROVE  Sorted' /\ \A n \in Nat : Past(n) => PastNext(n)
  BY <1>1, <1>8 DEF ReadAdditional, BeginRead, takeNothing, enterSelect, selectClosed,
       selectDeadline, selectReady, returnBytes, bufferTooSmall, decodeNothing, returnPacket,
       blockOnAdditional, receiverVars
<1>9. CASE UNCHANGED vars
  BY <1>1, <1>9 DEF vars
<1> QED BY <1>2, <1>3, <1>4, <1>5, <1>6, <1>7, <1>8, <1>9 DEF Next, ReceiveStep, CallStep

(* A step of a call changes that call only, and keeps its method until it  *)
(* returns.                                                                *)
LEMMA CallFrame ==
  ASSUME TypeOK, NEW r \in Readers, CallStep(r)
  PROVE  /\ \A s \in Readers : s # r => reader'[s] = reader[s]
         /\ reader[r].pc \notin {"idle", "blocked"}
         /\ reader'[r].pc = "idle" \/ reader'[r].op = reader[r].op
         /\ reader'[r].pc = "blocked" => blockOnAdditional(r)
         /\ reader'[r].pc = "decode" => takeDeferredPacket(r)
         /\ additional' = additional \/ returnPacket(r) \/ blockOnAdditional(r)
         /\ delivered' = delivered \/ returnBytes(r) \/ returnPacket(r)
<1> reader \in [Readers -> ReaderCall] /\ reader[r] \in ReaderCall
  BY DEF TypeOK, ReaderCall
<1>1. CASE takeDeferredPacket(r)
  BY <1>1 DEF takeDeferredPacket, ReaderCall
<1>2. CASE takeNothing(r) \/ enterSelect(r) \/ selectReady(r) \/ decodeNothing(r)
  BY <1>2, ZenonT(60) DEF takeNothing, enterSelect, selectReady, decodeNothing, ReaderCall
<1>3. CASE selectClosed(r) \/ selectDeadline(r) \/ bufferTooSmall(r)
  BY <1>3, HelperTypes DEF selectClosed, selectDeadline, bufferTooSmall
<1>4. CASE returnBytes(r) \/ returnPacket(r)
  BY <1>4, HelperTypes DEF returnBytes, returnPacket
<1>5. CASE blockOnAdditional(r)
  BY <1>5 DEF blockOnAdditional, ReaderCall
<1> QED BY <1>1, <1>2, <1>3, <1>4, <1>5 DEF CallStep

(* Every action but the steps of calls leaves reader, additional and       *)
(* delivered alone.                                                        *)
LEMMA OtherFrame ==
  ASSUME [Next]_vars
  PROVE  \/ UNCHANGED <<reader, additional, delivered, returned>>
         \/ \E r \in Readers : ReadAdditional(r) \/ BeginRead(r) \/ CallStep(r)
<1>1. CASE ReceiveStep
  BY <1>1 DEF ReceiveStep, DecodeFunc, ReleaseBatch, DecodeFails, ReceiveFails,
              ReceiveDisconnect, ReceiveHandled, deferPacket, signalReady, readerVars
<1>2. CASE StartGame \/ Close \/ SetReadDeadline \/ \E c \in Channels : DeadlineFires(c)
  BY <1>2 DEF StartGame, Close, SetReadDeadline, DeadlineFires, readerVars
<1>3. CASE UNCHANGED vars
  BY <1>3 DEF vars
<1> QED BY <1>1, <1>2, <1>3 DEF Next

(* A ReadPacket that blocks has an empty channel to fill, and fills it     *)
(* with conversions of the packet it holds.                                *)
LEMMA BlockFills ==
  ASSUME TypeOK, NEW r \in Readers, blockOnAdditional(r), additional = <<>>
  PROVE  \A i \in DOMAIN additional' :
           /\ additional'[i].op = "ReadPacket"
           /\ additional'[i].id = reader[r].pk.id
           /\ additional'[i].k = i + 1
<1> DEFINE pks(n) == Converted(reader[r].pk, n)
<1>1. PICK n \in 1..MaxConverted :
        /\ Len(additional) + n - 1 > AdditionalCap
        /\ additional' = additional \o SubSeq(pks(n), 2, 1 + AdditionalCap - Len(additional))
  BY DEF blockOnAdditional
<1>2. n \in Nat \ {0} /\ reader[r].pk \in packetData /\ pool \in Nat
  BY ConstantsAssumption DEF TypeOK
<1>3. /\ pks(n) \in Seq(Returned) /\ Len(pks(n)) = n
      /\ \A k \in 1..n : /\ pks(n)[k].id = reader[r].pk.id /\ pks(n)[k].k = k
                         /\ pks(n)[k].op = "ReadPacket"
  BY <1>2, ConvertedType
<1>4. AdditionalCap \in Nat /\ n > AdditionalCap /\ Len(additional) = 0
  BY <1>1, <1>2, ConstantsAssumption
<1> HIDE DEF pks
<1>5. /\ SubSeq(pks(n), 2, 1 + AdditionalCap) \in Seq(Returned)
      /\ Len(SubSeq(pks(n), 2, 1 + AdditionalCap)) = AdditionalCap
      /\ \A i \in 1..AdditionalCap : i + 1 \in 1..n
           /\ SubSeq(pks(n), 2, 1 + AdditionalCap)[i] = pks(n)[i + 1]
  BY <1>3, <1>4, FilledType
<1>6. additional' = SubSeq(pks(n), 2, 1 + AdditionalCap)
  BY <1>1, <1>4, <1>5
<1> QED BY <1>3, <1>4, <1>5, <1>6

(* A ReadPacket that returns with an empty channel leaves the conversions  *)
(* after the first there.                                                  *)
LEMMA ReturnLeaves ==
  ASSUME TypeOK, NEW r \in Readers, returnPacket(r), additional = <<>>
  PROVE  /\ \A i \in DOMAIN additional' :
              /\ additional'[i].op = "ReadPacket"
              /\ additional'[i].id = reader[r].pk.id
              /\ additional'[i].k = i + 1
         /\ \E h \in Returned : /\ delivered' = Append(delivered, h)
                                /\ h.op = "ReadPacket" /\ h.id = reader[r].pk.id /\ h.k = 1
<1> DEFINE pks(n) == Converted(reader[r].pk, n)
<1>1. PICK n \in 1..MaxConverted :
        /\ additional' = additional \o Tail(pks(n))
        /\ delivered' = Append(delivered, Head(pks(n)))
  BY DEF returnPacket
<1>2. n \in Nat \ {0} /\ reader[r].pk \in packetData /\ pool \in Nat
  BY ConstantsAssumption DEF TypeOK
<1>3. /\ pks(n) \in Seq(Returned) /\ Len(pks(n)) = n
      /\ Head(pks(n)) \in Returned
      /\ Tail(pks(n)) \in Seq(Returned) /\ Len(Tail(pks(n))) = n - 1
      /\ \A k \in 1..n : /\ pks(n)[k].id = reader[r].pk.id /\ pks(n)[k].k = k
                         /\ pks(n)[k].op = "ReadPacket"
  BY <1>2, ConvertedType
<1> HIDE DEF pks
<1>4. additional' = Tail(pks(n))
  BY <1>1, <1>3
<1>5. DOMAIN Tail(pks(n)) = 1..n - 1 /\ \A i \in 1..n - 1 : Tail(pks(n))[i] = pks(n)[i + 1]
  BY <1>2, <1>3
<1>6. \A i \in 1..n - 1 : i + 1 \in 1..n
  BY <1>2
<1>7. Head(pks(n)) = pks(n)[1] /\ 1 \in 1..n
  BY <1>2, <1>3
<1>8. \A i \in DOMAIN additional' :
        /\ additional'[i].op = "ReadPacket"
        /\ additional'[i].id = reader[r].pk.id
        /\ additional'[i].k = i + 1
  BY <1>3, <1>4, <1>5, <1>6
<1> QED BY <1>1, <1>3, <1>7, <1>8

(* OneReadPacket and BlockedInReadPacket are inductive. *)
LEMMA OneReadPacketStep ==
  ASSUME TypeOK, OneReadPacket, BlockedInReadPacket, [Next]_vars
  PROVE  OneReadPacket' /\ BlockedInReadPacket'
<1> reader \in [Readers -> ReaderCall]
  BY DEF TypeOK, ReaderCall
<1>1. CASE UNCHANGED <<reader, additional, delivered, returned>>
  BY <1>1 DEF OneReadPacket, BlockedInReadPacket, InReadPacket
<1>2. ASSUME NEW r \in Readers, ReadAdditional(r)
      PROVE  OneReadPacket' /\ BlockedInReadPacket'
  <2>1. reader' = reader /\ \A s \in Readers : ~InReadPacket(s)
    BY <1>2 DEF ReadAdditional, MayCall, HasAdditional
  <2> QED BY <2>1 DEF OneReadPacket, BlockedInReadPacket, InReadPacket
<1>3. ASSUME NEW r \in Readers, BeginRead(r)
      PROVE  OneReadPacket' /\ BlockedInReadPacket'
  <2>1. PICK op \in Ops :
          /\ MayCall(r, op) /\ ~HasAdditional(op)
          /\ reader' = [reader EXCEPT ![r] = [Idle EXCEPT !.pc = "take", !.op = op]]
    BY <1>3 DEF BeginRead
  <2>2. /\ reader'[r].pc = "take" /\ reader'[r].op = op
        /\ \A s \in Readers : s # r => reader'[s] = reader[s]
        /\ additional' = additional
    BY <1>3, <2>1 DEF Idle, BeginRead
  <2>3. BlockedInReadPacket'
    BY <2>2 DEF BlockedInReadPacket
  <2>4. CASE op = "ReadPacket"
    <3>1. additional = <<>> /\ \A s \in Readers : ~InReadPacket(s)
      BY <2>1, <2>4 DEF MayCall, HasAdditional
    <3> QED BY <2>2, <2>3, <3>1 DEF OneReadPacket, InReadPacket
  <2>5. CASE op # "ReadPacket"
    BY <2>2, <2>3, <2>5 DEF OneReadPacket, InReadPacket
  <2> QED BY <2>4, <2>5
<1>4. ASSUME NEW r \in Readers, CallStep(r)
      PROVE  OneReadPacket' /\ BlockedInReadPacket'
  <2>1. /\ \A s \in Readers : s # r => reader'[s] = reader[s]
        /\ reader[r].pc \notin {"idle", "blocked"}
        /\ reader'[r].pc = "idle" \/ reader'[r].op = reader[r].op
        /\ reader'[r].pc = "blocked" => blockOnAdditional(r)
        /\ additional' = additional \/ returnPacket(r) \/ blockOnAdditional(r)
    BY <1>4, CallFrame
  <2>2. BlockedInReadPacket'
    BY <2>1 DEF BlockedInReadPacket, blockOnAdditional
  <2>3. CASE reader[r].op # "ReadPacket"
    <3>1. additional' = additional /\ ~InReadPacket(r)'
      BY <2>1, <2>3 DEF returnPacket, blockOnAdditional, InReadPacket
    <3> QED BY <2>1, <2>2, <3>1 DEF OneReadPacket, InReadPacket
  <2>4. CASE reader[r].op = "ReadPacket"
    <3>1. additional = <<>> /\ \A s \in Readers : s # r => ~InReadPacket(s)
      BY <2>1, <2>4 DEF OneReadPacket, InReadPacket
    <3>2. \A s \in Readers : s # r => ~InReadPacket(s)'
      BY <2>1, <3>1 DEF InReadPacket
    <3>3. CASE returnPacket(r)
      <4>1. reader'[r].pc = "idle"
        BY <3>3, HelperTypes DEF returnPacket
      <4> QED BY <2>2, <3>2, <4>1 DEF OneReadPacket, InReadPacket
    <3>4. CASE blockOnAdditional(r)
      <4>1. reader'[r].pc = "blocked" /\ reader'[r].pk = reader[r].pk
        BY <3>4 DEF blockOnAdditional, ReaderCall
      <4>2. \A i \in DOMAIN additional' : additional'[i].id = reader'[r].pk.id
        BY <3>1, <3>4, <4>1, BlockFills
      <4> QED BY <2>2, <3>2, <4>1, <4>2 DEF OneReadPacket, InReadPacket
    <3>5. CASE additional' = additional /\ ~blockOnAdditional(r)
      BY <2>1, <2>2, <3>1, <3>2, <3>5 DEF OneReadPacket, InReadPacket
    <3> QED BY <2>1, <3>3, <3>4, <3>5
  <2> QED BY <2>3, <2>4
<1> QED BY <1>1, <1>2, <1>3, <1>4, OtherFrame

(* What takeDeferredPacket takes was the oldest packet: everything else    *)
(* that waits came after it.                                               *)
LEMMA TakenIsPast ==
  ASSUME TypeOK, Sorted, NEW r \in Readers, takeDeferredPacket(r)
  PROVE  /\ reader'[r].pk = deferredPackets[1] /\ 1 \in DOMAIN deferredPackets
         /\ reader'[r].pc = "decode" /\ reader'[r].op = reader[r].op
         /\ PastNext(deferredPackets[1].id)
<1>1. /\ deferredPackets # <<>> /\ deferredPackets' = Tail(deferredPackets)
      /\ UNCHANGED <<arrived, batch>>
      /\ reader' = [reader EXCEPT ![r].pc = "decode", ![r].pk = Head(deferredPackets)]
  BY DEF takeDeferredPacket, receiverVars
<1>2. deferredPackets \in Seq(packetData) /\ reader \in [Readers -> ReaderCall]
  BY DEF TypeOK, ReaderCall
<1>3. Head(deferredPackets) = deferredPackets[1] /\ 1 \in DOMAIN deferredPackets
  BY <1>1, <1>2
<1>4. \A i \in DOMAIN deferredPackets' :
        /\ i + 1 \in DOMAIN deferredPackets /\ 1 < i + 1
        /\ deferredPackets'[i] = deferredPackets[i + 1]
  BY <1>1, <1>2
<1>5. PastNext(deferredPackets[1].id)
  BY <1>1, <1>3, <1>4 DEF Sorted, PastNext, Ahead
<1>6. /\ reader'[r].pk = Head(deferredPackets)
      /\ reader'[r].pc = "decode" /\ reader'[r].op = reader[r].op
  BY <1>1, <1>2 DEF ReaderCall
<1> QED BY <1>3, <1>5, <1>6

(* Conversions and ReadPacketInOrder are inductive. *)
LEMMA ConversionsStep ==
  ASSUME TypeOK, OrderInv, [Next]_vars
  PROVE  Conversions' /\ ReadPacketInOrder'
<1> reader \in [Readers -> ReaderCall]
  BY DEF TypeOK, ReaderCall
<1>1. /\ delivered \in Seq(Returned) /\ additional \in Seq(Returned)
      /\ \A i \in DOMAIN delivered : delivered[i].id \in Nat /\ delivered[i].k \in Nat
      /\ \A i \in DOMAIN additional : additional[i].id \in Nat /\ additional[i].k \in Nat
  <2>1. delivered \in Seq(Returned) /\ additional \in Seq(Returned)
    BY DEF TypeOK
  <2>2. /\ \A i \in DOMAIN delivered : delivered[i] \in Returned
        /\ \A i \in DOMAIN additional : additional[i] \in Returned
    BY <2>1
  <2> QED BY <2>1, <2>2 DEF Returned
<1>2. \A r \in Readers : reader[r].pk.id \in Nat
  BY DEF ReaderCall, packetData
<1>3. \A n \in Nat : Past(n) => PastNext(n)
  BY SortedStep DEF OrderInv
<1> DEFINE Holds(r) == InReadPacket(r) /\ reader[r].pc = "decode"
<1>4. ASSUME delivered' = delivered, additional' = additional,
             \A r \in Readers : Holds(r)' => reader'[r] = reader[r]
      PROVE  Conversions' /\ ReadPacketInOrder'
  <2>1. \A r \in Readers : Holds(r)' => Holds(r) /\ reader'[r].pk = reader[r].pk
    BY <1>4 DEF InReadPacket
  <2>2. ReadPacketInOrder'
    BY <1>4 DEF OrderInv, ReadPacketInOrder
  <2>3. Conversions'
    BY <1>1, <1>2, <1>3, <1>4, <2>1 DEF OrderInv, Conversions, Before, Past, PastNext
  <2> QED BY <2>2, <2>3
<1>5. ASSUME NEW r \in Readers, ReadAdditional(r)
      PROVE  Conversions' /\ ReadPacketInOrder'
  <2>1. /\ reader' = reader /\ \A s \in Readers : ~InReadPacket(s)
        /\ additional # <<>> /\ additional' = Tail(additional)
        /\ delivered' = Append(delivered, Head(additional))
    BY <1>5 DEF ReadAdditional, MayCall, HasAdditional
  <2>2. /\ \A s \in Readers : ~InReadPacket(s)'
    BY <2>1 DEF InReadPacket
  <2>3. Head(additional) = additional[1] /\ 1 \in DOMAIN additional
    BY <1>1, <2>1
  <2>4. \A i \in DOMAIN additional' : /\ i \in Nat /\ i + 1 \in DOMAIN additional /\ 1 < i + 1
                                      /\ additional'[i] = additional[i + 1]
    BY <1>1, <2>1
  <2>5. /\ DOMAIN delivered' = 1..Len(delivered) + 1
        /\ \A i \in 1..Len(delivered) : i \in DOMAIN delivered /\ delivered'[i] = delivered[i]
        /\ delivered'[Len(delivered) + 1] = additional[1]
        /\ Len(delivered) \in Nat
    BY <1>1, <2>1, <2>3
  <2>6. \A i \in DOMAIN delivered' :
          \/ i \in DOMAIN delivered /\ delivered'[i] = delivered[i]
          \/ i = Len(delivered) + 1 /\ delivered'[i] = additional[1]
    BY <2>5
  <2>7. \A i \in DOMAIN delivered' : delivered'[i].op = "ReadPacket" =>
          /\ PastNext(delivered'[i].id)
          /\ \A j \in DOMAIN additional' : Before(delivered'[i], additional'[j])
    <3> SUFFICES ASSUME NEW i \in DOMAIN delivered', delivered'[i].op = "ReadPacket"
                 PROVE  /\ PastNext(delivered'[i].id)
                        /\ \A j \in DOMAIN additional' : Before(delivered'[i], additional'[j])
      OBVIOUS
    <3>1. CASE i \in DOMAIN delivered /\ delivered'[i] = delivered[i]
      BY <1>1, <1>3, <2>4, <3>1 DEF OrderInv, Conversions
    <3>2. CASE delivered'[i] = additional[1]
      BY <1>1, <1>3, <2>3, <2>4, <3>2 DEF OrderInv, Conversions
    <3> QED BY <2>6, <3>1, <3>2
  <2>8. \A i \in DOMAIN additional' :
          /\ additional'[i].op = "ReadPacket" /\ PastNext(additional'[i].id)
          /\ \A j \in DOMAIN additional' : i < j => Before(additional'[i], additional'[j])
    BY <1>1, <1>3, <2>4 DEF OrderInv, Conversions
  <2>9. Conversions'
    BY <2>2, <2>7, <2>8 DEF Conversions, Before, Past, PastNext
  <2>10. ReadPacketInOrder'
    BY <2>3, <2>5, <2>6 DEF OrderInv, Conversions, ReadPacketInOrder, Before
  <2> QED BY <2>9, <2>10
<1>6. ASSUME NEW r \in Readers, BeginRead(r)
      PROVE  Conversions' /\ ReadPacketInOrder'
  <2>1. PICK op \in Ops : reader' = [reader EXCEPT ![r] = [Idle EXCEPT !.pc = "take", !.op = op]]
    BY <1>6 DEF BeginRead
  <2>2. /\ reader'[r].pc = "take" /\ \A s \in Readers : s # r => reader'[s] = reader[s]
        /\ additional' = additional /\ delivered' = delivered
    BY <1>6, <2>1 DEF Idle, BeginRead
  <2> QED BY <1>4, <2>2
<1>7. ASSUME NEW r \in Readers, CallStep(r)
      PROVE  Conversions' /\ ReadPacketInOrder'
  <2>1. /\ \A s \in Readers : s # r => reader'[s] = reader[s]
        /\ reader[r].pc \notin {"idle", "blocked"}
        /\ reader'[r].pc = "idle" \/ reader'[r].op = reader[r].op
        /\ reader'[r].pc = "decode" => takeDeferredPacket(r)
        /\ additional' = additional \/ returnPacket(r) \/ blockOnAdditional(r)
        /\ delivered' = delivered \/ returnBytes(r) \/ returnPacket(r)
    BY <1>7, CallFrame
  <2>2. reader[r].op = "ReadPacket" =>
          additional = <<>> /\ \A s \in Readers : s # r => ~InReadPacket(s)
    BY <2>1 DEF OrderInv, OneReadPacket, InReadPacket
  <2>3. CASE takeDeferredPacket(r)
    <3>1. /\ reader'[r].pk = deferredPackets[1] /\ 1 \in DOMAIN deferredPackets
          /\ PastNext(deferredPackets[1].id)
      BY <2>3, TakenIsPast DEF OrderInv
    <3>2. delivered' = delivered /\ additional' = additional
      BY <2>3 DEF takeDeferredPacket
    <3>3. \A s \in Readers : s # r => (Holds(s)' <=> Holds(s)) /\ reader'[s].pk = reader[s].pk
      BY <2>1 DEF InReadPacket
    <3>4. \A s \in Readers : Holds(s)' => PastNext(reader'[s].pk.id)
      BY <1>2, <1>3, <3>1, <3>3 DEF OrderInv, Conversions
    <3>5. \A i \in DOMAIN delivered : delivered[i].op = "ReadPacket" =>
            \A s \in Readers : Holds(s)' => delivered[i].id < reader'[s].pk.id
      BY <3>1, <3>3 DEF OrderInv, Conversions, Past, Ahead
    <3>6. Conversions'
      BY <1>1, <1>3, <3>2, <3>4, <3>5 DEF OrderInv, Conversions, Before, Past, PastNext
    <3> QED BY <3>2, <3>6 DEF OrderInv, ReadPacketInOrder
  <2>4. CASE returnBytes(r)
    <3>1. /\ reader'[r].pc = "idle" /\ additional' = additional
          /\ delivered' = Append(delivered, [op |-> "Read", id |-> reader[r].pk.id,
                                             bytes |-> Bytes(reader[r].pk), k |-> 1])
      BY <2>4, HelperTypes DEF returnBytes
    <3>2. \A s \in Readers : Holds(s)' => Holds(s) /\ reader'[s].pk = reader[s].pk
      BY <2>1, <3>1 DEF InReadPacket
    <3>3. \A i \in DOMAIN delivered' : delivered'[i].op = "ReadPacket" =>
            i \in DOMAIN delivered /\ delivered'[i] = delivered[i]
      BY <1>1, <3>1
    <3>4. Conversions'
      <4>1. \A i \in DOMAIN delivered' : delivered'[i].op = "ReadPacket" =>
              /\ PastNext(delivered'[i].id)
              /\ \A j \in DOMAIN additional' : Before(delivered'[i], additional'[j])
              /\ \A s \in Readers : Holds(s)' => delivered'[i].id < reader'[s].pk.id
        BY <1>1, <1>3, <3>1, <3>2, <3>3 DEF OrderInv, Conversions
      <4>2. /\ \A i \in DOMAIN additional' :
                 /\ additional'[i].op = "ReadPacket" /\ PastNext(additional'[i].id)
                 /\ \A j \in DOMAIN additional' : i < j => Before(additional'[i], additional'[j])
            /\ \A s \in Readers : Holds(s)' => PastNext(reader'[s].pk.id)
        BY <1>1, <1>2, <1>3, <3>1, <3>2 DEF OrderInv, Conversions
      <4> QED BY <4>1, <4>2 DEF Conversions, Before, Past, PastNext
    <3>5. ReadPacketInOrder'
      BY <3>3 DEF OrderInv, ReadPacketInOrder
    <3> QED BY <3>4, <3>5
  <2>5. CASE returnPacket(r)
    <3>1. reader[r].op = "ReadPacket" /\ reader[r].pc = "decode" /\ reader'[r].pc = "idle"
      BY <2>5, HelperTypes DEF returnPacket
    <3>2. \A s \in Readers : ~Holds(s)'
      BY <2>1, <2>2, <3>1 DEF InReadPacket
    <3>3. /\ PastNext(reader[r].pk.id)
          /\ \A i \in DOMAIN delivered : delivered[i].op = "ReadPacket" =>
               delivered[i].id < reader[r].pk.id
      BY <1>2, <1>3, <3>1 DEF OrderInv, Conversions, InReadPacket
    <3>4. \A i \in DOMAIN additional' :
            /\ additional'[i].op = "ReadPacket" /\ additional'[i].id = reader[r].pk.id
            /\ additional'[i].k = i + 1
      BY <2>2, <2>5, <3>1, ReturnLeaves
    <3>5. PICK h \in Returned : /\ delivered' = Append(delivered, h)
                                /\ h.op = "ReadPacket" /\ h.id = reader[r].pk.id /\ h.k = 1
      BY <2>2, <2>5, <3>1, ReturnLeaves
    <3>6. \A i \in DOMAIN additional' : i \in Nat /\ i > 0
      <4>1. additional' \in Seq(Returned)
        BY TypeNext DEF TypeOK
      <4> QED BY <4>1
    <3>7. /\ DOMAIN delivered' = 1..Len(delivered) + 1 /\ Len(delivered) \in Nat
          /\ DOMAIN delivered = 1..Len(delivered)
          /\ \A i \in DOMAIN delivered' :
               \/ i \in DOMAIN delivered /\ delivered'[i] = delivered[i]
               \/ i = Len(delivered) + 1 /\ delivered'[i] = h
      BY <1>1, <3>5
    <3>8. \A i \in DOMAIN delivered' : delivered'[i].op = "ReadPacket" =>
            /\ PastNext(delivered'[i].id)
            /\ \A j \in DOMAIN additional' : Before(delivered'[i], additional'[j])
      <4> SUFFICES ASSUME NEW i \in DOMAIN delivered', delivered'[i].op = "ReadPacket"
                   PROVE  /\ PastNext(delivered'[i].id)
                          /\ \A j \in DOMAIN additional' : Before(delivered'[i], additional'[j])
        OBVIOUS
      <4>1. CASE i \in DOMAIN delivered /\ delivered'[i] = delivered[i]
        BY <1>1, <1>3, <3>3, <3>4, <4>1 DEF OrderInv, Conversions, Before
      <4>2. CASE delivered'[i] = h
        BY <3>3, <3>4, <3>5, <3>6, <4>2 DEF Before
      <4> QED BY <3>7, <4>1, <4>2
    <3>9. \A i \in DOMAIN additional' :
            /\ additional'[i].op = "ReadPacket" /\ PastNext(additional'[i].id)
            /\ \A j \in DOMAIN additional' : i < j => Before(additional'[i], additional'[j])
      BY <3>3, <3>4, <3>6 DEF Before
    <3>10. Conversions'
      BY <3>2, <3>8, <3>9 DEF Conversions, Before, Past, PastNext
    <3>11. ReadPacketInOrder'
      BY <3>3, <3>5, <3>7 DEF OrderInv, ReadPacketInOrder
    <3> QED BY <3>10, <3>11
  <2>6. CASE blockOnAdditional(r)
    <3>1. /\ reader[r].op = "ReadPacket" /\ reader[r].pc = "decode" /\ reader'[r].pc = "blocked"
          /\ delivered' = delivered
      BY <2>6 DEF blockOnAdditional, ReaderCall
    <3>2. \A s \in Readers : ~Holds(s)'
      BY <2>1, <2>2, <3>1 DEF InReadPacket
    <3>3. /\ PastNext(reader[r].pk.id)
          /\ \A i \in DOMAIN delivered : delivered[i].op = "ReadPacket" =>
               delivered[i].id < reader[r].pk.id
      BY <1>2, <1>3, <3>1 DEF OrderInv, Conversions, InReadPacket
    <3>4. \A i \in DOMAIN additional' :
            /\ additional'[i].op = "ReadPacket" /\ additional'[i].id = reader[r].pk.id
            /\ additional'[i].k = i + 1
      BY <2>2, <2>6, <3>1, BlockFills
    <3>5. \A i \in DOMAIN additional' : i \in Nat
      <4>1. additional' \in Seq(Returned)
        BY TypeNext DEF TypeOK
      <4> QED BY <4>1
    <3>6. \A i \in DOMAIN delivered' : delivered'[i].op = "ReadPacket" =>
            /\ PastNext(delivered'[i].id)
            /\ \A j \in DOMAIN additional' : Before(delivered'[i], additional'[j])
      BY <1>1, <1>3, <3>1, <3>3, <3>4 DEF OrderInv, Conversions, Before
    <3>7. \A i \in DOMAIN additional' :
            /\ additional'[i].op = "ReadPacket" /\ PastNext(additional'[i].id)
            /\ \A j \in DOMAIN additional' : i < j => Before(additional'[i], additional'[j])
      BY <1>2, <3>3, <3>4, <3>5 DEF Before
    <3>8. Conversions'
      BY <3>2, <3>6, <3>7 DEF Conversions, Before, Past, PastNext
    <3> QED BY <3>1, <3>8 DEF OrderInv, ReadPacketInOrder
  <2>7. CASE /\ delivered' = delivered /\ additional' = additional
             /\ reader'[r].pc # "decode"
    BY <1>4, <2>1, <2>7
  <2> QED BY <2>1, <2>3, <2>4, <2>5, <2>6, <2>7
<1>8. CASE UNCHANGED <<reader, additional, delivered, returned>>
  BY <1>4, <1>8
<1> QED BY <1>5, <1>6, <1>7, <1>8, OtherFrame

(* OrderInv holds in every state, for any number of readers. *)
LEMMA OrderHolds == Spec => [](TypeOK /\ OrderInv)
<1>1. Init => OrderInv
  BY DEF Init, OrderInv, Sorted, OneReadPacket, BlockedInReadPacket, Conversions,
         ReadPacketInOrder, InReadPacket, Idle
<1>2. TypeOK /\ OrderInv /\ [Next]_vars => OrderInv'
  BY SortedStep, OneReadPacketStep, ConversionsStep DEF OrderInv
<1> QED BY <1>1, <1>2, TypeCorrect, PTL DEF Spec

(* ReadPacket returns packets in the order of arrival and the conversions  *)
(* of one packet in theirs, without a gap for another packet, whatever     *)
(* other goroutines take with Read meanwhile and however often the channel *)
(* additional overflows.                                                   *)
THEOREM ConversionsInOrder == Spec => []ReadPacketInOrder
BY OrderHolds, PTL DEF OrderInv

(* A ReadPacket that blocks for good on additional has itself to blame:    *)
(* all that fills the channel are conversions of the packet it holds.      *)
THEOREM BlocksOnItself == Spec => []BlocksOnlyOnItself
<1>1. TypeOK /\ OrderInv => BlocksOnlyOnItself
  BY DEF OrderInv, OneReadPacket, BlockedInReadPacket, BlocksOnlyOnItself, InReadPacket
<1> QED BY <1>1, OrderHolds, PTL

------------------------------------------------------------------------------
(* What the refinement of the pipe rests on, for any number of readers:    *)
(* all that a reader took, and all that was returned, came before what     *)
(* waits.                                                                  *)
TakenInv ==
  /\ arrived <= NPackets
  /\ \A i \in DOMAIN batch : batch[i].id >= 1
  /\ \A i \in DOMAIN returned : Past(returned[i])
  /\ \A r \in Readers : reader[r].pc = "decode" => Past(reader[r].pk.id)

(* TakenInv is inductive. *)
LEMMA TakenStep ==
  ASSUME TypeOK, Sorted, TakenInv, [Next]_vars
  PROVE  TakenInv'
<1> reader \in [Readers -> ReaderCall]
  BY DEF TypeOK, ReaderCall
<1>1. /\ returned \in Seq(Nat) /\ batch \in Seq(packetData)
      /\ \A i \in DOMAIN returned : returned[i] \in Nat
  BY DEF TypeOK
<1>2. \A r \in Readers : reader[r].pk.id \in Nat
  BY DEF ReaderCall, packetData
<1>3. \A n \in Nat : Past(n) => PastNext(n)
  BY SortedStep
<1>4. arrived' <= NPackets /\ \A i \in DOMAIN batch' : batch'[i].id >= 1
  <2>1. CASE DecodeFunc
    <3>1. PICK n \in 1..MaxBatch : \E kinds \in [1..n -> Kinds] :
            /\ arrived + n <= NPackets /\ arrived' = arrived + n
            /\ batch' = [i \in 1..n |-> [id |-> arrived + i, kind |-> kinds[i],
                                         gen |-> pool, owned |-> FALSE]]
      BY <2>1 DEF DecodeFunc
    <3>2. /\ arrived' <= NPackets /\ DOMAIN batch' = 1..n
          /\ \A i \in 1..n : batch'[i].id = arrived + i
      BY <3>1
    <3>3. arrived \in Nat /\ n \in Nat
      BY ConstantsAssumption DEF TypeOK
    <3> QED BY <3>2, <3>3
  <2>2. CASE UNCHANGED <<arrived, batch>>
    BY <2>2 DEF TakenInv
  <2>3. CASE arrived' = arrived /\ batch # <<>> /\ batch' = Tail(batch)
    <3>1. \A i \in DOMAIN batch' : i + 1 \in DOMAIN batch /\ batch'[i] = batch[i + 1]
      BY <1>1, <2>3
    <3> QED BY <2>3, <3>1 DEF TakenInv
  <2>4. CASE arrived' = arrived /\ batch' = <<>>
    BY <2>4 DEF TakenInv
  <2>5. CASE ReceiveStep
    BY <2>1, <2>2, <2>3, <2>4, <2>5 DEF ReceiveStep, ReleaseBatch, DecodeFails, ReceiveFails,
         ReceiveDisconnect, ReceiveHandled, deferPacket, signalReady
  <2>6. CASE ~ReceiveStep
    BY <2>2, <2>6 DEF Next, CallStep, StartGame, Close, SetReadDeadline, DeadlineFires,
         ReadAdditional, BeginRead, takeDeferredPacket, takeNothing, enterSelect, selectClosed,
         selectDeadline, selectReady, returnBytes, bufferTooSmall, decodeNothing, returnPacket,
         blockOnAdditional, receiverVars, vars
  <2> QED BY <2>5, <2>6
<1>5. ASSUME returned' = returned, \A r \in Readers : reader'[r].pc = "decode" => reader'[r] = reader[r]
      PROVE  TakenInv'
  BY <1>1, <1>2, <1>3, <1>4, <1>5 DEF TakenInv, Past, PastNext
<1>6. CASE UNCHANGED <<reader, additional, delivered, returned>>
  BY <1>5, <1>6
<1>7. ASSUME NEW r \in Readers, ReadAdditional(r) PROVE TakenInv'
  BY <1>5, <1>7 DEF ReadAdditional
<1>8. ASSUME NEW r \in Readers, BeginRead(r) PROVE TakenInv'
  <2>1. PICK op \in Ops : reader' = [reader EXCEPT ![r] = [Idle EXCEPT !.pc = "take", !.op = op]]
    BY <1>8 DEF BeginRead
  <2>2. /\ reader'[r].pc = "take" /\ \A s \in Readers : s # r => reader'[s] = reader[s]
        /\ returned' = returned
    BY <1>8, <2>1 DEF Idle, BeginRead
  <2> QED BY <1>5, <2>2
<1>9. ASSUME NEW r \in Readers, CallStep(r) PROVE TakenInv'
  <2>1. /\ \A s \in Readers : s # r => reader'[s] = reader[s]
        /\ reader'[r].pc = "decode" => takeDeferredPacket(r)
    BY <1>9, CallFrame
  <2>2. CASE takeDeferredPacket(r)
    <3>1. PastNext(reader'[r].pk.id) /\ returned' = returned
      BY <2>2, TakenIsPast DEF takeDeferredPacket
    <3>2. \A s \in Readers : reader'[s].pc = "decode" => PastNext(reader'[s].pk.id)
      BY <1>2, <1>3, <2>1, <3>1 DEF TakenInv
    <3>3. \A i \in DOMAIN returned' : PastNext(returned'[i])
      BY <1>1, <1>3, <3>1 DEF TakenInv
    <3> QED BY <1>4, <3>2, <3>3 DEF TakenInv, Past, PastNext
  <2>3. CASE returnBytes(r) \/ returnPacket(r)
    <3>1. /\ reader[r].pc = "decode" /\ reader'[r].pc = "idle"
          /\ returned' = Append(returned, reader[r].pk.id)
      BY <2>3, HelperTypes DEF returnBytes, returnPacket
    <3>2. PastNext(reader[r].pk.id)
      BY <1>2, <1>3, <3>1 DEF TakenInv
    <3>3. \A i \in DOMAIN returned' :
            \/ i \in DOMAIN returned /\ returned'[i] = returned[i]
            \/ returned'[i] = reader[r].pk.id
      BY <1>1, <1>2, <3>1
    <3>4. \A i \in DOMAIN returned' : PastNext(returned'[i])
      BY <1>1, <1>3, <3>2, <3>3 DEF TakenInv
    <3>5. \A s \in Readers : reader'[s].pc = "decode" => PastNext(reader'[s].pk.id)
      BY <1>2, <1>3, <2>1, <3>1 DEF TakenInv
    <3> QED BY <1>4, <3>4, <3>5 DEF TakenInv, Past, PastNext
  <2>4. CASE ~takeDeferredPacket(r) /\ ~returnBytes(r) /\ ~returnPacket(r)
    <3>1. returned' = returned
      BY <1>9, <2>4 DEF CallStep, takeNothing, enterSelect, selectClosed, selectDeadline,
           selectReady, bufferTooSmall, decodeNothing, blockOnAdditional
    <3> QED BY <1>5, <2>1, <2>4, <3>1
  <2> QED BY <2>2, <2>3, <2>4
<1> QED BY <1>6, <1>7, <1>8, <1>9, OtherFrame

LEMMA TakenHolds == Spec => [](TypeOK /\ Sorted /\ TakenInv)
<1>1. Init => Sorted /\ TakenInv
  BY ConstantsAssumption DEF Init, Sorted, TakenInv, Idle
<1>2. TypeOK /\ Sorted /\ TakenInv /\ [Next]_vars => Sorted' /\ TakenInv'
  BY SortedStep, TakenStep
<1> QED BY <1>1, <1>2, TypeCorrect, PTL DEF Spec

(* The ids of a queue, what appending to it does, and what taking from it. *)
LEMMA IdsOf ==
  ASSUME NEW d \in Seq(packetData)
  PROVE  /\ Ids(d) \in Seq(Nat) /\ Len(Ids(d)) = Len(d)
         /\ \A i \in 1..Len(d) : Ids(d)[i] = d[i].id
<1>1. \A i \in 1..Len(d) : d[i] \in packetData
  OBVIOUS
<1>2. \A i \in 1..Len(d) : d[i].id \in Nat
  BY <1>1 DEF packetData
<1>3. Ids(d) = [i \in 1..Len(d) |-> d[i].id]
  BY DEF Ids
<1>4. Len(d) \in Nat
  OBVIOUS
<1>5. Ids(d) \in Seq(Nat) /\ Len(Ids(d)) = Len(d)
  BY <1>2, <1>3, <1>4
<1> QED BY <1>3, <1>5

LEMMA IdsAppend ==
  ASSUME NEW d \in Seq(packetData), NEW e \in packetData
  PROVE  Ids(Append(d, e)) = Append(Ids(d), e.id)
<1>1. /\ Append(d, e) \in Seq(packetData) /\ Len(Append(d, e)) = Len(d) + 1
      /\ \A i \in 1..Len(d) : Append(d, e)[i] = d[i]
      /\ Append(d, e)[Len(d) + 1] = e
  BY AppendProperties
<1>2. e.id \in Nat /\ Len(d) \in Nat
  BY DEF packetData
<1>3. /\ Ids(d) \in Seq(Nat) /\ Len(Ids(d)) = Len(d)
      /\ \A i \in 1..Len(d) : Ids(d)[i] = d[i].id
  BY IdsOf
<1>4. /\ Ids(Append(d, e)) \in Seq(Nat) /\ Len(Ids(Append(d, e))) = Len(d) + 1
      /\ \A i \in 1..Len(d) + 1 : Ids(Append(d, e))[i] = Append(d, e)[i].id
  BY <1>1, IdsOf
<1>5. /\ Append(Ids(d), e.id) \in Seq(Nat) /\ Len(Append(Ids(d), e.id)) = Len(d) + 1
      /\ \A i \in 1..Len(d) : Append(Ids(d), e.id)[i] = Ids(d)[i]
      /\ Append(Ids(d), e.id)[Len(d) + 1] = e.id
  BY <1>2, <1>3, AppendProperties
<1>6. ASSUME NEW i \in 1..Len(d) + 1
      PROVE  Ids(Append(d, e))[i] = Append(Ids(d), e.id)[i]
  <2>1. i \in 1..Len(d) \/ i = Len(d) + 1
    BY <1>2
  <2> QED BY <1>1, <1>3, <1>4, <1>5, <2>1
<1> QED BY <1>4, <1>5, <1>6, SeqEqual

(* The front of a queue that starts with x, and the rest. *)
LEMMA Front ==
  ASSUME NEW s \in Seq(Nat), NEW x \in Nat
  PROVE  /\ <<x>> \o s \in Seq(Nat) /\ Len(<<x>> \o s) = Len(s) + 1
         /\ SubSeq(<<x>> \o s, 2, Len(<<x>> \o s)) = s
         /\ SubSeq(<<x>> \o s, 1, 1) = <<x>>
         /\ 1 \in 1..Len(<<x>> \o s)
         /\ (<<x>> \o s)[1] = x
<1>1. <<x>> \in Seq(Nat) /\ Len(<<x>>) = 1 /\ <<x>>[1] = x /\ Len(s) \in Nat
  OBVIOUS
<1>2. /\ <<x>> \o s \in Seq(Nat) /\ Len(<<x>> \o s) = 1 + Len(s)
      /\ \A i \in 1..1 + Len(s) : (<<x>> \o s)[i] = IF i <= 1 THEN <<x>>[i] ELSE s[i - 1]
  BY <1>1, ConcatProperties
<1> DEFINE q == <<x>> \o s
<1>3. q \in Seq(Nat) /\ Len(q) = 1 + Len(s) /\ q[1] = x /\ \A i \in 1..Len(s) : q[i + 1] = s[i]
  BY <1>1, <1>2
<1> HIDE DEF q
<1>4. /\ SubSeq(q, 2, Len(q)) \in Seq(Nat) /\ Len(SubSeq(q, 2, Len(q))) = Len(s)
      /\ \A i \in 1..Len(s) : SubSeq(q, 2, Len(q))[i] = s[i]
  BY <1>1, <1>3
<1>5. SubSeq(q, 2, Len(q)) = s
  BY <1>4, SeqEqual
<1>6. SubSeq(q, 1, 1) = <<x>>
  <2>1. /\ SubSeq(q, 1, 1) \in Seq(Nat) /\ Len(SubSeq(q, 1, 1)) = 1
        /\ SubSeq(q, 1, 1)[1] = x
    BY <1>1, <1>3
  <2>2. \A i \in 1..1 : i = 1
    OBVIOUS
  <2>3. \A i \in 1..1 : SubSeq(q, 1, 1)[i] = <<x>>[i]
    BY <1>1, <2>1, <2>2
  <2> QED BY <1>1, <2>1, <2>3, SeqEqual
<1>7. 1 \in 1..Len(q) /\ Len(q) = Len(s) + 1
  BY <1>1, <1>3
<1> QED BY <1>3, <1>5, <1>6, <1>7 DEF q

LEMMA IdsTake ==
  ASSUME NEW d \in Seq(packetData), d # <<>>
  PROVE  Ids(d) = <<Head(d).id>> \o Ids(Tail(d))
<1>1. /\ Head(d) \in packetData /\ Tail(d) \in Seq(packetData) /\ Len(Tail(d)) = Len(d) - 1
      /\ Head(d) = d[1] /\ Len(d) \in Nat \ {0}
      /\ \A i \in 1..Len(d) - 1 : Tail(d)[i] = d[i + 1]
  BY HeadTailProperties
<1>2. Head(d).id \in Nat
  BY <1>1 DEF packetData
<1>3. /\ Ids(d) \in Seq(Nat) /\ Len(Ids(d)) = Len(d)
      /\ \A i \in 1..Len(d) : Ids(d)[i] = d[i].id
  BY IdsOf
<1>4. /\ Ids(Tail(d)) \in Seq(Nat) /\ Len(Ids(Tail(d))) = Len(d) - 1
      /\ \A i \in 1..Len(d) - 1 : Ids(Tail(d))[i] = Tail(d)[i].id
  BY <1>1, IdsOf
<1>5. Ids(d)[1] = Head(d).id /\ \A i \in 1..Len(d) - 1 : Ids(d)[i + 1] = Ids(Tail(d))[i]
  BY <1>1, <1>3, <1>4
<1>6. <<Head(d).id>> \in Seq(Nat) /\ Len(<<Head(d).id>>) = 1
  BY <1>2
<1>7. /\ <<Head(d).id>> \o Ids(Tail(d)) \in Seq(Nat)
      /\ Len(<<Head(d).id>> \o Ids(Tail(d))) = 1 + (Len(d) - 1)
      /\ \A i \in 1..1 + (Len(d) - 1) : (<<Head(d).id>> \o Ids(Tail(d)))[i] =
           IF i <= 1 THEN <<Head(d).id>>[i] ELSE Ids(Tail(d))[i - 1]
  BY <1>4, <1>6, ConcatProperties
<1>8. ASSUME NEW i \in 1..Len(d) PROVE Ids(d)[i] = (<<Head(d).id>> \o Ids(Tail(d)))[i]
  <2>1. CASE i = 1
    BY <1>1, <1>5, <1>7, <2>1
  <2>2. CASE i # 1
    <3>1. i - 1 \in 1..Len(d) - 1 /\ (i - 1) + 1 = i /\ ~(i <= 1) /\ i \in 1..1 + (Len(d) - 1)
      BY <1>1, <2>2
    <3>2. Ids(d)[i] = Ids(Tail(d))[i - 1]
      BY <1>5, <3>1
    <3> QED BY <1>7, <3>1, <3>2
  <2> QED BY <2>1, <2>2
<1>9. 1 + (Len(d) - 1) = Len(d)
  BY <1>1
<1> QED BY <1>3, <1>7, <1>8, <1>9, SeqEqual

(* Read and ReadPacket are called from one goroutine. *)
OneReader == Readers # {} /\ SingleReader

(* The packets in the pipe: the one in the hands of the reader, if any,    *)
(* and then the queue.                                                     *)
LEMMA InPipe ==
  ASSUME TypeOK, OneReader
  PROVE  /\ TheReader \in Readers /\ \A r \in Readers : r = TheReader
         /\ InHand \in Seq(Nat) /\ Ids(deferredPackets) \in Seq(Nat)
         /\ InHand \o Ids(deferredPackets) \in Seq(Nat)
<1>1. TheReader \in Readers /\ \A r \in Readers : r = TheReader
  BY DEF OneReader, SingleReader, TheReader
<1>2. reader[TheReader] \in ReaderCall
  BY <1>1 DEF TypeOK, ReaderCall
<1>3. reader[TheReader].pk.id \in Nat
  BY <1>2 DEF ReaderCall, packetData
<1>4. InHand \in Seq(Nat)
  BY <1>3 DEF InHand
<1>5. Ids(deferredPackets) \in Seq(Nat)
  BY IdsOf DEF TypeOK
<1> QED BY <1>1, <1>4, <1>5, ConcatProperties

(* deferPacket puts a packet into the pipe that came after all that are or *)
(* were in it.                                                             *)
LEMMA PutStep ==
  ASSUME TypeOK, Sorted, TakenInv, OneReader, deferPacket
  PROVE  Pipe!Put
<1> DEFINE x == batch[1].id
           q == InHand \o Ids(deferredPackets)
<1>1. /\ batch # <<>> /\ UNCHANGED <<reader, returned, closed>>
      /\ deferredPackets' = Append(deferredPackets, ensureOwned(Head(batch)))
  BY DEF deferPacket, readerVars
<1>2. batch \in Seq(packetData) /\ deferredPackets \in Seq(packetData)
      /\ returned \in Seq(Nat) /\ arrived \in Nat
  BY DEF TypeOK
<1>3. 1 \in DOMAIN batch /\ Head(batch) = batch[1] /\ batch[1] \in packetData
  BY <1>1, <1>2
<1>4. /\ x \in Nat /\ ensureOwned(Head(batch)) \in packetData
      /\ ensureOwned(Head(batch)).id = x
  BY <1>3, HelperTypes DEF ensureOwned, packetData
<1>5. x \in 1..NPackets
  BY <1>2, <1>3, <1>4, ConstantsAssumption DEF Sorted, TakenInv
<1>6. /\ TheReader \in Readers
      /\ InHand \in Seq(Nat) /\ Ids(deferredPackets) \in Seq(Nat) /\ q \in Seq(Nat)
  BY InPipe
<1>7. /\ \A i \in DOMAIN InHand : InHand[i] < x
      /\ \A i \in DOMAIN Ids(deferredPackets) : Ids(deferredPackets)[i] < x
      /\ \A i \in DOMAIN returned : returned[i] < x
  <2>1. \A i \in DOMAIN InHand : InHand[i] < x
    BY <1>3, <1>6 DEF InHand, TakenInv, Past, Ahead
  <2>2. \A i \in DOMAIN Ids(deferredPackets) : Ids(deferredPackets)[i] < x
    BY <1>3 DEF Ids, Sorted
  <2>3. \A i \in DOMAIN returned : returned[i] < x
    BY <1>3 DEF TakenInv, Past, Ahead
  <2> QED BY <2>1, <2>2, <2>3
<1> HIDE DEF x
<1>8. \A i \in DOMAIN q : q[i] < x
  <2>1. /\ Len(q) = Len(InHand) + Len(Ids(deferredPackets))
        /\ \A i \in 1..Len(InHand) + Len(Ids(deferredPackets)) :
             q[i] = IF i <= Len(InHand) THEN InHand[i] ELSE Ids(deferredPackets)[i - Len(InHand)]
    BY <1>6, ConcatProperties
  <2>2. Len(InHand) \in Nat /\ Len(Ids(deferredPackets)) \in Nat
    BY <1>6
  <2>3. /\ DOMAIN InHand = 1..Len(InHand)
        /\ DOMAIN Ids(deferredPackets) = 1..Len(Ids(deferredPackets))
        /\ DOMAIN q = 1..Len(InHand) + Len(Ids(deferredPackets))
    BY <1>6, <2>1
  <2> HIDE DEF q
  <2> SUFFICES ASSUME NEW i \in 1..Len(InHand) + Len(Ids(deferredPackets)) PROVE q[i] < x
    BY <2>3
  <2>4. CASE i <= Len(InHand)
    <3>1. i \in 1..Len(InHand)
      BY <2>2, <2>4
    <3> QED BY <1>7, <2>1, <2>3, <2>4, <3>1
  <2>5. CASE i > Len(InHand)
    <3>1. i - Len(InHand) \in 1..Len(Ids(deferredPackets)) /\ ~(i <= Len(InHand))
      BY <2>2, <2>5
    <3> QED BY <1>7, <2>1, <2>3, <3>1
  <2>6. i <= Len(InHand) \/ i > Len(InHand)
    BY <2>2
  <2> QED BY <2>4, <2>5, <2>6, Zenon
<1>9. (InHand \o Ids(deferredPackets))' = Append(q, x)
  <2>1. InHand' = InHand
    BY <1>1 DEF InHand
  <2>2. Ids(deferredPackets)' = Append(Ids(deferredPackets), x)
    BY <1>1, <1>2, <1>4, IdsAppend
  <2>3. Append(q, x) = q \o <<x>>
    BY <1>4, <1>6, AppendIsConcat
  <2>4. Append(Ids(deferredPackets), x) = Ids(deferredPackets) \o <<x>>
    BY <1>4, <1>6, AppendIsConcat
  <2>5. <<x>> \in Seq(Nat)
    BY <1>4
  <2>6. q \o <<x>> = InHand \o (Ids(deferredPackets) \o <<x>>)
    BY <1>6, <2>5, ConcatAssociative
  <2> QED BY <2>1, <2>2, <2>3, <2>4, <2>6
<1> HIDE DEF q
<1>10. Pipe!Precedes(q, x) /\ Pipe!Precedes(returned, x)
  BY <1>7, <1>8 DEF Pipe!Precedes
<1> QED BY <1>1, <1>5, <1>9, <1>10 DEF Pipe!Put, q

(* A reader that holds a packet and lets go of it takes it from the front  *)
(* of the pipe.                                                            *)
LEMMA LeaveStep ==
  ASSUME TypeOK, OneReader, reader[TheReader].pc = "decode", reader'[TheReader].pc # "decode",
         UNCHANGED deferredPackets
  PROVE  /\ Pipe!Leave(1) /\ InHand \o Ids(deferredPackets) # <<>>
         /\ 1 \in 1..Len(InHand \o Ids(deferredPackets))
         /\ SubSeq(InHand \o Ids(deferredPackets), 1, 1) = <<reader[TheReader].pk.id>>
<1> DEFINE x == reader[TheReader].pk.id
           s == Ids(deferredPackets)
<1>1. TheReader \in Readers /\ s \in Seq(Nat)
  BY InPipe
<1>2. reader[TheReader] \in ReaderCall
  BY <1>1 DEF TypeOK, ReaderCall
<1>3. x \in Nat
  BY <1>2 DEF ReaderCall, packetData
<1>4. InHand = <<x>> /\ InHand' = <<>> /\ Ids(deferredPackets)' = s
  BY DEF InHand
<1> HIDE DEF x, s
<1>5. /\ SubSeq(<<x>> \o s, 2, Len(<<x>> \o s)) = s
      /\ SubSeq(<<x>> \o s, 1, 1) = <<x>>
      /\ 1 \in 1..Len(<<x>> \o s)
      /\ Len(<<x>> \o s) = Len(s) + 1
  BY <1>1, <1>3, Front
<1>6. (InHand \o Ids(deferredPackets))' = s
  BY <1>1, <1>4
<1>7. <<x>> \o s # <<>>
  BY <1>1, <1>5
<1>8. Pipe!Leave(1)
  BY <1>4, <1>5, <1>6 DEF Pipe!Leave, s
<1> QED BY <1>4, <1>5, <1>7, <1>8 DEF x, s

(* Every step is a step of the pipe, or none. *)
LEMMA PipeStep ==
  ASSUME TypeOK, Sorted, TakenInv, OneReader, [Next]_vars
  PROVE  [Pipe!Next]_(Pipe!pipe)
<1> DEFINE q == InHand \o Ids(deferredPackets)
           R == TheReader
<1>1. R \in Readers /\ (\A r \in Readers : r = R) /\ q \in Seq(Nat) /\ Ids(deferredPackets) \in Seq(Nat)
  BY InPipe
<1>2. reader \in [Readers -> ReaderCall] /\ reader[R] \in ReaderCall
  BY <1>1 DEF TypeOK, ReaderCall
<1>3. closed \in BOOLEAN
  BY DEF TypeOK
<1>4. ASSUME UNCHANGED <<deferredPackets, returned, closed>>, InHand' = InHand
      PROVE  UNCHANGED Pipe!pipe
  BY <1>4 DEF Pipe!pipe
<1>5. ASSUME UNCHANGED <<deferredPackets, returned, reader>>, closed' = TRUE
      PROVE  [Pipe!Next]_(Pipe!pipe)
  <2>1. InHand' = InHand /\ (InHand \o Ids(deferredPackets))' = q
    BY <1>5 DEF InHand
  <2>2. CASE closed
    <3>1. closed' = closed
      BY <1>5, <2>2, <1>3
    <3> QED BY <1>4, <1>5, <2>1, <3>1
  <2>3. CASE ~closed
    <3>1. Pipe!Leave(0)
      BY <1>1, <2>1, SubSeqFull DEF Pipe!Leave
    <3>2. Pipe!Break
      BY <1>5, <2>3, <3>1 DEF Pipe!Break
    <3> QED BY <3>2 DEF Pipe!Next
  <2> QED BY <2>2, <2>3
<1>6. CASE DecodeFunc \/ ReleaseBatch \/ ReceiveHandled \/ signalReady
           \/ StartGame \/ SetReadDeadline \/ \E c \in Channels : DeadlineFires(c)
  <2>1. UNCHANGED <<deferredPackets, returned, closed, reader>>
    BY <1>6 DEF DecodeFunc, ReleaseBatch, ReceiveHandled, signalReady, StartGame, SetReadDeadline,
                DeadlineFires, readerVars
  <2> QED BY <1>4, <2>1 DEF InHand
<1>7. CASE DecodeFails \/ ReceiveFails \/ ReceiveDisconnect \/ Close
  <2>1. UNCHANGED <<deferredPackets, returned, reader>>
    BY <1>7 DEF DecodeFails, ReceiveFails, ReceiveDisconnect, Close, readerVars
  <2>2. closed' = TRUE
    BY <1>7, Zenon DEF DecodeFails, ReceiveFails, ReceiveDisconnect, Close
  <2> QED BY <1>5, <2>1, <2>2
<1>8. CASE deferPacket
  BY <1>8, PutStep DEF Pipe!Next
<1>9. ASSUME NEW r \in Readers, ReadAdditional(r) PROVE [Pipe!Next]_(Pipe!pipe)
  BY <1>4, <1>9 DEF ReadAdditional, InHand
<1>10. ASSUME NEW r \in Readers, BeginRead(r) PROVE [Pipe!Next]_(Pipe!pipe)
  <2>1. PICK op \in Ops :
          /\ MayCall(r, op)
          /\ reader' = [reader EXCEPT ![r] = [Idle EXCEPT !.pc = "take", !.op = op]]
    BY <1>10 DEF BeginRead
  <2>2. r = R /\ reader[R].pc = "idle" /\ reader'[R].pc = "take"
    BY <1>1, <1>2, <2>1 DEF MayCall, Idle
  <2>3. UNCHANGED <<deferredPackets, returned, closed>>
    BY <1>10 DEF BeginRead
  <2> QED BY <1>4, <2>2, <2>3 DEF InHand
<1>11. ASSUME NEW r \in Readers, CallStep(r) PROVE [Pipe!Next]_(Pipe!pipe)
  <2>0. r = R
    BY <1>1
  <2>1. CASE takeDeferredPacket(r)
    <3>1. /\ deferredPackets # <<>> /\ deferredPackets' = Tail(deferredPackets)
          /\ reader[R].pc = "take" /\ UNCHANGED <<returned, closed>>
          /\ reader' = [reader EXCEPT ![R].pc = "decode", ![R].pk = Head(deferredPackets)]
      BY <2>0, <2>1 DEF takeDeferredPacket
    <3>2. reader'[R].pc = "decode" /\ reader'[R].pk = Head(deferredPackets)
      BY <1>1, <1>2, <3>1 DEF ReaderCall
    <3>3. InHand = <<>> /\ InHand' = <<Head(deferredPackets).id>>
      BY <3>1, <3>2 DEF InHand
    <3>4. Ids(deferredPackets) = <<Head(deferredPackets).id>> \o Ids(Tail(deferredPackets))
      BY <3>1, IdsTake DEF TypeOK
    <3>5. q = Ids(deferredPackets)
      BY <1>1, <3>3
    <3>6. (InHand \o Ids(deferredPackets))' = q
      BY <3>1, <3>3, <3>4, <3>5
    <3> QED BY <3>1, <3>6 DEF Pipe!pipe
  <2>2. CASE takeNothing(r) \/ enterSelect(r) \/ selectClosed(r) \/ selectDeadline(r)
             \/ selectReady(r)
    <3>1. reader[R].pc # "decode" /\ reader'[R].pc # "decode"
      BY <1>1, <1>2, <2>0, <2>2, HelperTypes DEF takeNothing, enterSelect, selectClosed,
           selectDeadline, selectReady, ReaderCall
    <3>2. UNCHANGED <<deferredPackets, returned, closed>>
      BY <2>2 DEF takeNothing, enterSelect, selectClosed, selectDeadline, selectReady
    <3> QED BY <1>4, <3>1, <3>2 DEF InHand
  <2>3. CASE returnBytes(r) \/ returnPacket(r)
    <3>1. /\ reader[R].pc = "decode" /\ reader'[R].pc # "decode"
          /\ UNCHANGED <<deferredPackets, closed>>
          /\ returned' = Append(returned, reader[R].pk.id)
      BY <1>1, <1>2, <2>0, <2>3, HelperTypes DEF returnBytes, returnPacket
    <3>2. /\ Pipe!Leave(1) /\ 1 \in 1..Len(q)
          /\ SubSeq(q, 1, 1) = <<reader[R].pk.id>>
      BY <3>1, LeaveStep
    <3>3. reader[R].pk.id \in Nat /\ returned \in Seq(Nat)
      BY <1>2 DEF TypeOK, ReaderCall, packetData
    <3>4. returned' = returned \o SubSeq(q, 1, 1)
      BY <3>1, <3>2, <3>3, AppendIsConcat
    <3>5. Pipe!Deliver
      BY <3>1, <3>2, <3>4 DEF Pipe!Deliver
    <3> QED BY <3>5 DEF Pipe!Next
  <2>4. CASE bufferTooSmall(r) \/ blockOnAdditional(r) \/ decodeNothing(r)
    <3>1. /\ reader[R].pc = "decode" /\ reader'[R].pc # "decode"
          /\ UNCHANGED <<deferredPackets, returned>>
      <4>1. CASE bufferTooSmall(r)
        BY <1>1, <1>2, <2>0, <4>1, HelperTypes DEF bufferTooSmall
      <4>2. CASE blockOnAdditional(r)
        BY <1>1, <1>2, <2>0, <4>2 DEF blockOnAdditional, ReaderCall
      <4>3. CASE decodeNothing(r)
        BY <1>1, <1>2, <2>0, <4>3 DEF decodeNothing, ReaderCall
      <4> QED BY <2>4, <4>1, <4>2, <4>3
    <3>2. Pipe!Leave(1) /\ q # <<>> /\ 1 \in 1..Len(q)
      BY <3>1, LeaveStep
    <3>3. closed' = closed \/ closed' = TRUE
      BY <2>4 DEF bufferTooSmall, blockOnAdditional, decodeNothing
    <3>4. CASE closed' = closed
      <4>1. Pipe!Lose
        BY <3>1, <3>2, <3>4 DEF Pipe!Lose
      <4> QED BY <4>1 DEF Pipe!Next
    <3>5. CASE closed' = TRUE /\ closed' # closed
      <4>1. ~closed
        BY <1>3, <3>5
      <4>2. Pipe!Break
        BY <3>1, <3>2, <3>5, <4>1 DEF Pipe!Break
      <4> QED BY <4>2 DEF Pipe!Next
    <3> QED BY <3>3, <3>4, <3>5
  <2> QED BY <1>11, <2>1, <2>2, <2>3, <2>4 DEF CallStep
<1>12. CASE UNCHANGED vars
  BY <1>4, <1>12 DEF vars, InHand
<1> QED BY <1>6, <1>7, <1>8, <1>9, <1>10, <1>11, <1>12 DEF Next, ReceiveStep

(* With one goroutine that reads, the receiving half of a Conn implements  *)
(* the lossy pipe, for every number of packets, batches and slots: packets *)
(* come out once, in the order receive deferred them, and only the one at  *)
(* the front is ever lost.                                                 *)
THEOREM ReceivingIsPipe == OneReader => (Spec => ReceivesAsPipe)
<1> SUFFICES ASSUME OneReader PROVE Spec => ReceivesAsPipe
  OBVIOUS
<1>1. Init => Pipe!Init
  <2> SUFFICES ASSUME Init PROVE Pipe!Init
    OBVIOUS
  <2>1. TheReader \in Readers
    BY DEF OneReader, TheReader
  <2>2. InHand = <<>>
    BY <2>1 DEF Init, InHand, Idle
  <2>3. Ids(deferredPackets) = <<>>
    BY DEF Init, Ids
  <2> QED BY <2>2, <2>3 DEF Init, Pipe!Init
<1>2. TypeOK /\ Sorted /\ TakenInv /\ [Next]_vars => [Pipe!Next]_(Pipe!pipe)
  BY PipeStep
<1> QED BY <1>1, <1>2, TakenHolds, PTL DEF Spec, ReceivesAsPipe, Pipe!Spec
==============================================================================
