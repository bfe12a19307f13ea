---------------------------- MODULE ConnSendProofs ----------------------------
(***************************************************************************)
(* Theorems about the sending side of a Conn, for any number of goroutines *)
(* that write, flush and close, any number of packets and of calls: the    *)
(* flush never panics, a close flushes first, the format changes between   *)
(* the announcement and what follows it, and the two buffers together with *)
(* the encoder are a pipe.                                                 *)
(***************************************************************************)
EXTENDS ConnSend, SequenceTheorems, TLAPS

(* Where a goroutine holds encMu... *)
Holding == {"swap", "encode", "send", "clear", "keep"}

(* ...and it is held by the goroutine that is there. *)
LockInv == \A p \in Procs : pc[p] \in Holding <=> encMu = p

(* The holder has detached a buffer; the packets in it are not on the wire. *)
Detaching == encMu \in Procs /\ pc[encMu] \in {"encode", "send", "clear", "keep"}
Encoding == encMu \in Procs /\ pc[encMu] \in {"encode", "send"}

(* The three slices never share an array, and what Encode has copied is a  *)
(* prefix of the detached one, all of it before the batch is written.      *)
SliceInv ==
  /\ IF Detaching THEN toSend.arr \in Arrays /\ toSend.len > 0 ELSE toSend = Nil
  /\ send.arr = NoArray => send.len = 0
  /\ send.arr # NoArray => send.arr # spare.arr /\ send.arr # toSend.arr
  /\ spare.arr # NoArray => spare.arr # toSend.arr
  /\ IF Encoding
     THEN IF pc[encMu] = "encode" THEN Len(buf) < toSend.len ELSE Len(buf) = toSend.len
     ELSE buf = <<>>
  /\ \A i \in DOMAIN buf : buf[i] = heap[toSend.arr][i]

(* The wire has the packets from the first on.  While the transport is     *)
(* open the detached buffer has the next ones and the send buffer the      *)
(* rest.                                                                   *)
OrderInv ==
  /\ heap \in [Arrays -> [Slots -> 0 .. written]]
  /\ Len(wire) <= written
  /\ \A i \in DOMAIN wire : wire[i].packet = i
  /\ transport = "open" =>
       /\ Len(wire) + (IF Encoding THEN toSend.len ELSE 0) + send.len = written
       /\ \A i \in 1 .. send.len : heap[send.arr][i] = written - send.len + i
       /\ Encoding => \A i \in 1 .. toSend.len : heap[toSend.arr][i] = Len(wire) + i

(* Whoever closes the transport has cancelled the context before. *)
CtxInv ==
  /\ transport = "closed" => ctxDone
  /\ \A p \in Procs : pc[p] \in {"shut", "killConn"} => ctxDone
  /\ ~panicked

(* What is known of a goroutine from where it is. *)
CallInv ==
  /\ \A p \in Procs :
       /\ pc[p] \in {"cancel", "switch"} => after[p] = pc[p]
       /\ after[p] = "cancel" => once # "none"
       /\ after[p] = "switch" => p = Handler
       /\ pc[p] \in {"settings", "announce"} =>
            p = Handler /\ after[p] = "idle" /\ settings = -1 /\ format = "raw"
  /\ closedAt <= written /\ settings <= written

(* The packets that the flush of a goroutine has to get onto the wire: all *)
(* that were buffered when close was called, or the announcement of the    *)
(* format.                                                                 *)
Due(p) == CASE after[p] = "cancel" -> closedAt [] after[p] = "switch" -> settings [] OTHER -> 0

(* They are in the buffer it detached, or on the wire, although others     *)
(* write and flush before and after it.                                    *)
FlushInv ==
  transport = "open" /\ ~ctxDone =>
    \A p \in Procs :
      /\ pc[p] \in {"encode", "send"} => Len(wire) + toSend.len >= Due(p)
      /\ pc[p] \in {"clear", "keep", "cancel", "switch"} => Len(wire) >= Due(p)

(* Before the change all is raw; after it the announcement has left. *)
FormatInv ==
  /\ format = "raw" <=> switchedAt = -1
  /\ format = "raw" => \A i \in DOMAIN wire : wire[i].format = "raw"
  /\ format = "compressed" /\ transport = "open" /\ ~ctxDone => Len(wire) >= settings
  /\ switchedAt <= written
  /\ FormatFollowsSettings

SendInv ==
  /\ TypeOK /\ LockInv /\ SliceInv /\ OrderInv
  /\ CtxInv /\ CallInv /\ FlushInv /\ FormatInv

USE SendAssumption

(* append leaves the packets that are there in place, adds the new one,    *)
(* and touches neither the spare buffer nor the one that is being encoded. *)
LEMMA Buffered ==
  ASSUME BufTypeOK, SliceInv, heap \in [Arrays -> [Slots -> 0 .. written]], bufferPacket
  PROVE  /\ written' = written + 1 /\ written' \in 0 .. MaxPackets /\ spare' = spare
         /\ send' \in Slices /\ send'.len = send.len + 1
         /\ send'.arr \in Arrays /\ send'.arr # spare.arr /\ send'.arr # toSend.arr
         /\ heap' \in [Arrays -> [Slots -> 0 .. written']]
         /\ heap'[send'.arr][send'.len] = written'
         /\ \A j \in 1 .. send.len : heap'[send'.arr][j] = heap[send.arr][j]
         /\ \A a \in Arrays \ {send'.arr} : heap'[a] = heap[a]
<1> USE DEF BufTypeOK, Slices, Slots
<1>1. send.len + 1 \in Slots /\ written' = written + 1 /\ written' \in 0 .. MaxPackets
      /\ spare' = spare /\ written \in Nat
  BY DEF bufferPacket
<1>2. /\ send.arr = NoArray => send.len = 0
      /\ send.arr # NoArray => send.arr # spare.arr /\ send.arr # toSend.arr
  BY DEF SliceInv
<1>3. CASE /\ send.arr # NoArray
           /\ heap' = [heap EXCEPT ![send.arr][send.len + 1] = written + 1]
           /\ send' = [send EXCEPT !.len = send.len + 1]
  <2>1. send.arr \in Arrays /\ heap[send.arr] \in [Slots -> 0 .. written]
    BY <1>3
  <2>2. [heap[send.arr] EXCEPT ![send.len + 1] = written + 1] \in [Slots -> 0 .. written']
    BY <1>1, <2>1
  <2>3. heap' = [heap EXCEPT ![send.arr] = [heap[send.arr] EXCEPT ![send.len + 1] = written + 1]]
    BY <1>3
  <2>4. heap \in [Arrays -> [Slots -> 0 .. written']]
    BY <1>1
  <2> QED BY <1>1, <1>2, <1>3, <2>1, <2>2, <2>3, <2>4
<1>4. ASSUME NEW a \in Arrays \ {send.arr, spare.arr, toSend.arr},
             heap' = [heap EXCEPT ![a] =
               [j \in Slots |-> IF j < send.len + 1 THEN heap[send.arr][j]
                                ELSE IF j = send.len + 1 THEN written + 1 ELSE 0]],
             send' = [arr |-> a, len |-> send.len + 1]
      PROVE  /\ send' \in Slices /\ send'.len = send.len + 1
             /\ send'.arr \in Arrays /\ send'.arr # spare.arr /\ send'.arr # toSend.arr
             /\ heap' \in [Arrays -> [Slots -> 0 .. written']]
             /\ heap'[send'.arr][send'.len] = written'
             /\ \A j \in 1 .. send.len : heap'[send'.arr][j] = heap[send.arr][j]
             /\ \A b \in Arrays \ {send'.arr} : heap'[b] = heap[b]
  <2> DEFINE grown == [j \in Slots |-> IF j < send.len + 1 THEN heap[send.arr][j]
                                       ELSE IF j = send.len + 1 THEN written + 1 ELSE 0]
  <2>1. send.len > 0 => send.arr \in Arrays
    BY <1>2
  <2>2. \A j \in Slots : j < send.len + 1 => heap[send.arr][j] \in 0 .. written'
    <3> SUFFICES ASSUME NEW j \in Slots, j < send.len + 1 PROVE heap[send.arr][j] \in 0 .. written'
      OBVIOUS
    <3>1. heap[send.arr] \in [Slots -> 0 .. written]
      BY <2>1
    <3>2. heap[send.arr][j] \in 0 .. written
      BY <3>1
    <3>3. \A n : n \in 0 .. written => n \in 0 .. written'
      BY <1>1
    <3> QED BY <3>2, <3>3, Zenon
  <2>3. grown \in [Slots -> 0 .. written']
    BY <1>1, <2>2
  <2>4. heap \in [Arrays -> [Slots -> 0 .. written']]
    BY <1>1
  <2>5. heap' \in [Arrays -> [Slots -> 0 .. written']] /\ heap'[a] = grown
        /\ \A b \in Arrays \ {a} : heap'[b] = heap[b]
    BY <1>4, <2>3, <2>4
  <2>6. send'.arr = a /\ send'.len = send.len + 1 /\ send' \in Slices
    BY <1>1, <1>4
  <2>7. send.len + 1 \in Slots /\ grown[send.len + 1] = written'
        /\ \A j \in 1 .. send.len : grown[j] = heap[send.arr][j]
    BY <1>1, SMTT(40)
  <2> HIDE DEF grown
  <2> QED BY <2>5, <2>6, <2>7
<1> QED
  <2>1. \/ /\ send.arr # NoArray
           /\ heap' = [heap EXCEPT ![send.arr][send.len + 1] = written + 1]
           /\ send' = [send EXCEPT !.len = send.len + 1]
        \/ \E a \in Arrays \ {send.arr, spare.arr, toSend.arr} :
             /\ heap' = [heap EXCEPT ![a] =
                  [j \in Slots |-> IF j < send.len + 1 THEN heap[send.arr][j]
                                   ELSE IF j = send.len + 1 THEN written + 1 ELSE 0]]
             /\ send' = [arr |-> a, len |-> send.len + 1]
    BY DEF bufferPacket
  <2> QED BY <1>1, <1>3, <1>4, <2>1

(* encMu is held by one goroutine at a time. *)
LEMMA Holder ==
  ASSUME LockInv, NEW p \in Procs, pc[p] \in Holding
  PROVE  encMu = p /\ \A q \in Procs \ {p} : pc[q] \notin Holding
BY DEF LockInv

(* The next packet that Encode copies is in the array. *)
LEMMA Copied ==
  ASSUME SendInv, NEW p \in Procs, encodePacket(p)
  PROVE  /\ encMu = p /\ Encoding /\ Detaching /\ toSend.arr \in Arrays
         /\ Len(buf) + 1 \in Slots /\ Len(buf) + 1 <= toSend.len
         /\ heap[toSend.arr][Len(buf) + 1] \in 0 .. MaxPackets
         /\ Len(buf') = Len(buf) + 1 /\ buf' \in Seq(0 .. MaxPackets)
         /\ \A i \in DOMAIN buf' :
              buf'[i] = IF i = Len(buf) + 1 THEN heap[toSend.arr][Len(buf) + 1] ELSE buf[i]
         /\ pc'[p] \in {"encode", "send"} /\ (pc'[p] = "send" <=> Len(buf') = toSend.len)
         /\ \A q \in Procs \ {p} : pc'[q] = pc[q]
<1> USE DEF SendInv, TypeOK, EncTypeOK, ProcTypeOK
<1>1. /\ pc[p] = "encode"
      /\ pc' = [pc EXCEPT ![p] = IF Len(buf) + 1 = toSend.len THEN "send" ELSE "encode"]
      /\ buf' = Append(buf, heap[toSend.arr][Len(buf) + 1])
  BY DEF encodePacket, Goto
<1>2. encMu = p /\ Encoding /\ Detaching
  BY <1>1, Holder DEF Holding, Encoding, Detaching
<1>3. /\ toSend.arr \in Arrays
      /\ Len(buf) + 1 \in Slots /\ Len(buf) + 1 <= toSend.len
  <2>1. toSend.arr \in Arrays
    BY <1>2 DEF SliceInv
  <2>2. Len(buf) < toSend.len
    BY <1>1, <1>2 DEF SliceInv
  <2>3. toSend.len \in 0 .. MaxPackets /\ Len(buf) \in Nat
    BY DEF Slices
  <2> HIDE DEF SendInv
  <2> QED BY <2>1, <2>2, <2>3 DEF Slots
<1>4. heap[toSend.arr][Len(buf) + 1] \in 0 .. MaxPackets
  BY <1>3 DEF BufTypeOK
<1>5. Len(buf') = Len(buf) + 1 /\ buf' \in Seq(0 .. MaxPackets)
      /\ \A i \in DOMAIN buf' :
           buf'[i] = IF i = Len(buf) + 1 THEN heap[toSend.arr][Len(buf) + 1] ELSE buf[i]
  BY <1>1, <1>4, AppendProperties
<1>6. pc'[p] \in {"encode", "send"} /\ (pc'[p] = "send" <=> Len(buf') = toSend.len)
      /\ \A q \in Procs \ {p} : pc'[q] = pc[q]
  BY <1>1, <1>5
<1> HIDE DEF SendInv
<1> QED BY <1>2, <1>3, <1>4, <1>5, <1>6

Sendable == [packet : 0 .. MaxPackets, format : {"raw", "compressed"}]

(* A batch appends what Encode copied to the wire. *)
LEMMA Sent ==
  ASSUME SendInv, NEW p \in Procs, encodeSend(p)
  PROVE  /\ encMu = p /\ Encoding /\ Detaching /\ Len(buf) = toSend.len
         /\ wire' \in Seq(Sendable)
         /\ Len(wire') = Len(wire) + Len(buf)
         /\ \A i \in DOMAIN wire' :
              wire'[i] = IF i <= Len(wire) THEN wire[i]
                         ELSE [packet |-> buf[i - Len(wire)], format |-> format]
         /\ \A i \in DOMAIN wire' : i > Len(wire) => i - Len(wire) \in DOMAIN buf
<1> USE DEF SendInv, TypeOK, EncTypeOK, ProcTypeOK, FormatTypeOK
<1>1. pc[p] = "send" /\ wire' = wire \o Batch
  BY DEF encodeSend, Goto
<1>2. encMu = p /\ Encoding /\ Detaching
  BY <1>1, Holder DEF Holding, Encoding, Detaching
<1>3. Len(buf) = toSend.len
  BY <1>1, <1>2 DEF SliceInv
<1>4. /\ buf \in Seq(0 .. MaxPackets) /\ format \in {"raw", "compressed"} /\ wire \in Seq(Sendable)
      /\ DOMAIN buf = 1 .. Len(buf) /\ Len(buf) \in Nat /\ Len(wire) \in Nat
  BY DEF Sendable
<1> HIDE DEF SendInv
<1>5. \A i \in 1 .. Len(buf) : [packet |-> buf[i], format |-> format] \in Sendable
  BY <1>4 DEF Sendable
<1>6. Batch \in Seq(Sendable) /\ Len(Batch) = Len(buf)
      /\ \A i \in 1 .. Len(buf) : Batch[i] = [packet |-> buf[i], format |-> format]
  <2> DEFINE item(i) == [packet |-> buf[i], format |-> format]
  <2>1. Batch = [i \in 1 .. Len(buf) |-> item(i)]
    BY <1>4 DEF Batch
  <2>2. \A i \in 1 .. Len(buf) : item(i) \in Sendable
    BY <1>5
  <2> HIDE DEF item
  <2>3. Batch \in Seq(Sendable) /\ Len(Batch) = Len(buf)
        /\ \A i \in 1 .. Len(buf) : Batch[i] = item(i)
    BY <1>4, <2>1, <2>2
  <2> QED BY <2>3 DEF item
<1>7. /\ wire \o Batch \in Seq(Sendable)
      /\ Len(wire \o Batch) = Len(wire) + Len(Batch)
      /\ \A i \in 1 .. Len(wire) + Len(Batch) :
           (wire \o Batch)[i] = IF i <= Len(wire) THEN wire[i] ELSE Batch[i - Len(wire)]
  BY <1>4, <1>6, ConcatProperties, ZenonT(60)
<1>8. /\ wire' \in Seq(Sendable) /\ Len(wire') = Len(wire) + Len(buf)
      /\ DOMAIN wire' = 1 .. Len(wire) + Len(buf)
      /\ \A i \in DOMAIN wire' :
           wire'[i] = IF i <= Len(wire) THEN wire[i] ELSE Batch[i - Len(wire)]
  BY <1>1, <1>4, <1>6, <1>7
<1>9. \A i \in DOMAIN wire' : i > Len(wire) => i - Len(wire) \in DOMAIN buf
  BY <1>4, <1>8
<1> QED BY <1>2, <1>3, <1>4, <1>6, <1>8, <1>9, SMTT(40)

(* Every step keeps the types. *)
LEMMA TypeStep == ASSUME SendInv, [Next]_vars PROVE TypeOK'
<1> USE DEF SendInv, TypeOK, Goto, bufVars, encVars, connVars, formatVars, Slices, BufTypeOK,
            EncTypeOK, ConnTypeOK, FormatTypeOK, ProcTypeOK, OrderInv
<1>1. ASSUME NEW p \in Procs, WritePacket(p) PROVE TypeOK'
  BY <1>1 DEF WritePacket
<1>2. ASSUME NEW p \in Procs, Write(p) PROVE TypeOK'
  <2>1. BufTypeOK'
    BY <1>2, Buffered, SMTT(40) DEF Write
  <2> HIDE DEF BufTypeOK
  <2> QED BY <1>2, <2>1 DEF Write
<1>3. ASSUME NEW p \in Procs, Flush(p) PROVE TypeOK'
  BY <1>3 DEF Flush, FlushReturns
<1>4. ASSUME NEW p \in Procs, flushLock(p) PROVE TypeOK'
  BY <1>4 DEF flushLock
<1>5. ASSUME NEW p \in Procs, flushNothing(p) PROVE TypeOK'
  BY <1>5 DEF flushNothing, FlushReturns
<1>6. ASSUME NEW p \in Procs, flushSwap(p) PROVE TypeOK'
  BY <1>6 DEF flushSwap, Resliced, Nil
<1>7. ASSUME NEW p \in Procs, encodePacket(p) PROVE TypeOK'
  <2>1. buf' \in Seq(0 .. MaxPackets)
    BY <1>7, Copied
  <2> QED BY <1>7, <2>1 DEF encodePacket
<1>8. ASSUME NEW p \in Procs, encodeSend(p) PROVE TypeOK'
  <2>1. wire' \in Seq([packet : 0 .. MaxPackets, format : {"raw", "compressed"}])
    BY <1>8, Sent DEF Sendable
  <2> QED BY <1>8, <2>1 DEF encodeSend
<1>9. ASSUME NEW p \in Procs, encodeFails(p) PROVE TypeOK'
  BY <1>9 DEF encodeFails
<1>10. ASSUME NEW p \in Procs, flushClear(p) PROVE TypeOK'
  <2>1. pc[p] = "clear"
    BY <1>10 DEF flushClear
  <2>2. toSend.arr \in Arrays
    BY <2>1, Holder DEF SliceInv, Detaching, Holding
  <2>3. heap[toSend.arr] \in [Slots -> 0 .. MaxPackets]
    BY <2>2
  <2>4. [j \in Slots |-> IF j <= toSend.len THEN 0 ELSE heap[toSend.arr][j]]
          \in [Slots -> 0 .. MaxPackets]
    BY <2>3
  <2> QED BY <1>10, <2>2, <2>4 DEF flushClear
<1>11. ASSUME NEW p \in Procs, flushKeepSpare(p) PROVE TypeOK'
  <2>1. toSend \in [arr : Arrays \cup {NoArray}, len : 0 .. MaxPackets]
    OBVIOUS
  <2>2. Resliced(toSend) \in [arr : Arrays \cup {NoArray}, len : {0}]
    BY ONLY <2>1 DEF Resliced
  <2>3. Nil \in Slices
    BY DEF Nil
  <2> QED BY <1>11, <2>2, <2>3 DEF flushKeepSpare, FlushReturns
<1>12. ASSUME NEW p \in Procs, close(p) PROVE TypeOK'
  BY <1>12 DEF close
<1>13. ASSUME NEW p \in Procs, closeWaits(p) PROVE TypeOK'
  BY <1>13 DEF closeWaits, CloseReturns
<1>14. ASSUME NEW p \in Procs, closeCancel(p) PROVE TypeOK'
  BY <1>14 DEF closeCancel
<1>15. ASSUME NEW p \in Procs, closeConn(p) PROVE TypeOK'
  BY <1>15 DEF closeConn, CloseReturns, Closed
<1>16. ASSUME NEW p \in Procs, closeTransport(p) PROVE TypeOK'
  BY <1>16 DEF closeTransport
<1>17. ASSUME NEW p \in Procs, closeTransportConn(p) PROVE TypeOK'
  BY <1>17 DEF closeTransportConn, Closed
<1>18. ASSUME NEW p \in Procs, tick(p) PROVE TypeOK'
  BY <1>18 DEF tick
<1>19. ASSUME NEW p \in Procs, writeSettings(p) PROVE TypeOK'
  BY <1>19 DEF writeSettings
<1>20. ASSUME NEW p \in Procs, bufferSettings(p) PROVE TypeOK'
  <2>1. BufTypeOK' /\ settings' \in -1 .. MaxPackets
    BY <1>20, Buffered, SMTT(40) DEF bufferSettings
  <2> HIDE DEF BufTypeOK
  <2> QED BY <1>20, <2>1 DEF bufferSettings
<1>21. ASSUME NEW p \in Procs, switchFormat(p) PROVE TypeOK'
  BY <1>21 DEF switchFormat
<1>22. ASSUME NEW p \in Procs, NEW op \in Ops, Call(p, op) PROVE TypeOK'
  BY <1>22 DEF Call, Ops
<1>23. CASE TransportLost
  BY <1>23 DEF TransportLost
<1>24. CASE TransportContextDone
  BY <1>24 DEF TransportContextDone
<1>25. CASE UNCHANGED vars
  BY <1>25 DEF vars
<1> QED BY <1>1, <1>2, <1>3, <1>4, <1>5, <1>6, <1>7, <1>8, <1>9, <1>10, <1>11, <1>12, <1>13,
           <1>14, <1>15, <1>16, <1>17, <1>18, <1>19, <1>20, <1>21, <1>22, <1>23, <1>24, <1>25
       DEF Next, Step

(* Whoever enters or leaves the section under encMu locks or unlocks it. *)
LEMMA LockStep == ASSUME SendInv, [Next]_vars PROVE LockInv'
<1> USE DEF SendInv, TypeOK, EncTypeOK, ProcTypeOK, LockInv, Holding, Goto, encVars
<1>1. ASSUME NEW p \in Procs, WritePacket(p) PROVE LockInv'
  BY <1>1 DEF WritePacket
<1>2. ASSUME NEW p \in Procs, Write(p) PROVE LockInv'
  BY <1>2 DEF Write
<1>3. ASSUME NEW p \in Procs, Flush(p) PROVE LockInv'
  BY <1>3 DEF Flush, FlushReturns
<1>4. ASSUME NEW p \in Procs, flushLock(p) PROVE LockInv'
  BY <1>4 DEF flushLock
<1>5. ASSUME NEW p \in Procs, flushNothing(p) PROVE LockInv'
  BY <1>5 DEF flushNothing, FlushReturns
<1>6. ASSUME NEW p \in Procs, flushSwap(p) PROVE LockInv'
  BY <1>6 DEF flushSwap, Resliced, Nil
<1>7. ASSUME NEW p \in Procs, encodePacket(p) PROVE LockInv'
  BY <1>7 DEF encodePacket
<1>8. ASSUME NEW p \in Procs, encodeSend(p) PROVE LockInv'
  BY <1>8 DEF encodeSend, Batch
<1>9. ASSUME NEW p \in Procs, encodeFails(p) PROVE LockInv'
  BY <1>9 DEF encodeFails
<1>10. ASSUME NEW p \in Procs, flushClear(p) PROVE LockInv'
  BY <1>10 DEF flushClear
<1>11. ASSUME NEW p \in Procs, flushKeepSpare(p) PROVE LockInv'
  BY <1>11 DEF flushKeepSpare, FlushReturns, Resliced, Nil
<1>12. ASSUME NEW p \in Procs, close(p) PROVE LockInv'
  BY <1>12 DEF close
<1>13. ASSUME NEW p \in Procs, closeWaits(p) PROVE LockInv'
  BY <1>13 DEF closeWaits, CloseReturns
<1>14. ASSUME NEW p \in Procs, closeCancel(p) PROVE LockInv'
  BY <1>14 DEF closeCancel
<1>15. ASSUME NEW p \in Procs, closeConn(p) PROVE LockInv'
  BY <1>15 DEF closeConn, CloseReturns, Closed
<1>16. ASSUME NEW p \in Procs, closeTransport(p) PROVE LockInv'
  BY <1>16 DEF closeTransport
<1>17. ASSUME NEW p \in Procs, closeTransportConn(p) PROVE LockInv'
  BY <1>17 DEF closeTransportConn, Closed
<1>18. ASSUME NEW p \in Procs, tick(p) PROVE LockInv'
  BY <1>18 DEF tick
<1>19. ASSUME NEW p \in Procs, writeSettings(p) PROVE LockInv'
  BY <1>19 DEF writeSettings
<1>20. ASSUME NEW p \in Procs, bufferSettings(p) PROVE LockInv'
  BY <1>20 DEF bufferSettings
<1>21. ASSUME NEW p \in Procs, switchFormat(p) PROVE LockInv'
  BY <1>21 DEF switchFormat
<1>22. ASSUME NEW p \in Procs, NEW op \in Ops, Call(p, op) PROVE LockInv'
  BY <1>22 DEF Call, Ops
<1>23. CASE TransportLost
  BY <1>23 DEF TransportLost
<1>24. CASE TransportContextDone
  BY <1>24 DEF TransportContextDone
<1>25. CASE UNCHANGED vars
  BY <1>25 DEF vars
<1> QED BY <1>1, <1>2, <1>3, <1>4, <1>5, <1>6, <1>7, <1>8, <1>9, <1>10, <1>11, <1>12, <1>13,
           <1>14, <1>15, <1>16, <1>17, <1>18, <1>19, <1>20, <1>21, <1>22, <1>23, <1>24, <1>25
       DEF Next, Step

(* The transport is closed after the context was cancelled. *)
LEMMA CtxStep == ASSUME SendInv, [Next]_vars PROVE CtxInv'
<1> USE DEF SendInv, TypeOK, ConnTypeOK, ProcTypeOK, CtxInv, Goto, connVars
<1>1. ASSUME NEW p \in Procs, WritePacket(p) PROVE CtxInv'
  BY <1>1 DEF WritePacket
<1>2. ASSUME NEW p \in Procs, Write(p) PROVE CtxInv'
  BY <1>2 DEF Write
<1>3. ASSUME NEW p \in Procs, Flush(p) PROVE CtxInv'
  BY <1>3 DEF Flush, FlushReturns
<1>4. ASSUME NEW p \in Procs, flushLock(p) PROVE CtxInv'
  BY <1>4 DEF flushLock
<1>5. ASSUME NEW p \in Procs, flushNothing(p) PROVE CtxInv'
  BY <1>5 DEF flushNothing, FlushReturns
<1>6. ASSUME NEW p \in Procs, flushSwap(p) PROVE CtxInv'
  BY <1>6 DEF flushSwap, Resliced, Nil
<1>7. ASSUME NEW p \in Procs, encodePacket(p) PROVE CtxInv'
  BY <1>7 DEF encodePacket
<1>8. ASSUME NEW p \in Procs, encodeSend(p) PROVE CtxInv'
  BY <1>8 DEF encodeSend, Batch
<1>9. ASSUME NEW p \in Procs, encodeFails(p) PROVE CtxInv'
  BY <1>9 DEF encodeFails
<1>10. ASSUME NEW p \in Procs, flushClear(p) PROVE CtxInv'
  BY <1>10 DEF flushClear
<1>11. ASSUME NEW p \in Procs, flushKeepSpare(p) PROVE CtxInv'
  BY <1>11 DEF flushKeepSpare, FlushReturns, Resliced, Nil
<1>12. ASSUME NEW p \in Procs, close(p) PROVE CtxInv'
  BY <1>12 DEF close
<1>13. ASSUME NEW p \in Procs, closeWaits(p) PROVE CtxInv'
  BY <1>13 DEF closeWaits, CloseReturns
<1>14. ASSUME NEW p \in Procs, closeCancel(p) PROVE CtxInv'
  BY <1>14 DEF closeCancel
<1>15. ASSUME NEW p \in Procs, closeConn(p) PROVE CtxInv'
  BY <1>15 DEF closeConn, CloseReturns, Closed
<1>16. ASSUME NEW p \in Procs, closeTransport(p) PROVE CtxInv'
  BY <1>16 DEF closeTransport
<1>17. ASSUME NEW p \in Procs, closeTransportConn(p) PROVE CtxInv'
  BY <1>17 DEF closeTransportConn, Closed
<1>18. ASSUME NEW p \in Procs, tick(p) PROVE CtxInv'
  BY <1>18 DEF tick
<1>19. ASSUME NEW p \in Procs, writeSettings(p) PROVE CtxInv'
  BY <1>19 DEF writeSettings
<1>20. ASSUME NEW p \in Procs, bufferSettings(p) PROVE CtxInv'
  BY <1>20 DEF bufferSettings
<1>21. ASSUME NEW p \in Procs, switchFormat(p) PROVE CtxInv'
  BY <1>21 DEF switchFormat
<1>22. ASSUME NEW p \in Procs, NEW op \in Ops, Call(p, op) PROVE CtxInv'
  BY <1>22 DEF Call, Ops
<1>23. CASE TransportLost
  BY <1>23 DEF TransportLost
<1>24. CASE TransportContextDone
  BY <1>24 DEF TransportContextDone
<1>25. CASE UNCHANGED vars
  BY <1>25 DEF vars
<1> QED BY <1>1, <1>2, <1>3, <1>4, <1>5, <1>6, <1>7, <1>8, <1>9, <1>10, <1>11, <1>12, <1>13,
           <1>14, <1>15, <1>16, <1>17, <1>18, <1>19, <1>20, <1>21, <1>22, <1>23, <1>24, <1>25
       DEF Next, Step

(* Goroutines come to the parts of the code they are said to. *)
LEMMA CallStep == ASSUME SendInv, [Next]_vars PROVE CallInv'
<1> USE DEF SendInv, TypeOK, BufTypeOK, ConnTypeOK, FormatTypeOK, ProcTypeOK, CallInv, OrderInv,
            Goto, bufVars, connVars, formatVars
<1>1. ASSUME NEW p \in Procs, WritePacket(p) PROVE CallInv'
  BY <1>1 DEF WritePacket
<1>2. ASSUME NEW p \in Procs, Write(p) PROVE CallInv'
  BY <1>2, Buffered DEF Write
<1>3. ASSUME NEW p \in Procs, Flush(p) PROVE CallInv'
  BY <1>3 DEF Flush, FlushReturns
<1>4. ASSUME NEW p \in Procs, flushLock(p) PROVE CallInv'
  BY <1>4 DEF flushLock
<1>5. ASSUME NEW p \in Procs, flushNothing(p) PROVE CallInv'
  BY <1>5 DEF flushNothing, FlushReturns
<1>6. ASSUME NEW p \in Procs, flushSwap(p) PROVE CallInv'
  BY <1>6 DEF flushSwap, Resliced, Nil
<1>7. ASSUME NEW p \in Procs, encodePacket(p) PROVE CallInv'
  BY <1>7 DEF encodePacket
<1>8. ASSUME NEW p \in Procs, encodeSend(p) PROVE CallInv'
  BY <1>8 DEF encodeSend, Batch
<1>9. ASSUME NEW p \in Procs, encodeFails(p) PROVE CallInv'
  BY <1>9 DEF encodeFails
<1>10. ASSUME NEW p \in Procs, flushClear(p) PROVE CallInv'
  BY <1>10 DEF flushClear
<1>11. ASSUME NEW p \in Procs, flushKeepSpare(p) PROVE CallInv'
  BY <1>11 DEF flushKeepSpare, FlushReturns, Resliced, Nil
<1>12. ASSUME NEW p \in Procs, close(p) PROVE CallInv'
  BY <1>12 DEF close
<1>13. ASSUME NEW p \in Procs, closeWaits(p) PROVE CallInv'
  BY <1>13 DEF closeWaits, CloseReturns
<1>14. ASSUME NEW p \in Procs, closeCancel(p) PROVE CallInv'
  BY <1>14 DEF closeCancel
<1>15. ASSUME NEW p \in Procs, closeConn(p) PROVE CallInv'
  BY <1>15 DEF closeConn, CloseReturns, Closed
<1>16. ASSUME NEW p \in Procs, closeTransport(p) PROVE CallInv'
  BY <1>16 DEF closeTransport
<1>17. ASSUME NEW p \in Procs, closeTransportConn(p) PROVE CallInv'
  BY <1>17 DEF closeTransportConn, Closed
<1>18. ASSUME NEW p \in Procs, tick(p) PROVE CallInv'
  BY <1>18 DEF tick
<1>19. ASSUME NEW p \in Procs, writeSettings(p) PROVE CallInv'
  BY <1>19 DEF writeSettings
<1>20. ASSUME NEW p \in Procs, bufferSettings(p) PROVE CallInv'
  BY <1>20, Buffered DEF bufferSettings
<1>21. ASSUME NEW p \in Procs, switchFormat(p) PROVE CallInv'
  BY <1>21 DEF switchFormat
<1>22. ASSUME NEW p \in Procs, NEW op \in Ops, Call(p, op) PROVE CallInv'
  BY <1>22 DEF Call, Ops
<1>23. CASE TransportLost
  BY <1>23 DEF TransportLost
<1>24. CASE TransportContextDone
  BY <1>24 DEF TransportContextDone
<1>25. CASE UNCHANGED vars
  BY <1>25 DEF vars
<1> QED BY <1>1, <1>2, <1>3, <1>4, <1>5, <1>6, <1>7, <1>8, <1>9, <1>10, <1>11, <1>12, <1>13,
           <1>14, <1>15, <1>16, <1>17, <1>18, <1>19, <1>20, <1>21, <1>22, <1>23, <1>24, <1>25
       DEF Next, Step

(* A packet that is buffered joins the send buffer behind all others. *)
LEMMA Joined ==
  ASSUME SendInv, bufferPacket, UNCHANGED <<encVars, transport>>,
         Detaching' = Detaching, Encoding' = Encoding, Encoding => pc'[encMu] = pc[encMu]
  PROVE  SliceInv' /\ OrderInv'
<1>1. /\ written' = written + 1 /\ written \in Nat
      /\ send' \in Slices /\ send'.len = send.len + 1 /\ send.len \in Nat
      /\ send'.arr \in Arrays /\ send'.arr # spare'.arr /\ send'.arr # toSend.arr /\ spare' = spare
      /\ heap' \in [Arrays -> [Slots -> 0 .. written']]
      /\ heap'[send'.arr][send'.len] = written'
      /\ \A j \in 1 .. send.len : heap'[send'.arr][j] = heap[send.arr][j]
      /\ \A a \in Arrays \ {send'.arr} : heap'[a] = heap[a]
  BY Buffered DEF SendInv, TypeOK, BufTypeOK, OrderInv, Slices
<1>2. toSend' = toSend /\ buf' = buf /\ encMu' = encMu /\ wire' = wire /\ transport' = transport
  BY DEF encVars
<1>3. Detaching => toSend.arr \in Arrays /\ heap'[toSend.arr] = heap[toSend.arr]
  BY <1>1 DEF SendInv, SliceInv
<1>4. Encoding => Detaching
  BY DEF Encoding, Detaching
<1>5. SliceInv'
  <2>1. \A i \in DOMAIN buf : Encoding
    BY DEF SendInv, SliceInv
  <2>2. \A i \in DOMAIN buf' : buf'[i] = heap'[toSend'.arr][i]
    BY <1>2, <1>3, <1>4, <2>1 DEF SendInv, SliceInv
  <2> QED BY <1>1, <1>2, <2>2 DEF SendInv, SliceInv
<1>6. OrderInv'
  <2>1. ASSUME NEW i \in 1 .. send'.len, transport = "open"
        PROVE  heap'[send'.arr][i] = written' - send'.len + i
    <3>1. CASE i = send'.len
      BY <1>1, <3>1
    <3>2. CASE i # send'.len
      <4>1. i \in 1 .. send.len
        BY <1>1, <3>2
      <4>2. heap[send.arr][i] = written - send.len + i
        BY <2>1, <4>1 DEF SendInv, OrderInv
      <4> QED BY <1>1, <4>1, <4>2
    <3> QED BY <3>1, <3>2
  <2>2. Encoding /\ transport = "open" =>
          \A i \in 1 .. toSend.len : heap'[toSend.arr][i] = Len(wire) + i
    BY <1>3, <1>4 DEF SendInv, OrderInv
  <2>3. /\ Len(wire) <= written' /\ \A i \in DOMAIN wire : wire[i].packet = i
        /\ transport = "open" =>
             Len(wire) + (IF Encoding THEN toSend.len ELSE 0) + send'.len = written'
    <3> DEFINE n == IF Encoding THEN toSend.len ELSE 0
    <3>1. Len(wire) \in Nat /\ n \in Nat
      BY DEF SendInv, TypeOK, EncTypeOK, Slices
    <3>2. /\ Len(wire) <= written /\ \A i \in DOMAIN wire : wire[i].packet = i
          /\ transport = "open" => Len(wire) + n + send.len = written
      BY DEF SendInv, OrderInv
    <3> HIDE DEF n
    <3>3. Len(wire) <= written' /\ (transport = "open" => Len(wire) + n + send'.len = written')
      BY <1>1, <3>1, <3>2
    <3> QED BY <3>2, <3>3 DEF n
  <2> QED BY <1>1, <1>2, <2>1, <2>2, <2>3 DEF OrderInv
<1> QED BY <1>5, <1>6

(* Arrays are handed on from the send buffer to Encode to the spare buffer. *)
LEMMA SliceStep == ASSUME SendInv, [Next]_vars PROVE SliceInv'
<1> USE DEF SendInv, TypeOK, BufTypeOK, EncTypeOK, ProcTypeOK, Slices, LockInv, Holding,
            SliceInv, Detaching, Encoding, Goto, bufVars, encVars, connVars
<1>1. ASSUME NEW p \in Procs, WritePacket(p) PROVE SliceInv'
  BY <1>1 DEF WritePacket
<1>2. ASSUME NEW p \in Procs, Write(p) PROVE SliceInv'
  <2>1. UNCHANGED <<encVars, transport>> /\ bufferPacket
    BY <1>2 DEF Write
  <2>2. Detaching' = Detaching /\ Encoding' = Encoding /\ (Encoding => pc'[encMu] = pc[encMu])
    BY <1>2 DEF Write
  <2> QED BY <2>1, <2>2, Joined
<1>3. ASSUME NEW p \in Procs, Flush(p) PROVE SliceInv'
  BY <1>3 DEF Flush, FlushReturns
<1>4. ASSUME NEW p \in Procs, flushLock(p) PROVE SliceInv'
  BY <1>4 DEF flushLock
<1>5. ASSUME NEW p \in Procs, flushNothing(p) PROVE SliceInv'
  BY <1>5 DEF flushNothing, FlushReturns
<1>6. ASSUME NEW p \in Procs, flushSwap(p) PROVE SliceInv'
  BY <1>6 DEF flushSwap, Resliced, Nil
<1>7. ASSUME NEW p \in Procs, encodePacket(p) PROVE SliceInv'
  BY <1>7 DEF encodePacket
<1>8. ASSUME NEW p \in Procs, encodeSend(p) PROVE SliceInv'
  BY <1>8 DEF encodeSend, Batch
<1>9. ASSUME NEW p \in Procs, encodeFails(p) PROVE SliceInv'
  BY <1>9 DEF encodeFails
<1>10. ASSUME NEW p \in Procs, flushClear(p) PROVE SliceInv'
  BY <1>10 DEF flushClear
<1>11. ASSUME NEW p \in Procs, flushKeepSpare(p) PROVE SliceInv'
  BY <1>11 DEF flushKeepSpare, FlushReturns, Resliced, Nil
<1>12. ASSUME NEW p \in Procs, close(p) PROVE SliceInv'
  BY <1>12 DEF close
<1>13. ASSUME NEW p \in Procs, closeWaits(p) PROVE SliceInv'
  BY <1>13 DEF closeWaits, CloseReturns
<1>14. ASSUME NEW p \in Procs, closeCancel(p) PROVE SliceInv'
  BY <1>14 DEF closeCancel
<1>15. ASSUME NEW p \in Procs, closeConn(p) PROVE SliceInv'
  BY <1>15 DEF closeConn, CloseReturns, Closed
<1>16. ASSUME NEW p \in Procs, closeTransport(p) PROVE SliceInv'
  BY <1>16 DEF closeTransport
<1>17. ASSUME NEW p \in Procs, closeTransportConn(p) PROVE SliceInv'
  BY <1>17 DEF closeTransportConn, Closed
<1>18. ASSUME NEW p \in Procs, tick(p) PROVE SliceInv'
  BY <1>18 DEF tick
<1>19. ASSUME NEW p \in Procs, writeSettings(p) PROVE SliceInv'
  BY <1>19 DEF writeSettings
<1>20. ASSUME NEW p \in Procs, bufferSettings(p) PROVE SliceInv'
  <2>1. UNCHANGED <<encVars, transport>> /\ bufferPacket
    BY <1>20 DEF bufferSettings
  <2>2. Detaching' = Detaching /\ Encoding' = Encoding /\ (Encoding => pc'[encMu] = pc[encMu])
    BY <1>20 DEF bufferSettings
  <2> QED BY <2>1, <2>2, Joined
<1>21. ASSUME NEW p \in Procs, switchFormat(p) PROVE SliceInv'
  BY <1>21 DEF switchFormat
<1>22. ASSUME NEW p \in Procs, NEW op \in Ops, Call(p, op) PROVE SliceInv'
  BY <1>22 DEF Call, Ops
<1>23. CASE TransportLost
  BY <1>23 DEF TransportLost
<1>24. CASE TransportContextDone
  BY <1>24 DEF TransportContextDone
<1>25. CASE UNCHANGED vars
  BY <1>25 DEF vars
<1> QED BY <1>1, <1>2, <1>3, <1>4, <1>5, <1>6, <1>7, <1>8, <1>9, <1>10, <1>11, <1>12, <1>13,
           <1>14, <1>15, <1>16, <1>17, <1>18, <1>19, <1>20, <1>21, <1>22, <1>23, <1>24, <1>25
       DEF Next, Step

(* Packets move from the send buffer to the wire in order. *)
LEMMA OrderStep == ASSUME SendInv, [Next]_vars PROVE OrderInv'
<1> USE DEF SendInv, TypeOK, BufTypeOK, EncTypeOK, ConnTypeOK, ProcTypeOK, Slices, LockInv,
            Holding, SliceInv, OrderInv, Encoding, Detaching, Goto, bufVars, encVars, connVars
<1>1. ASSUME NEW p \in Procs, WritePacket(p) PROVE OrderInv'
  BY <1>1 DEF WritePacket
<1>2. ASSUME NEW p \in Procs, Write(p) PROVE OrderInv'
  <2>1. UNCHANGED <<encVars, transport>> /\ bufferPacket
    BY <1>2 DEF Write
  <2>2. Detaching' = Detaching /\ Encoding' = Encoding /\ (Encoding => pc'[encMu] = pc[encMu])
    BY <1>2 DEF Write
  <2> QED BY <2>1, <2>2, Joined
<1>3. ASSUME NEW p \in Procs, Flush(p) PROVE OrderInv'
  BY <1>3 DEF Flush, FlushReturns
<1>4. ASSUME NEW p \in Procs, flushLock(p) PROVE OrderInv'
  BY <1>4 DEF flushLock
<1>5. ASSUME NEW p \in Procs, flushNothing(p) PROVE OrderInv'
  BY <1>5 DEF flushNothing, FlushReturns
<1>6. ASSUME NEW p \in Procs, flushSwap(p) PROVE OrderInv'
  BY <1>6 DEF flushSwap, Resliced, Nil
<1>7. ASSUME NEW p \in Procs, encodePacket(p) PROVE OrderInv'
  BY <1>7 DEF encodePacket
<1>8. ASSUME NEW p \in Procs, encodeSend(p) PROVE OrderInv'
  <2>1. /\ encMu = p /\ Encoding /\ transport = "open" /\ ~Encoding'
        /\ UNCHANGED <<bufVars, transport>> /\ Len(buf) = toSend.len /\ Len(wire') = Len(wire) + Len(buf)
    BY <1>8, Sent DEF encodeSend
  <2>2. ASSUME NEW i \in DOMAIN wire' PROVE wire'[i].packet = i
    <3>1. CASE i <= Len(wire)
      BY <1>8, <2>2, <3>1, Sent, SMTT(40)
    <3>2. CASE i > Len(wire)
      <4>1. i - Len(wire) \in DOMAIN buf /\ wire'[i].packet = buf[i - Len(wire)] /\ i \in Nat
        BY <1>8, <2>2, <3>2, Sent
      <4>2. i - Len(wire) \in 1 .. toSend.len
        BY <2>1, <4>1
      <4>3. heap[toSend.arr][i - Len(wire)] = Len(wire) + (i - Len(wire))
        BY <2>1, <4>2
      <4> QED BY <4>1, <4>3
    <3> QED BY <2>2, <3>1, <3>2, Sent, <1>8
  <2> QED BY <2>1, <2>2
<1>9. ASSUME NEW p \in Procs, encodeFails(p) PROVE OrderInv'
  BY <1>9 DEF encodeFails
<1>10. ASSUME NEW p \in Procs, flushClear(p) PROVE OrderInv'
  BY <1>10 DEF flushClear
<1>11. ASSUME NEW p \in Procs, flushKeepSpare(p) PROVE OrderInv'
  BY <1>11 DEF flushKeepSpare, FlushReturns, Resliced, Nil
<1>12. ASSUME NEW p \in Procs, close(p) PROVE OrderInv'
  BY <1>12 DEF close
<1>13. ASSUME NEW p \in Procs, closeWaits(p) PROVE OrderInv'
  BY <1>13 DEF closeWaits, CloseReturns
<1>14. ASSUME NEW p \in Procs, closeCancel(p) PROVE OrderInv'
  BY <1>14 DEF closeCancel
<1>15. ASSUME NEW p \in Procs, closeConn(p) PROVE OrderInv'
  BY <1>15 DEF closeConn, CloseReturns, Closed
<1>16. ASSUME NEW p \in Procs, closeTransport(p) PROVE OrderInv'
  BY <1>16 DEF closeTransport
<1>17. ASSUME NEW p \in Procs, closeTransportConn(p) PROVE OrderInv'
  BY <1>17 DEF closeTransportConn, Closed
<1>18. ASSUME NEW p \in Procs, tick(p) PROVE OrderInv'
  BY <1>18 DEF tick
<1>19. ASSUME NEW p \in Procs, writeSettings(p) PROVE OrderInv'
  BY <1>19 DEF writeSettings
<1>20. ASSUME NEW p \in Procs, bufferSettings(p) PROVE OrderInv'
  <2>1. UNCHANGED <<encVars, transport>> /\ bufferPacket
    BY <1>20 DEF bufferSettings
  <2>2. Detaching' = Detaching /\ Encoding' = Encoding /\ (Encoding => pc'[encMu] = pc[encMu])
    BY <1>20 DEF bufferSettings
  <2> QED BY <2>1, <2>2, Joined
<1>21. ASSUME NEW p \in Procs, switchFormat(p) PROVE OrderInv'
  BY <1>21 DEF switchFormat
<1>22. ASSUME NEW p \in Procs, NEW op \in Ops, Call(p, op) PROVE OrderInv'
  BY <1>22 DEF Call, Ops
<1>23. CASE TransportLost
  BY <1>23 DEF TransportLost
<1>24. CASE TransportContextDone
  BY <1>24 DEF TransportContextDone
<1>25. CASE UNCHANGED vars
  BY <1>25 DEF vars
<1> QED BY <1>1, <1>2, <1>3, <1>4, <1>5, <1>6, <1>7, <1>8, <1>9, <1>10, <1>11, <1>12, <1>13,
           <1>14, <1>15, <1>16, <1>17, <1>18, <1>19, <1>20, <1>21, <1>22, <1>23, <1>24, <1>25
       DEF Next, Step

(* A flush takes what it has to. *)
LEMMA FlushStep == ASSUME SendInv, [Next]_vars PROVE FlushInv'
<1> USE DEF SendInv, TypeOK, BufTypeOK, EncTypeOK, ConnTypeOK, FormatTypeOK, ProcTypeOK, Slices,
            LockInv, Holding, SliceInv, OrderInv, Encoding, Detaching, CallInv, FlushInv, Due,
            Goto, bufVars, encVars, connVars, formatVars
<1>1. ASSUME NEW p \in Procs, WritePacket(p) PROVE FlushInv'
  BY <1>1, SMTT(40) DEF WritePacket
<1>2. ASSUME NEW p \in Procs, Write(p) PROVE FlushInv'
  BY <1>2, Buffered, SMTT(40) DEF Write
<1>3. ASSUME NEW p \in Procs, Flush(p) PROVE FlushInv'
  BY <1>3, SMTT(40) DEF Flush, FlushReturns
<1>4. ASSUME NEW p \in Procs, flushLock(p) PROVE FlushInv'
  BY <1>4 DEF flushLock
<1>5. ASSUME NEW p \in Procs, flushNothing(p) PROVE FlushInv'
  BY <1>5 DEF flushNothing, FlushReturns
<1>6. ASSUME NEW p \in Procs, flushSwap(p) PROVE FlushInv'
  BY <1>6 DEF flushSwap, Resliced, Nil
<1>7. ASSUME NEW p \in Procs, encodePacket(p) PROVE FlushInv'
  BY <1>7 DEF encodePacket
<1>8. ASSUME NEW p \in Procs, encodeSend(p) PROVE FlushInv'
  BY <1>8, SMTT(40) DEF encodeSend, Batch
<1>9. ASSUME NEW p \in Procs, encodeFails(p) PROVE FlushInv'
  BY <1>9 DEF encodeFails
<1>10. ASSUME NEW p \in Procs, flushClear(p) PROVE FlushInv'
  BY <1>10 DEF flushClear
<1>11. ASSUME NEW p \in Procs, flushKeepSpare(p) PROVE FlushInv'
  BY <1>11 DEF flushKeepSpare, FlushReturns, Resliced, Nil
<1>12. ASSUME NEW p \in Procs, close(p) PROVE FlushInv'
  BY <1>12 DEF close
<1>13. ASSUME NEW p \in Procs, closeWaits(p) PROVE FlushInv'
  BY <1>13 DEF closeWaits, CloseReturns
<1>14. ASSUME NEW p \in Procs, closeCancel(p) PROVE FlushInv'
  BY <1>14 DEF closeCancel
<1>15. ASSUME NEW p \in Procs, closeConn(p) PROVE FlushInv'
  BY <1>15 DEF closeConn, CloseReturns, Closed
<1>16. ASSUME NEW p \in Procs, closeTransport(p) PROVE FlushInv'
  BY <1>16 DEF closeTransport
<1>17. ASSUME NEW p \in Procs, closeTransportConn(p) PROVE FlushInv'
  BY <1>17 DEF closeTransportConn, Closed
<1>18. ASSUME NEW p \in Procs, tick(p) PROVE FlushInv'
  BY <1>18, SMTT(40) DEF tick
<1>19. ASSUME NEW p \in Procs, writeSettings(p) PROVE FlushInv'
  BY <1>19 DEF writeSettings
<1>20. ASSUME NEW p \in Procs, bufferSettings(p) PROVE FlushInv'
  BY <1>20, Buffered DEF bufferSettings
<1>21. ASSUME NEW p \in Procs, switchFormat(p) PROVE FlushInv'
  BY <1>21 DEF switchFormat
<1>22. ASSUME NEW p \in Procs, NEW op \in Ops, Call(p, op) PROVE FlushInv'
  BY <1>22 DEF Call, Ops
<1>23. CASE TransportLost
  BY <1>23 DEF TransportLost
<1>24. CASE TransportContextDone
  BY <1>24 DEF TransportContextDone
<1>25. CASE UNCHANGED vars
  BY <1>25 DEF vars
<1> QED BY <1>1, <1>2, <1>3, <1>4, <1>5, <1>6, <1>7, <1>8, <1>9, <1>10, <1>11, <1>12, <1>13,
           <1>14, <1>15, <1>16, <1>17, <1>18, <1>19, <1>20, <1>21, <1>22, <1>23, <1>24, <1>25
       DEF Next, Step

(* The format changes when the announcement has left. *)
LEMMA FormatStep == ASSUME SendInv, [Next]_vars PROVE FormatInv'
<1> USE DEF SendInv, TypeOK, BufTypeOK, EncTypeOK, ConnTypeOK, FormatTypeOK, ProcTypeOK,
            OrderInv, CallInv, FlushInv, Due, FormatInv, FormatFollowsSettings, Goto, bufVars,
            encVars, connVars, formatVars
<1>1. ASSUME NEW p \in Procs, WritePacket(p) PROVE FormatInv'
  BY <1>1 DEF WritePacket
<1>2. ASSUME NEW p \in Procs, Write(p) PROVE FormatInv'
  BY <1>2, Buffered DEF Write
<1>3. ASSUME NEW p \in Procs, Flush(p) PROVE FormatInv'
  BY <1>3 DEF Flush, FlushReturns
<1>4. ASSUME NEW p \in Procs, flushLock(p) PROVE FormatInv'
  BY <1>4 DEF flushLock
<1>5. ASSUME NEW p \in Procs, flushNothing(p) PROVE FormatInv'
  BY <1>5 DEF flushNothing, FlushReturns
<1>6. ASSUME NEW p \in Procs, flushSwap(p) PROVE FormatInv'
  BY <1>6 DEF flushSwap, Resliced, Nil
<1>7. ASSUME NEW p \in Procs, encodePacket(p) PROVE FormatInv'
  BY <1>7 DEF encodePacket
<1>8. ASSUME NEW p \in Procs, encodeSend(p) PROVE FormatInv'
  <2>1. /\ transport = "open" /\ UNCHANGED <<connVars, formatVars, bufVars>>
        /\ Len(wire) \in Nat /\ Len(buf) \in Nat
    BY <1>8 DEF encodeSend
  <2>2. Len(wire') = Len(wire) + Len(buf)
    BY <1>8, Sent
  <2>3. \A i \in DOMAIN wire' : wire'[i].packet = i
    BY <1>8, OrderStep
  <2>4. \A i \in DOMAIN wire' :
          /\ i <= Len(wire) => i \in DOMAIN wire /\ wire'[i] = wire[i]
          /\ i > Len(wire) => wire'[i].format = format
    BY <1>8, Sent, SMTT(40)
  <2>5. FormatFollowsSettings'
    <3> SUFFICES ASSUME ~ctxDone, NEW i \in DOMAIN wire'
                 PROVE  /\ i <= settings => wire'[i].format = "raw"
                        /\ switchedAt >= 0 /\ i > switchedAt => wire'[i].format = "compressed"
      BY <2>1, <2>3
    <3>1. i \in Nat
      BY <1>8, Sent, SMTT(40)
    <3>2. CASE i <= Len(wire)
      <4>1. i \in DOMAIN wire /\ wire'[i] = wire[i] /\ wire[i].packet = i
        BY <2>4, <3>2
      <4>2. /\ wire[i].packet <= settings => wire[i].format = "raw"
            /\ switchedAt >= 0 /\ wire[i].packet > switchedAt => wire[i].format = "compressed"
        BY <4>1
      <4> HIDE DEF SendInv
      <4> QED BY <4>1, <4>2
    <3>3. CASE i > Len(wire)
      BY <2>1, <2>4, <3>1, <3>3
    <3> QED BY <2>1, <3>1, <3>2, <3>3
  <2> QED BY <2>1, <2>4, <2>5, <2>2, SMTT(40)
<1>9. ASSUME NEW p \in Procs, encodeFails(p) PROVE FormatInv'
  BY <1>9 DEF encodeFails
<1>10. ASSUME NEW p \in Procs, flushClear(p) PROVE FormatInv'
  BY <1>10 DEF flushClear
<1>11. ASSUME NEW p \in Procs, flushKeepSpare(p) PROVE FormatInv'
  BY <1>11 DEF flushKeepSpare, FlushReturns, Resliced, Nil
<1>12. ASSUME NEW p \in Procs, close(p) PROVE FormatInv'
  BY <1>12 DEF close
<1>13. ASSUME NEW p \in Procs, closeWaits(p) PROVE FormatInv'
  BY <1>13 DEF closeWaits, CloseReturns
<1>14. ASSUME NEW p \in Procs, closeCancel(p) PROVE FormatInv'
  BY <1>14 DEF closeCancel
<1>15. ASSUME NEW p \in Procs, closeConn(p) PROVE FormatInv'
  BY <1>15 DEF closeConn, CloseReturns, Closed
<1>16. ASSUME NEW p \in Procs, closeTransport(p) PROVE FormatInv'
  BY <1>16 DEF closeTransport
<1>17. ASSUME NEW p \in Procs, closeTransportConn(p) PROVE FormatInv'
  BY <1>17 DEF closeTransportConn, Closed
<1>18. ASSUME NEW p \in Procs, tick(p) PROVE FormatInv'
  BY <1>18 DEF tick
<1>19. ASSUME NEW p \in Procs, writeSettings(p) PROVE FormatInv'
  BY <1>19 DEF writeSettings
<1>20. ASSUME NEW p \in Procs, bufferSettings(p) PROVE FormatInv'
  BY <1>20, Buffered DEF bufferSettings
<1>21. ASSUME NEW p \in Procs, switchFormat(p) PROVE FormatInv'
  BY <1>21 DEF switchFormat
<1>22. ASSUME NEW p \in Procs, NEW op \in Ops, Call(p, op) PROVE FormatInv'
  BY <1>22 DEF Call, Ops
<1>23. CASE TransportLost
  BY <1>23 DEF TransportLost
<1>24. CASE TransportContextDone
  BY <1>24 DEF TransportContextDone
<1>25. CASE UNCHANGED vars
  BY <1>25 DEF vars
<1> QED BY <1>1, <1>2, <1>3, <1>4, <1>5, <1>6, <1>7, <1>8, <1>9, <1>10, <1>11, <1>12, <1>13,
           <1>14, <1>15, <1>16, <1>17, <1>18, <1>19, <1>20, <1>21, <1>22, <1>23, <1>24, <1>25
       DEF Next, Step

(* A new Conn has empty buffers, and only its own goroutines run. *)
LEMMA SendInit == Init => SendInv
<1> SUFFICES ASSUME Init PROVE SendInv
  OBVIOUS
<1> USE DEF Init, Nil, Empty
<1>1. \A p \in Procs :
        pc[p] \in {"tick", "settings", "idle"} /\ (pc[p] = "settings" <=> p = Handler)
  BY DEF Procs
<1>2. ctxDone \in BOOLEAN /\ panicked \in BOOLEAN /\ ~ctxDone /\ ~panicked
  BY Zenon
<1>3. TypeOK
  <2>1. BufTypeOK
    BY DEF BufTypeOK, Slices, Slots
  <2>2. EncTypeOK /\ FormatTypeOK /\ calls \in 0 .. MaxCalls
    BY DEF EncTypeOK, FormatTypeOK, Slices
  <2>3. ConnTypeOK
    BY <1>2 DEF ConnTypeOK
  <2>4. ProcTypeOK
    BY DEF ProcTypeOK
  <2> QED BY <1>2, <2>1, <2>2, <2>3, <2>4 DEF TypeOK
<1>4. ~Encoding /\ ~Detaching
  BY DEF Encoding, Detaching
<1>5. LockInv /\ SliceInv
  BY <1>1, <1>4 DEF LockInv, SliceInv, Holding
<1>6. OrderInv
  BY <1>4 DEF OrderInv, Slots
<1>7. CtxInv /\ CallInv
  BY <1>1 DEF CtxInv, CallInv
<1>8. FlushInv /\ FormatInv
  BY <1>1 DEF FlushInv, FormatInv, FormatFollowsSettings
<1> QED BY <1>3, <1>5, <1>6, <1>7, <1>8 DEF SendInv

(* The conjunction of the invariants holds in every reachable state. *)
LEMMA SendInductive == Spec => []SendInv
<1>1. SendInv /\ [Next]_vars => SendInv'
  BY TypeStep, LockStep, SliceStep, OrderStep, CtxStep, CallStep, FlushStep,
     FormatStep DEF SendInv
<1> QED BY <1>1, SendInit, PTL DEF Spec

(* Every variable of the sending side keeps its type, and a buffer that is *)
(* put aside for the next flush is empty.                                  *)
THEOREM SendTypes == Spec => []TypeOK
<1>1. SendInv => TypeOK
  BY DEF SendInv
<1> QED BY <1>1, SendInductive, PTL

(* Flush does not panic, whoever closes the transport under it: Close and  *)
(* closeTransport cancel the context first.                                *)
THEOREM FlushSurvives == Spec => []FlushNeverPanics
<1>1. SendInv => FlushNeverPanics
  BY DEF SendInv, CtxInv, FlushNeverPanics
<1> QED BY <1>1, SendInductive, PTL

(* The packets buffered before Close are on the wire when it goes on to    *)
(* cancel the context, whatever others flush meanwhile.                    *)
THEOREM CloseFlushesFirst == Spec => []CloseFlushes
<1>1. SendInv => CloseFlushes
  BY DEF SendInv, TypeOK, EncTypeOK, ConnTypeOK, CallInv, FlushInv, Due, CloseFlushes
<1> QED BY <1>1, SendInductive, PTL

(* The announcement of a format leaves in the old one and what follows the *)
(* switch in the new one, wherever the ticker and the application flush.   *)
THEOREM FormatAnnounced == Spec => []FormatFollowsSettings
<1>1. SendInv => FormatFollowsSettings
  BY DEF SendInv, FormatInv
<1> QED BY <1>1, SendInductive, PTL

------------------------------------------------------------------------------
(* The refinement. *)

(* What a slice holds. *)
LEMMA ContentsOf ==
  ASSUME heap \in [Arrays -> [Slots -> 0 .. written]], written \in Nat,
         NEW s \in Slices, s.arr = NoArray => s.len = 0
  PROVE  /\ Contents(s) \in Seq(0 .. written) /\ Len(Contents(s)) = s.len
         /\ \A i \in 1 .. s.len : Contents(s)[i] = heap[s.arr][i]
<1>1. CASE s.arr = NoArray
  BY <1>1 DEF Contents
<1>2. CASE s.arr # NoArray
  <2>1. s.arr \in Arrays /\ s.len \in 0 .. MaxPackets
    BY <1>2 DEF Slices
  <2>2. heap[s.arr] \in [1 .. MaxPackets -> 0 .. written]
    BY <2>1 DEF Slots
  <2>3. heap[s.arr] \in Seq(0 .. written) /\ Len(heap[s.arr]) = MaxPackets
    BY <2>2
  <2>4. Contents(s) = SubSeq(heap[s.arr], 1, s.len)
    BY <1>2 DEF Contents
  <2> QED BY <2>1, <2>3, <2>4, SubSeqProperties
<1> QED BY <1>1, <1>2

(* The queue of the pipe is the detached buffer and the send buffer. *)
QueueShape ==
  /\ Detached = IF Encoding THEN Contents(toSend) ELSE <<>>
  /\ Detached \in Seq(0 .. written) /\ Len(Detached) = (IF Encoding THEN toSend.len ELSE 0)
  /\ Contents(send) \in Seq(0 .. written) /\ Len(Contents(send)) = send.len
  /\ Encoding => \A i \in 1 .. toSend.len : Detached[i] = heap[toSend.arr][i]
  /\ \A i \in 1 .. send.len : Contents(send)[i] = heap[send.arr][i]
  /\ OnWire \in Seq(0 .. written) /\ Len(OnWire) = Len(wire)

(* It has this shape in every state, before a step and after it. *)
LEMMA QueueIs == SendInv => QueueShape
<1> SUFFICES ASSUME SendInv PROVE QueueShape
  OBVIOUS
<1>1. /\ heap \in [Arrays -> [Slots -> 0 .. written]] /\ written \in Nat
      /\ send \in Slices /\ toSend \in Slices /\ NoArray \notin Arrays
      /\ send.arr = NoArray => send.len = 0
  BY DEF SendInv, TypeOK, BufTypeOK, EncTypeOK, OrderInv, SliceInv
<1>2. (\E p \in Procs : pc[p] \in {"encode", "send"}) <=> Encoding
  BY DEF SendInv, LockInv, Holding, Encoding
<1>3. Detached = IF Encoding THEN Contents(toSend) ELSE <<>>
  BY <1>2 DEF Detached
<1>4. Encoding => toSend.arr # NoArray
  BY <1>1 DEF SendInv, SliceInv, Encoding, Detaching
<1>5. Encoding => /\ Contents(toSend) \in Seq(0 .. written) /\ Len(Contents(toSend)) = toSend.len
                  /\ \A i \in 1 .. toSend.len : Contents(toSend)[i] = heap[toSend.arr][i]
  BY <1>1, <1>4, ContentsOf
<1>6. /\ Contents(send) \in Seq(0 .. written) /\ Len(Contents(send)) = send.len
      /\ \A i \in 1 .. send.len : Contents(send)[i] = heap[send.arr][i]
  BY <1>1, ContentsOf
<1>7. Detached \in Seq(0 .. written) /\ Len(Detached) = (IF Encoding THEN toSend.len ELSE 0)
  <2>1. CASE Encoding
    BY <1>3, <1>5, <2>1
  <2>2. CASE ~Encoding
    BY <1>3, <2>2
  <2> QED BY <2>1, <2>2
<1>8. OnWire \in Seq(0 .. written) /\ Len(OnWire) = Len(wire)
  <2>1. /\ DOMAIN wire = 1 .. Len(wire) /\ Len(wire) \in Nat /\ Len(wire) <= written
        /\ \A i \in DOMAIN wire : wire[i].packet = i
    BY DEF SendInv, TypeOK, EncTypeOK, OrderInv
  <2>2. OnWire = [i \in 1 .. Len(wire) |-> i]
    BY <2>1 DEF OnWire
  <2> QED BY <1>1, <2>1, <2>2
<1> QED BY <1>3, <1>5, <1>6, <1>7, <1>8 DEF QueueShape

LEMMA QueueIsNext == SendInv' => QueueShape'
BY QueueIs, PTL

(* The front of a concatenation, and the rest. *)
LEMMA TakeFront ==
  ASSUME NEW S, NEW d \in Seq(S), NEW c \in Seq(S)
  PROVE  /\ SubSeq(d \o c, 1, Len(d)) = d
         /\ SubSeq(d \o c, Len(d) + 1, Len(d \o c)) = c
         /\ Len(d) <= Len(d \o c)
<1>1. /\ d \o c \in Seq(S) /\ Len(d \o c) = Len(d) + Len(c)
      /\ \A i \in 1 .. Len(d) + Len(c) :
           (d \o c)[i] = IF i <= Len(d) THEN d[i] ELSE c[i - Len(d)]
  BY ConcatProperties
<1>2. Len(d) \in Nat /\ Len(c) \in Nat
  OBVIOUS
<1>3. /\ SubSeq(d \o c, 1, Len(d)) \in Seq(S) /\ Len(SubSeq(d \o c, 1, Len(d))) = Len(d)
      /\ \A i \in 1 .. Len(d) : SubSeq(d \o c, 1, Len(d))[i] = d[i]
  BY <1>1, <1>2
<1>4. /\ SubSeq(d \o c, Len(d) + 1, Len(d) + Len(c)) \in Seq(S)
      /\ Len(SubSeq(d \o c, Len(d) + 1, Len(d) + Len(c))) = Len(c)
      /\ \A i \in 1 .. Len(c) : SubSeq(d \o c, Len(d) + 1, Len(d) + Len(c))[i] = c[i]
  BY <1>1, <1>2
<1>5. SubSeq(d \o c, 1, Len(d)) = d
  BY <1>3, SeqEqual
<1>6. SubSeq(d \o c, Len(d) + 1, Len(d) + Len(c)) = c
  BY <1>4, SeqEqual
<1> QED BY <1>1, <1>2, <1>5, <1>6

(* Appending to the second of two sequences. *)
LEMMA AppendBehind ==
  ASSUME NEW S, NEW d \in Seq(S), NEW c \in Seq(S), NEW x \in S
  PROVE  Append(d \o c, x) = d \o Append(c, x)
<1>1. Append(d \o c, x) = (d \o c) \o <<x>> /\ Append(c, x) = c \o <<x>>
  BY AppendIsConcat, ConcatProperties
<1>2. <<x>> \in Seq(S)
  OBVIOUS
<1> QED BY <1>1, <1>2, ConcatAssociative

(* A step that leaves the buffers and the wire alone. *)
LEMMA Quiet ==
  ASSUME SendInv, SendInv', UNCHANGED <<send, wire, transport>>,
         Encoding' = Encoding, Encoding => UNCHANGED toSend /\ heap'[toSend.arr] = heap[toSend.arr],
         send.arr # NoArray => heap'[send.arr] = heap[send.arr]
  PROVE  UNCHANGED Pipe!pipe
<1>1. Contents(send)' = Contents(send)
  BY DEF Contents
<1>2. Encoding => Contents(toSend)' = Contents(toSend)
  BY DEF Contents
<1>3. Detached' = Detached
  <2>1. Detached = IF Encoding THEN Contents(toSend) ELSE <<>>
    BY QueueIs DEF QueueShape
  <2>2. Detached' = IF Encoding' THEN Contents(toSend)' ELSE <<>>
    BY QueueIsNext DEF QueueShape
  <2> QED BY <1>2, <2>1, <2>2
<1>4. OnWire' = OnWire
  BY DEF OnWire
<1> QED BY <1>1, <1>3, <1>4 DEF Pipe!pipe

(* A packet that is buffered enters the pipe. *)
LEMMA Enters ==
  ASSUME SendInv, SendInv', bufferPacket, UNCHANGED <<encVars, transport>>, Encoding' = Encoding
  PROVE  Pipe!Put
<1> DEFINE x == written + 1
<1>1. /\ x \in Slots /\ written \in Nat /\ written' = x
      /\ send'.len = send.len + 1 /\ send.len \in Nat
      /\ send'.arr \in Arrays /\ send'.arr # toSend.arr
      /\ heap'[send'.arr][send'.len] = written'
      /\ \A j \in 1 .. send.len : heap'[send'.arr][j] = heap[send.arr][j]
      /\ \A a \in Arrays \ {send'.arr} : heap'[a] = heap[a]
  BY Buffered DEF SendInv, TypeOK, BufTypeOK, OrderInv, Slices, Slots
<1>2. QueueShape /\ QueueShape'
  BY QueueIs, QueueIsNext
<1>3. Contents(send)' = Append(Contents(send), x)
  <2>1. Contents(send) \in Seq(0 .. x) /\ Contents(send)' \in Seq(0 .. x)
        /\ Len(Contents(send)) = send.len /\ Len(Contents(send)') = send.len + 1
    <3>1. 0 .. written \subseteq 0 .. x
      BY <1>1
    <3> QED BY <1>1, <1>2, <3>1 DEF QueueShape
  <2>2. /\ Append(Contents(send), x) \in Seq(0 .. x)
        /\ Len(Append(Contents(send), x)) = send.len + 1
        /\ \A i \in 1 .. send.len : Append(Contents(send), x)[i] = Contents(send)[i]
        /\ Append(Contents(send), x)[send.len + 1] = x
    BY <1>1, <2>1, AppendProperties
  <2>3. ASSUME NEW i \in 1 .. send.len + 1
        PROVE  Contents(send)'[i] = Append(Contents(send), x)[i]
    <3>1. Contents(send)'[i] = heap'[send'.arr][i]
      BY <1>1, <1>2 DEF QueueShape
    <3>2. CASE i = send.len + 1
      BY <1>1, <2>2, <3>1, <3>2
    <3>3. CASE i # send.len + 1
      <4>1. i \in 1 .. send.len
        BY <1>1, <3>3
      <4>2. Contents(send)[i] = heap[send.arr][i]
        BY <1>2, <4>1 DEF QueueShape
      <4> QED BY <1>1, <2>2, <3>1, <4>1, <4>2
    <3> QED BY <3>2, <3>3
  <2> QED BY <2>1, <2>2, <2>3, SeqEqual
<1>4. Detached' = Detached
  <2>1. Encoding => Contents(toSend)' = Contents(toSend)
    <3>1. Encoding => toSend.arr \in Arrays
      BY DEF SendInv, SliceInv, Encoding, Detaching
    <3> QED BY <1>1, <3>1 DEF Contents, encVars
  <2> QED BY <1>2, <2>1 DEF QueueShape
<1>5. OnWire' = OnWire
  BY DEF OnWire, encVars
<1>6. Detached \in Seq(0 .. written) /\ Contents(send) \in Seq(0 .. written)
      /\ OnWire \in Seq(0 .. written)
  BY <1>2 DEF QueueShape
<1>7. (Detached \o Contents(send))' = Append(Detached \o Contents(send), x)
  <2>1. Detached \in Seq(0 .. x) /\ Contents(send) \in Seq(0 .. x) /\ x \in 0 .. x
    <3>1. 0 .. written \subseteq 0 .. x
      BY <1>1
    <3> QED BY <1>1, <1>6, <3>1
  <2> QED BY <1>3, <1>4, <2>1, AppendBehind
<1>8. Pipe!Precedes(Detached \o Contents(send), x) /\ Pipe!Precedes(OnWire, x)
  <2>1. Detached \o Contents(send) \in Seq(0 .. written)
    BY <1>6, ConcatProperties
  <2> HIDE DEF x
  <2>2. ASSUME NEW s \in Seq(0 .. written) PROVE \A i \in DOMAIN s : s[i] < x
    BY <1>1, <2>2 DEF x
  <2> QED BY <1>6, <2>1, <2>2 DEF Pipe!Precedes
<1> HIDE DEF x
<1> QED BY <1>1, <1>5, <1>7, <1>8 DEF Pipe!Put

(* The batch leaves the pipe as a whole, whether it is sent or lost. *)
LEMMA Leaves ==
  ASSUME SendInv, SendInv', Encoding, ~Encoding', UNCHANGED <<heap, send>>
  PROVE  /\ Len(Detached) \in 1 .. Len(Detached \o Contents(send))
         /\ Pipe!Leave(Len(Detached))
         /\ SubSeq(Detached \o Contents(send), 1, Len(Detached)) = Detached
<1>1. QueueShape /\ QueueShape'
  BY QueueIs, QueueIsNext
<1>2. Detached \in Seq(0 .. written) /\ Contents(send) \in Seq(0 .. written)
  BY <1>1 DEF QueueShape
<1>3. Len(Detached) \in Nat \ {0}
  BY <1>1, SMTT(40) DEF QueueShape, SendInv, SliceInv, Encoding, Detaching, TypeOK, EncTypeOK, Slices
<1>4. Contents(send)' = Contents(send)
  BY DEF Contents
<1>5. (Detached \o Contents(send))' = Contents(send)
  BY <1>1, <1>2, <1>4, ConcatEmptySeq DEF QueueShape
<1>6. /\ SubSeq(Detached \o Contents(send), 1, Len(Detached)) = Detached
      /\ SubSeq(Detached \o Contents(send), Len(Detached) + 1, Len(Detached \o Contents(send)))
           = Contents(send)
      /\ Len(Detached) <= Len(Detached \o Contents(send))
  BY <1>2, TakeFront
<1>7. Len(Detached \o Contents(send)) \in Nat
  BY <1>2, ConcatProperties
<1>8. Pipe!Leave(Len(Detached))
  BY <1>5, <1>6 DEF Pipe!Leave
<1> QED BY <1>3, <1>6, <1>7, <1>8

(* What arrives with a batch is what was detached. *)
LEMMA Arrives ==
  ASSUME SendInv, SendInv', NEW p \in Procs, encodeSend(p)
  PROVE  OnWire' = OnWire \o Detached
<1>1. QueueShape /\ QueueShape'
  BY QueueIs, QueueIsNext
<1>2. Encoding /\ transport = "open" /\ written' = written /\ Len(wire') = Len(wire) + toSend.len
  BY Sent DEF encodeSend, bufVars
<1>3. /\ OnWire \in Seq(0 .. written) /\ Len(OnWire) = Len(wire)
      /\ Detached \in Seq(0 .. written) /\ Len(Detached) = toSend.len
      /\ OnWire' \in Seq(0 .. written) /\ Len(OnWire') = Len(wire) + toSend.len
  BY <1>1, <1>2 DEF QueueShape
<1>4. Len(wire) \in Nat /\ toSend.len \in Nat
  BY <1>3 DEF SendInv, TypeOK, EncTypeOK, Slices
<1>5. DOMAIN wire = 1 .. Len(wire) /\ DOMAIN wire' = 1 .. Len(wire')
  BY DEF SendInv, TypeOK, EncTypeOK
<1>6. \A i \in 1 .. Len(wire) : OnWire[i] = i
  BY <1>5 DEF OnWire, SendInv, OrderInv
<1>7. \A i \in 1 .. Len(wire') : OnWire'[i] = i
  BY <1>5 DEF OnWire, SendInv, OrderInv
<1>8. \A i \in 1 .. toSend.len : Detached[i] = Len(wire) + i
  BY <1>1, <1>2 DEF QueueShape, SendInv, OrderInv
<1>9. /\ OnWire \o Detached \in Seq(0 .. written)
      /\ Len(OnWire \o Detached) = Len(wire) + toSend.len
      /\ \A i \in 1 .. Len(wire) + toSend.len :
           (OnWire \o Detached)[i] = IF i <= Len(wire) THEN OnWire[i] ELSE Detached[i - Len(wire)]
  BY <1>3, ConcatProperties, SMTT(40)
<1>10. ASSUME NEW i \in 1 .. Len(wire) + toSend.len PROVE OnWire'[i] = (OnWire \o Detached)[i]
  <2>1. OnWire'[i] = i
    BY <1>2, <1>7
  <2>2. CASE i <= Len(wire)
    BY <1>4, <1>6, <1>9, <2>1, <2>2
  <2>3. CASE i > Len(wire)
    <3>1. i - Len(wire) \in 1 .. toSend.len
      BY <1>4, <2>3
    <3>2. Detached[i - Len(wire)] = Len(wire) + (i - Len(wire))
      BY <1>8, <3>1
    <3>3. ~(i <= Len(wire)) /\ Len(wire) + (i - Len(wire)) = i
      BY <1>4, <2>3
    <3>4. (OnWire \o Detached)[i] = Detached[i - Len(wire)]
      BY <1>9, <3>3
    <3> QED BY <2>1, <3>2, <3>3, <3>4, Zenon
  <2>4. i <= Len(wire) \/ i > Len(wire)
    BY <1>4
  <2> QED BY <2>2, <2>3, <2>4, Zenon
<1> QED BY <1>3, <1>9, <1>10, SeqEqual

(* A transport that is closed or lost breaks the pipe, with what is in it. *)
LEMMA Breaks ==
  ASSUME SendInv, SendInv', UNCHANGED <<heap, send, toSend, wire>>, Encoding' = Encoding,
         transport' \in {"closed", "lost"}, transport # "open" => transport' = transport
  PROVE  [Pipe!Next]_(Pipe!pipe)
<1>1. CASE transport # "open"
  BY <1>1, Quiet
<1>2. CASE transport = "open"
  <2>1. QueueShape /\ QueueShape'
    BY QueueIs, QueueIsNext
  <2>2. (Detached \o Contents(send))' = Detached \o Contents(send) /\ OnWire' = OnWire
    BY <2>1 DEF QueueShape, Contents, OnWire
  <2>3. Detached \o Contents(send) \in Seq(0 .. written)
    BY <2>1, ConcatProperties DEF QueueShape
  <2>4. Pipe!Leave(0)
    BY <2>2, <2>3, SubSeqFull DEF Pipe!Leave
  <2>5. Pipe!Break
    BY <1>2, <2>2, <2>4 DEF Pipe!Break
  <2> QED BY <2>5 DEF Pipe!Next
<1> QED BY <1>1, <1>2

(* Every step of the sending side is a step of the pipe, or none. *)
LEMMA PipeStep == ASSUME SendInv, SendInv', [Next]_vars PROVE [Pipe!Next]_(Pipe!pipe)
<1> USE DEF SendInv, LockInv, Holding, Encoding, Goto, bufVars, encVars, connVars, TypeOK,
            ProcTypeOK
<1>1. ASSUME NEW p \in Procs, WritePacket(p) PROVE [Pipe!Next]_(Pipe!pipe)
  <2>1. Encoding' = Encoding /\ UNCHANGED <<heap, send, toSend, wire, transport>>
    BY <1>1 DEF WritePacket
  <2> QED BY <2>1, Quiet
<1>2. ASSUME NEW p \in Procs, Write(p) PROVE [Pipe!Next]_(Pipe!pipe)
  <2>1. Encoding' = Encoding /\ bufferPacket /\ UNCHANGED <<encVars, transport>>
    BY <1>2 DEF Write
  <2> QED BY <2>1, Enters DEF Pipe!Next
<1>3. ASSUME NEW p \in Procs, Flush(p) PROVE [Pipe!Next]_(Pipe!pipe)
  <2>1. Encoding' = Encoding /\ UNCHANGED <<heap, send, toSend, wire, transport>>
    BY <1>3 DEF Flush, FlushReturns
  <2> QED BY <2>1, Quiet
<1>4. ASSUME NEW p \in Procs, flushLock(p) PROVE [Pipe!Next]_(Pipe!pipe)
  <2>1. Encoding' = Encoding /\ UNCHANGED <<heap, send, toSend, wire, transport>>
    BY <1>4 DEF flushLock
  <2> QED BY <2>1, Quiet
<1>5. ASSUME NEW p \in Procs, flushNothing(p) PROVE [Pipe!Next]_(Pipe!pipe)
  <2>1. Encoding' = Encoding /\ UNCHANGED <<heap, send, toSend, wire, transport>>
    BY <1>5 DEF flushNothing, FlushReturns
  <2> QED BY <2>1, Quiet
<1>6. ASSUME NEW p \in Procs, flushSwap(p) PROVE [Pipe!Next]_(Pipe!pipe)
  <2>1. /\ Encoding' /\ ~Encoding /\ UNCHANGED <<heap, wire, transport>>
        /\ toSend' = send /\ send' = Resliced(spare)
    BY <1>6 DEF flushSwap
  <2>2. QueueShape /\ QueueShape'
    BY QueueIs, QueueIsNext
  <2>3. Detached = <<>> /\ Detached' = Contents(send)
    BY <2>1, <2>2 DEF QueueShape, Contents
  <2>4. send'.len = 0
    BY <2>1 DEF Resliced, TypeOK, BufTypeOK
  <2>5. Contents(send)' = <<>>
    BY <2>2, <2>4 DEF QueueShape
  <2>6. Contents(send) \in Seq(0 .. written)
    BY <2>2 DEF QueueShape
  <2>7. (Detached \o Contents(send))' = Detached \o Contents(send)
    BY <2>3, <2>5, <2>6, ConcatEmptySeq
  <2> QED BY <2>1, <2>7 DEF Pipe!pipe, OnWire
<1>7. ASSUME NEW p \in Procs, encodePacket(p) PROVE [Pipe!Next]_(Pipe!pipe)
  <2>1. Encoding' = Encoding /\ UNCHANGED <<heap, send, toSend, wire, transport>>
    BY <1>7 DEF encodePacket
  <2> QED BY <2>1, Quiet
<1>8. ASSUME NEW p \in Procs, encodeSend(p) PROVE [Pipe!Next]_(Pipe!pipe)
  <2>1. ~Encoding' /\ Encoding /\ transport = "open" /\ UNCHANGED <<heap, send, transport>>
    BY <1>8 DEF encodeSend
  <2>2. OnWire' = OnWire \o Detached
    BY <1>8, Arrives
  <2>3. Pipe!Deliver
    BY <2>1, <2>2, Leaves DEF Pipe!Deliver
  <2> QED BY <2>3 DEF Pipe!Next
<1>9. ASSUME NEW p \in Procs, encodeFails(p) PROVE [Pipe!Next]_(Pipe!pipe)
  <2>1. ~Encoding' /\ Encoding /\ transport # "open" /\ UNCHANGED <<heap, send, transport, wire>>
    BY <1>9 DEF encodeFails
  <2>2. Pipe!Lose
    BY <2>1, Leaves DEF Pipe!Lose, OnWire
  <2> QED BY <2>2 DEF Pipe!Next
<1>10. ASSUME NEW p \in Procs, flushClear(p) PROVE [Pipe!Next]_(Pipe!pipe)
  <2>1. ~Encoding' /\ ~Encoding /\ UNCHANGED <<send, wire, transport>> /\ Detaching
    BY <1>10 DEF flushClear, Detaching
  <2>2. send.arr # NoArray => send.arr \in Arrays /\ send.arr # toSend.arr
    BY DEF SliceInv, TypeOK, BufTypeOK, Slices
  <2>3. send.arr # NoArray => heap'[send.arr] = heap[send.arr]
    BY <1>10, <2>2 DEF flushClear, TypeOK, BufTypeOK
  <2> QED BY <2>1, <2>3, Quiet
<1>11. ASSUME NEW p \in Procs, flushKeepSpare(p) PROVE [Pipe!Next]_(Pipe!pipe)
  <2>1. ~Encoding' /\ ~Encoding /\ UNCHANGED <<heap, send, wire, transport>>
    BY <1>11 DEF flushKeepSpare, FlushReturns
  <2> QED BY <2>1, Quiet
<1>12. ASSUME NEW p \in Procs, close(p) PROVE [Pipe!Next]_(Pipe!pipe)
  <2>1. Encoding' = Encoding /\ UNCHANGED <<heap, send, toSend, wire, transport>>
    BY <1>12 DEF close
  <2> QED BY <2>1, Quiet
<1>13. ASSUME NEW p \in Procs, closeWaits(p) PROVE [Pipe!Next]_(Pipe!pipe)
  <2>1. Encoding' = Encoding /\ UNCHANGED <<heap, send, toSend, wire, transport>>
    BY <1>13 DEF closeWaits, CloseReturns
  <2> QED BY <2>1, Quiet
<1>14. ASSUME NEW p \in Procs, closeCancel(p) PROVE [Pipe!Next]_(Pipe!pipe)
  <2>1. Encoding' = Encoding /\ UNCHANGED <<heap, send, toSend, wire, transport>>
    BY <1>14 DEF closeCancel
  <2> QED BY <2>1, Quiet
<1>15. ASSUME NEW p \in Procs, closeConn(p) PROVE [Pipe!Next]_(Pipe!pipe)
  <2>1. /\ Encoding' = Encoding /\ UNCHANGED <<heap, send, toSend, wire>>
        /\ transport' \in {"closed", "lost"} /\ (transport # "open" => transport' = transport)
    BY <1>15 DEF closeConn, CloseReturns, Closed, ConnTypeOK
  <2> QED BY <2>1, Breaks
<1>16. ASSUME NEW p \in Procs, closeTransport(p) PROVE [Pipe!Next]_(Pipe!pipe)
  <2>1. Encoding' = Encoding /\ UNCHANGED <<heap, send, toSend, wire, transport>>
    BY <1>16 DEF closeTransport
  <2> QED BY <2>1, Quiet
<1>17. ASSUME NEW p \in Procs, closeTransportConn(p) PROVE [Pipe!Next]_(Pipe!pipe)
  <2>1. /\ Encoding' = Encoding /\ UNCHANGED <<heap, send, toSend, wire>>
        /\ transport' \in {"closed", "lost"} /\ (transport # "open" => transport' = transport)
    BY <1>17 DEF closeTransportConn, Closed, ConnTypeOK
  <2> QED BY <2>1, Breaks
<1>18. ASSUME NEW p \in Procs, tick(p) PROVE [Pipe!Next]_(Pipe!pipe)
  <2>1. Encoding' = Encoding /\ UNCHANGED <<heap, send, toSend, wire, transport>>
    BY <1>18 DEF tick
  <2> QED BY <2>1, Quiet
<1>19. ASSUME NEW p \in Procs, writeSettings(p) PROVE [Pipe!Next]_(Pipe!pipe)
  <2>1. Encoding' = Encoding /\ UNCHANGED <<heap, send, toSend, wire, transport>>
    BY <1>19 DEF writeSettings
  <2> QED BY <2>1, Quiet
<1>20. ASSUME NEW p \in Procs, bufferSettings(p) PROVE [Pipe!Next]_(Pipe!pipe)
  <2>1. Encoding' = Encoding /\ bufferPacket /\ UNCHANGED <<encVars, transport>>
    BY <1>20 DEF bufferSettings
  <2> QED BY <2>1, Enters DEF Pipe!Next
<1>21. ASSUME NEW p \in Procs, switchFormat(p) PROVE [Pipe!Next]_(Pipe!pipe)
  <2>1. Encoding' = Encoding /\ UNCHANGED <<heap, send, toSend, wire, transport>>
    BY <1>21 DEF switchFormat
  <2> QED BY <2>1, Quiet
<1>22. ASSUME NEW p \in Procs, NEW op \in Ops, Call(p, op) PROVE [Pipe!Next]_(Pipe!pipe)
  <2>1. Encoding' = Encoding /\ UNCHANGED <<heap, send, toSend, wire, transport>>
    BY <1>22 DEF Call, Ops
  <2> QED BY <2>1, Quiet
<1>23. CASE TransportLost
  <2>1. /\ Encoding' = Encoding /\ UNCHANGED <<heap, send, toSend, wire>>
        /\ transport' \in {"closed", "lost"} /\ (transport # "open" => transport' = transport)
    BY <1>23 DEF TransportLost, ConnTypeOK
  <2> QED BY <2>1, Breaks
<1>24. CASE TransportContextDone
  <2>1. Encoding' = Encoding /\ UNCHANGED <<heap, send, toSend, wire, transport>>
    BY <1>24 DEF TransportContextDone
  <2> QED BY <2>1, Quiet
<1>25. CASE UNCHANGED vars
  <2>1. Encoding' = Encoding /\ UNCHANGED <<heap, send, toSend, wire, transport>>
    BY <1>25 DEF vars
  <2> QED BY <2>1, Quiet
<1> QED BY <1>1, <1>2, <1>3, <1>4, <1>5, <1>6, <1>7, <1>8, <1>9, <1>10, <1>11, <1>12, <1>13,
           <1>14, <1>15, <1>16, <1>17, <1>18, <1>19, <1>20, <1>21, <1>22, <1>23, <1>24, <1>25
       DEF Next, Step

(* The sending side is a pipe from WritePacket and Write to the transport: *)
(* with any number of writers, flushes and closes, a packet leaves once    *)
(* and in order, and none is lost while the transport is open.             *)
THEOREM SendingIsPipe == Spec => SendsAsPipe
<1>1. Init => Pipe!Init
  <2> SUFFICES ASSUME Init PROVE Pipe!Init
    OBVIOUS
  <2>1. \A p \in Procs : pc[p] \notin {"encode", "send"}
    BY DEF Init
  <2> QED BY <2>1 DEF Init, Pipe!Init, Detached, Contents, OnWire, Nil
<1>2. SendInv /\ SendInv' /\ [Next]_vars => [Pipe!Next]_(Pipe!pipe)
  BY PipeStep
<1> QED BY <1>1, <1>2, SendInductive, PTL DEF Spec, SendsAsPipe, Pipe!Spec
===============================================================================
