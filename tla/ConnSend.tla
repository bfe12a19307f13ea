------------------------------ MODULE ConnSend ------------------------------
(***************************************************************************)
(* The sending half of a Conn: goroutines buffer packets with WritePacket  *)
(* and Write, Flush swaps the buffer for a spare one and encodes it while  *)
(* writers go on, a ticker flushes, the goroutine that handles the login   *)
(* switches the format of the batches, and Close and closeTransport end    *)
(* the connection under all of them.                                       *)
(*                                                                         *)
(* A packet is the number of packets buffered up to it, so what reaches    *)
(* the peer can be compared with the order of the writes.  The critical    *)
(* sections under sendMu contain no other lock, channel or I/O and are one *)
(* step each; encMu is held over the encoding and the network write.       *)
(***************************************************************************)
EXTENDS Integers, Sequences

CONSTANTS
  Apps,        \* goroutines of the application and of the Listener
  Ticker,      \* the goroutine newConn starts if the flush rate is positive
  Handler,     \* the goroutine that handles packets and changes the format
  Arrays,      \* backing arrays of the two send buffers
  NoArray,     \* the backing array of a nil slice
  Nobody,      \* encMu is free
  MaxPackets,  \* bound on the packets buffered in a behaviour
  MaxCalls     \* bound on the calls the application makes

Procs == Apps \cup {Ticker, Handler}

ASSUME SendAssumption ==
  /\ Ticker \notin Apps /\ Handler \notin Apps /\ Ticker # Handler
  /\ Nobody \notin Procs /\ NoArray \notin Arrays
  /\ MaxPackets \in Nat /\ MaxCalls \in Nat

VARIABLES
  heap,       \* contents of the backing arrays, 0 for nil
  send,       \* Conn.bufferedSend, a slice: its array and length
  spare,      \* Conn.bufferedSendSpare
  toSend,     \* Flush's local toSend, of the holder of encMu
  buf,        \* the packets Encode has copied into its buffer
  encMu,      \* the holder of Conn.encMu
  format,     \* the Encoder's format: raw, or compressed
  ctxDone,    \* conn.ctx is done
  once,       \* Conn.once: none, running, done
  transport,  \* the net.Conn: open, closed by this side, or lost
  wire,       \* the packets written to the net.Conn, with the format of their batch
  pc,         \* per goroutine: program counter
  after,      \* per goroutine: where its call of Flush returns to
  written,    \* packets buffered so far
  calls,      \* calls made so far, for the bound
  closedAt,   \* packets buffered when the call that closes the Conn was made
  settings,   \* the last packet buffered before the change of format...
  switchedAt, \* ...and the packets buffered when it was made, -1 before
  panicked    \* Flush panicked

bufVars == <<heap, send, spare, written>>
encVars == <<toSend, buf, encMu, wire>>
connVars == <<ctxDone, once, transport, closedAt>>
formatVars == <<format, settings, switchedAt>>
vars == <<bufVars, encVars, connVars, formatVars, pc, after, calls, panicked>>

Slots == 1 .. MaxPackets
Empty == [i \in Slots |-> 0]
Nil == [arr |-> NoArray, len |-> 0]
Slices == [arr : Arrays \cup {NoArray}, len : 0 .. MaxPackets]
Resliced(s) == [s EXCEPT !.len = 0]

Batch == [i \in DOMAIN buf |-> [packet |-> buf[i], format |-> format]]
OnWire == [i \in DOMAIN wire |-> wire[i].packet]

Init ==
  /\ heap = [a \in Arrays |-> Empty]
  /\ send = Nil /\ spare = Nil /\ toSend = Nil
  /\ buf = <<>> /\ encMu = Nobody /\ format = "raw"
  /\ ctxDone = FALSE /\ once = "none" /\ transport = "open"
  /\ wire = <<>>
  /\ pc = [p \in Procs |-> CASE p = Ticker -> "tick" [] p = Handler -> "settings" [] OTHER -> "idle"]
  /\ after = [p \in Procs |-> "idle"]
  /\ written = 0 /\ calls = 0 /\ closedAt = 0
  /\ settings = -1 /\ switchedAt = -1
  /\ panicked = FALSE

Goto(p, from, to) ==
  /\ pc[p] = from
  /\ pc' = [pc EXCEPT ![p] = to]

------------------------------------------------------------------------------
(* WritePacket and Write. *)

(* append puts a packet into the array if it has room, or into a larger    *)
(* one; which of the two depends on capacities that are not modelled.      *)
bufferPacket ==
  LET i == send.len + 1 IN
  /\ written < MaxPackets
  /\ i \in Slots
  /\ written' = written + 1
  /\ \/ /\ send.arr # NoArray
        /\ heap' = [heap EXCEPT ![send.arr][i] = written + 1]
        /\ send' = [send EXCEPT !.len = i]
     \/ \E a \in Arrays \ {send.arr, spare.arr, toSend.arr} :
          /\ heap' = [heap EXCEPT ![a] =
               [j \in Slots |-> IF j < i THEN heap[send.arr][j]
                                ELSE IF j = i THEN written + 1 ELSE 0]]
          /\ send' = [arr |-> a, len |-> i]
  /\ UNCHANGED spare

(* The application calls an operation; Write does not look at the context. *)
Call(p, op) ==
  /\ p \in Apps
  /\ calls < MaxCalls
  /\ calls' = calls + 1
  /\ Goto(p, "idle", op)
  /\ after' = [after EXCEPT ![p] = "idle"]
  /\ UNCHANGED <<bufVars, encVars, connVars, formatVars, panicked>>

WritePacket(p) ==
  /\ Goto(p, "write", IF ctxDone THEN "idle" ELSE "append")
  /\ UNCHANGED <<bufVars, encVars, connVars, formatVars, after, calls, panicked>>

Write(p) ==
  /\ Goto(p, "append", "idle")
  /\ bufferPacket
  /\ UNCHANGED <<encVars, connVars, formatVars, after, calls, panicked>>

------------------------------------------------------------------------------
(* Flush. *)

(* The ticker closes the Conn when its Flush fails. *)
FlushReturns(p, ok) == IF after[p] = "tick" /\ ~ok THEN "once" ELSE after[p]

(* Mutant: Flush does not look at the context. *)
flushBegins(p) ==
  /\ Goto(p, "flush", "lock")
  /\ UNCHANGED <<bufVars, encVars, connVars, formatVars, after, calls, panicked>>

Flush(p) ==
  /\ Goto(p, "flush", IF ctxDone THEN FlushReturns(p, FALSE) ELSE "lock")
  /\ UNCHANGED <<bufVars, encVars, connVars, formatVars, after, calls, panicked>>

flushLock(p) ==
  /\ encMu = Nobody
  /\ encMu' = p
  /\ Goto(p, "lock", "swap")
  /\ UNCHANGED <<bufVars, toSend, buf, wire, connVars, formatVars, after, calls, panicked>>

flushNothing(p) ==
  /\ send.len = 0
  /\ encMu' = Nobody
  /\ Goto(p, "swap", FlushReturns(p, TRUE))
  /\ UNCHANGED <<bufVars, toSend, buf, wire, connVars, formatVars, after, calls, panicked>>

(* Mutant: the array that is being encoded stays the one that is appended  *)
(* to.                                                                     *)
flushReuses(p) ==
  /\ send.len > 0
  /\ toSend' = send
  /\ send' = Resliced(send)
  /\ Goto(p, "swap", "encode")
  /\ UNCHANGED <<heap, spare, written, buf, encMu, wire, connVars, formatVars, after, calls,
                 panicked>>

(* The buffer is detached and the spare one put in its place. *)
flushSwap(p) ==
  /\ send.len > 0
  /\ toSend' = send
  /\ send' = Resliced(spare)
  /\ spare' = Nil
  /\ Goto(p, "swap", "encode")
  /\ UNCHANGED <<heap, written, buf, encMu, wire, connVars, formatVars, after, calls, panicked>>

(* Encode copies the packets one by one... *)
encodePacket(p) ==
  LET i == Len(buf) + 1 IN
  /\ Goto(p, "encode", IF i = toSend.len THEN "send" ELSE "encode")
  /\ buf' = Append(buf, heap[toSend.arr][i])
  /\ UNCHANGED <<bufVars, toSend, encMu, wire, connVars, formatVars, after, calls, panicked>>

(* ...and writes the batch, which may have to wait for the peer. *)
encodeSend(p) ==
  /\ transport = "open"
  /\ wire' = wire \o Batch
  /\ buf' = <<>>
  /\ Goto(p, "send", "clear")
  /\ UNCHANGED <<bufVars, toSend, encMu, connVars, formatVars, after, calls, panicked>>

(* The write fails.  A transport that was lost reports net.ErrClosed, one  *)
(* that this side closed any error, which is ignored only if the context   *)
(* is done.                                                                *)
encodeFails(p) ==
  /\ transport # "open"
  /\ buf' = <<>>
  /\ \E errClosed \in IF transport = "lost" THEN {TRUE} ELSE BOOLEAN :
       /\ panicked' = (panicked \/ (~errClosed /\ ~ctxDone))
       /\ Goto(p, "send", "clear")
  /\ UNCHANGED <<bufVars, toSend, encMu, wire, connVars, formatVars, after, calls>>

(* The references to the packets are dropped... *)
flushClear(p) ==
  /\ Goto(p, "clear", "keep")
  /\ heap' = [heap EXCEPT ![toSend.arr] =
                [j \in Slots |-> IF j <= toSend.len THEN 0 ELSE @[j]]]
  /\ UNCHANGED <<send, spare, written, encVars, connVars, formatVars, after, calls, panicked>>

(* Mutant: the spare buffer keeps its length. *)
flushKeepsLength(p) ==
  /\ spare' = toSend
  /\ toSend' = Nil
  /\ encMu' = Nobody
  /\ Goto(p, "keep", FlushReturns(p, TRUE))
  /\ UNCHANGED <<heap, send, written, buf, wire, connVars, formatVars, after, calls, panicked>>

(* ...and the array becomes the spare one. *)
flushKeepSpare(p) ==
  /\ spare' = Resliced(toSend)
  /\ toSend' = Nil
  /\ encMu' = Nobody
  /\ Goto(p, "keep", FlushReturns(p, TRUE))
  /\ UNCHANGED <<heap, send, written, buf, wire, connVars, formatVars, after, calls, panicked>>

------------------------------------------------------------------------------
(* close and closeTransport. *)

CloseReturns(p) == IF p = Ticker THEN "done" ELSE "idle"

(* Mutant: the Conn is closed without a flush. *)
closeNoFlush(p) ==
  /\ once = "none"
  /\ once' = "running"
  /\ closedAt' = written
  /\ Goto(p, "once", "cancel")
  /\ after' = [after EXCEPT ![p] = "cancel"]
  /\ UNCHANGED <<bufVars, encVars, ctxDone, transport, formatVars, calls, panicked>>

close(p) ==
  /\ once = "none"
  /\ once' = "running"
  /\ closedAt' = written
  /\ Goto(p, "once", "flush")
  /\ after' = [after EXCEPT ![p] = "cancel"]
  /\ UNCHANGED <<bufVars, encVars, ctxDone, transport, formatVars, calls, panicked>>

(* Another call is closing the Conn: once.Do waits for it. *)
closeWaits(p) ==
  /\ once = "done"
  /\ Goto(p, "once", CloseReturns(p))
  /\ UNCHANGED <<bufVars, encVars, connVars, formatVars, after, calls, panicked>>

closeCancel(p) ==
  /\ ctxDone' = TRUE
  /\ Goto(p, "cancel", "shut")
  /\ UNCHANGED <<bufVars, encVars, once, transport, closedAt, formatVars, after, calls, panicked>>

Closed == IF transport = "open" THEN "closed" ELSE transport

closeConn(p) ==
  /\ transport' = Closed
  /\ once' = "done"
  /\ Goto(p, "shut", CloseReturns(p))
  /\ UNCHANGED <<bufVars, encVars, ctxDone, closedAt, formatVars, after, calls, panicked>>

(* Mutant: the context is left to close, which runs after the transport    *)
(* was closed.                                                             *)
killNoCancel(p) ==
  /\ Goto(p, "kill", "killConn")
  /\ UNCHANGED <<bufVars, encVars, connVars, formatVars, after, calls, panicked>>

(* Mutant: closeTransport closes the Conn the way Close does. *)
killCloses(p) ==
  /\ Goto(p, "kill", "once")
  /\ UNCHANGED <<bufVars, encVars, connVars, formatVars, after, calls, panicked>>

(* closeTransport: the context first, then the transport, then close. *)
closeTransport(p) ==
  /\ ctxDone' = TRUE
  /\ Goto(p, "kill", "killConn")
  /\ UNCHANGED <<bufVars, encVars, once, transport, closedAt, formatVars, after, calls, panicked>>

closeTransportConn(p) ==
  /\ transport' = Closed
  /\ Goto(p, "killConn", "once")
  /\ UNCHANGED <<bufVars, encVars, ctxDone, once, closedAt, formatVars, after, calls, panicked>>

(* External: the connection to the peer is lost, and a transport that has  *)
(* a context cancels it, which is the parent of conn.ctx.                  *)
TransportLost ==
  /\ transport = "open"
  /\ transport' = "lost"
  /\ UNCHANGED <<bufVars, encVars, ctxDone, once, closedAt, formatVars, pc, after, calls, panicked>>

TransportContextDone ==
  /\ transport # "open"
  /\ ~ctxDone
  /\ ctxDone' = TRUE
  /\ UNCHANGED <<bufVars, encVars, once, transport, closedAt, formatVars, pc, after, calls, panicked>>

------------------------------------------------------------------------------
(* The flush goroutine and the goroutine that handles the login. *)

tick(p) ==
  /\ Goto(p, "tick", "flush")
  /\ after' = [after EXCEPT ![p] = "tick"]
  /\ UNCHANGED <<bufVars, encVars, connVars, formatVars, calls, panicked>>

writeSettings(p) ==
  /\ Goto(p, "settings", IF ctxDone THEN "idle" ELSE "announce")
  /\ UNCHANGED <<bufVars, encVars, connVars, formatVars, after, calls, panicked>>

(* Mutant: the format changes without a flush. *)
bufferSettingsOnly(p) ==
  /\ Goto(p, "announce", "switch")
  /\ bufferPacket
  /\ settings' = written + 1
  /\ UNCHANGED <<encVars, connVars, format, switchedAt, after, calls, panicked>>

(* NetworkSettings, or ServerToClientHandshake, is written and flushed...  *)
bufferSettings(p) ==
  /\ Goto(p, "announce", "flush")
  /\ bufferPacket
  /\ settings' = written + 1
  /\ after' = [after EXCEPT ![p] = "switch"]
  /\ UNCHANGED <<encVars, connVars, format, switchedAt, calls, panicked>>

(* ...and the encoder switches under encMu; what is written next is in the *)
(* new format.                                                             *)
switchFormat(p) ==
  /\ encMu = Nobody
  /\ format' = "compressed"
  /\ switchedAt' = written
  /\ Goto(p, "switch", "write")
  /\ after' = [after EXCEPT ![p] = "idle"]
  /\ UNCHANGED <<bufVars, encVars, connVars, settings, calls, panicked>>

------------------------------------------------------------------------------
(* What a goroutine does on its own; encodeSend needs the peer. *)
Step(p) ==
  \/ WritePacket(p) \/ Write(p)
  \/ Flush(p) \/ flushLock(p) \/ flushNothing(p) \/ flushSwap(p)
  \/ encodePacket(p) \/ encodeFails(p) \/ flushClear(p) \/ flushKeepSpare(p)
  \/ close(p) \/ closeWaits(p) \/ closeCancel(p) \/ closeConn(p)
  \/ closeTransport(p) \/ closeTransportConn(p)
  \/ tick(p) \/ writeSettings(p) \/ bufferSettings(p) \/ switchFormat(p)

(* Where Write, WritePacket, Flush, Close and closeTransport begin. *)
Ops == {"append", "write", "flush", "once", "kill"}

Next ==
  \/ \E p \in Procs : Step(p) \/ encodeSend(p) \/ \E op \in Ops : Call(p, op)
  \/ TransportLost \/ TransportContextDone

Spec == Init /\ [][Next]_vars

(* Goroutines that can run do, and the ticker ticks.  Nothing is assumed   *)
(* of the peer, of the transport and of the application.  encMu is a Go    *)
(* mutex, which does not starve its waiters.                               *)
FairSpec ==
  /\ Spec
  /\ \A p \in Procs : WF_vars(Step(p)) /\ SF_vars(flushLock(p))

------------------------------------------------------------------------------
(* Properties. *)

BufTypeOK ==
  /\ heap \in [Arrays -> [Slots -> 0 .. MaxPackets]]
  /\ send \in Slices /\ spare \in [arr : Arrays \cup {NoArray}, len : {0}]
  /\ written \in 0 .. MaxPackets

EncTypeOK ==
  /\ toSend \in Slices
  /\ buf \in Seq(0 .. MaxPackets)
  /\ encMu \in Procs \cup {Nobody}
  /\ wire \in Seq([packet : 0 .. MaxPackets, format : {"raw", "compressed"}])

ConnTypeOK ==
  /\ ctxDone \in BOOLEAN /\ once \in {"none", "running", "done"}
  /\ transport \in {"open", "closed", "lost"}
  /\ closedAt \in 0 .. MaxPackets

FormatTypeOK ==
  /\ format \in {"raw", "compressed"}
  /\ settings \in -1 .. MaxPackets /\ switchedAt \in -1 .. MaxPackets

ProcTypeOK ==
  /\ pc \in [Procs -> {"idle", "write", "append", "flush", "lock", "swap", "encode", "send",
                       "clear", "keep", "once", "cancel", "shut", "kill", "killConn", "tick",
                       "done", "settings", "announce", "switch"}]
  /\ after \in [Procs -> {"idle", "tick", "cancel", "switch"}]

(* Every variable keeps its type; a spare buffer is empty. *)
TypeOK ==
  /\ BufTypeOK /\ EncTypeOK /\ ConnTypeOK /\ FormatTypeOK /\ ProcTypeOK
  /\ calls \in 0 .. MaxCalls /\ panicked \in BOOLEAN

(* Flush panics on an encoding failure, "should never happen while the     *)
(* connection is open": nor does it when the transport is closed under a   *)
(* flush, because the context is cancelled first.                          *)
FlushNeverPanics == ~panicked

(* Close flushes: when the call that closes the Conn is about to close an  *)
(* intact transport, all packets written before it are on their way.       *)
CloseFlushes ==
  \A p \in Procs :
    pc[p] = "cancel" /\ ~ctxDone /\ transport = "open" => Len(wire) >= closedAt

(* The packet that announces a format still has the old one and whatever   *)
(* is written after the switch has the new one, although the ticker may    *)
(* flush at any moment in between.  Once the Conn is being closed the      *)
(* flush before the switch may have failed, and the peer is not listening. *)
FormatFollowsSettings ==
  ~ctxDone => \A i \in DOMAIN wire :
    /\ wire[i].packet <= settings => wire[i].format = "raw"
    /\ switchedAt >= 0 /\ wire[i].packet > switchedAt => wire[i].format = "compressed"

Contents(s) == IF s.arr = NoArray THEN <<>> ELSE SubSeq(heap[s.arr], 1, s.len)
(* The batch that was detached and is not on the wire. *)
Detached == IF \E p \in Procs : pc[p] \in {"encode", "send"} THEN Contents(toSend) ELSE <<>>

Pipe == INSTANCE PacketPipe WITH
  Packets <- Slots,
  Lossy <- FALSE,
  queue <- Detached \o Contents(send),
  out <- OnWire,
  broken <- transport # "open"

(* The Conn is a pipe from WritePacket and Write to the transport: through *)
(* two buffers that are swapped and reused, a copy in the encoder, format  *)
(* switches and a close, a packet leaves once and in order, and nothing    *)
(* that was accepted is lost while the transport is open.                  *)
SendsAsPipe == Pipe!Spec

(* closeTransport returns although a flush waits for a peer that does not  *)
(* read: the Listener's Close and login timeout rely on it.                *)
KillReturns == \A p \in Apps : pc[p] = "kill" ~> pc[p] = "idle"

(* The flush goroutine of a closed Conn ends. *)
TickerEnds == ctxDone ~> pc[Ticker] = "done"
==============================================================================
