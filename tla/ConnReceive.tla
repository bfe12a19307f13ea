----------------------------- MODULE ConnReceive -----------------------------
(***************************************************************************)
(* The receiving half of a minecraft.Conn: one goroutine decodes batches   *)
(* from the transport (Listener.handleConn or listenConn) and passes each  *)
(* packet to Conn.receive, which closes the Conn, handles the packet or    *)
(* defers it to a FIFO; application goroutines call Read, ReadBytes and    *)
(* ReadPacket, which take packets from the FIFO and park on packetReady, a *)
(* channel of capacity one.                                                *)
(*                                                                         *)
(* A packet is its number of arrival.  Its bytes are those of the pooled   *)
(* batch buffer it was decoded from until they are copied (ensureOwned).   *)
(***************************************************************************)
EXTENDS Integers, Sequences, FiniteSets

CONSTANTS
  Readers,        \* application goroutines that call the Read methods
  Ops,            \* the Read methods they call: a subset of ReadOps
  NPackets,       \* bound: packets the transport delivers
  MaxBatch,       \* bound: packets of one batch
  MaxDeadlines,   \* bound: calls of SetReadDeadline
  AdditionalCap,  \* capacity of Conn.additional (16 in newConn)
  MaxConverted    \* bound: packets Protocol.ConvertToLatest makes of one

ReadOps == {"Read", "ReadPacket"}

ASSUME ConstantsAssumption ==
  /\ Ops \subseteq ReadOps
  /\ NPackets \in Nat /\ MaxBatch \in Nat \ {0} /\ MaxDeadlines \in Nat
  /\ AdditionalCap \in Nat /\ MaxConverted \in Nat \ {0}

VARIABLES
  arrived,          \* number of packets that arrived so far
  batch,            \* packets of the batch being dispatched by DecodeFunc
  pool,             \* generation of the pooled batch buffer
  receiver,         \* program counter of the receiving goroutine
  handling,         \* ~(conn.loggedIn /\ ~conn.waitingForSpawn)
  closed,           \* conn.ctx is done
  deferredPackets,  \* the FIFO of packets for the application
  packetReady,      \* the channel of capacity one holds a value
  additional,       \* channel of packets converted but not yet returned
  deadlines,        \* state of each channel conn.readDeadline ever held
  readDeadline,     \* the channel conn.readDeadline holds
  reader,           \* [Readers -> call of the goroutine]
  delivered,        \* history: what the calls returned, in order
  returned          \* history: the packets of which a call returned the first conversion

vars == <<arrived, batch, pool, receiver, handling, closed, deferredPackets,
          packetReady, additional, deadlines, readDeadline, reader, delivered,
          returned>>

------------------------------------------------------------------------------
(* Data. *)

(* What Conn.receive distinguishes: a packet whose ID is in expectedIDs,   *)
(* one whose ID is not, a Disconnect, and one that fails to parse or whose *)
(* handler fails.                                                          *)
Kinds == {"expected", "other", "disconnect", "malformed"}

packetData == [id : Nat, kind : Kinds, gen : Nat, owned : BOOLEAN]

Bytes(pk) == IF pk.owned \/ pk.gen = pool THEN pk.id ELSE 0

(* Mutant: the view of the pooled buffer is kept. *)
ensureOwnedBorrowed(pk) == pk

ensureOwned(pk) == [pk EXCEPT !.owned = TRUE]

Channels == 0..MaxDeadlines

(* A reader is outside a call, about to take from the FIFO, about to enter *)
(* the select, parked in it, holding a packet it took, or blocked sending  *)
(* on additional when that channel is full.                                *)
ReaderPCs == {"idle", "take", "enter", "select", "decode", "blocked"}

NoPacket == [id |-> 0, kind |-> "other", gen |-> 0, owned |-> TRUE]
Idle == [pc |-> "idle", op |-> "Read", on |-> 0, pk |-> NoPacket]

InReadPacket(r) == reader[r].pc # "idle" /\ reader[r].op = "ReadPacket"

(* What a call returns: the k-th packet that packet id was converted to. *)
Returned == [op : ReadOps, id : Nat, bytes : Nat, k : Nat]

Init ==
  /\ arrived = 0
  /\ batch = <<>>
  /\ pool = 0
  /\ receiver = "decode"
  /\ handling = TRUE
  /\ closed = FALSE
  /\ deferredPackets = <<>>
  /\ packetReady = FALSE
  /\ additional = <<>>
  /\ deadlines = [c \in Channels |-> "none"]
  /\ readDeadline = 0
  /\ reader = [r \in Readers |-> Idle]
  /\ delivered = <<>> /\ returned = <<>>

------------------------------------------------------------------------------
(* The receiving goroutine. *)

readerVars == <<additional, deadlines, readDeadline, reader, delivered, returned>>

(* DecodeFunc reads a batch into a pooled buffer.  The context is done     *)
(* before the transport is closed, so one may still arrive after that.     *)
DecodeFunc ==
  /\ receiver = "decode"
  /\ \E n \in 1..MaxBatch : \E kinds \in [1..n -> Kinds] :
       /\ arrived + n <= NPackets
       /\ arrived' = arrived + n
       /\ batch' = [i \in 1..n |-> [id |-> arrived + i, kind |-> kinds[i],
                                    gen |-> pool, owned |-> FALSE]]
  /\ receiver' = "receive"
  /\ UNCHANGED <<pool, handling, closed, deferredPackets, packetReady, readerVars>>

(* The batch was walked: its buffer goes back to the pool, for any batch. *)
ReleaseBatch ==
  /\ receiver = "receive"
  /\ batch = <<>>
  /\ pool' = pool + 1
  /\ receiver' = "decode"
  /\ UNCHANGED <<arrived, batch, handling, closed, deferredPackets, packetReady,
                 readerVars>>

(* readBatch fails: the transport was closed by either side.  The deferred *)
(* conn.Close() runs.                                                      *)
DecodeFails ==
  /\ receiver = "decode"
  /\ receiver' = "done"
  /\ closed' = TRUE
  /\ UNCHANGED <<arrived, batch, pool, handling, deferredPackets, packetReady,
                 readerVars>>

(* parseData, decode or a handler returns an error: the rest of the batch  *)
(* is dropped and the goroutine closes the Conn.                           *)
ReceiveFails ==
  /\ receiver = "receive"
  /\ batch # <<>>
  /\ Head(batch).kind = "malformed"
  /\ batch' = <<>>
  /\ pool' = pool + 1
  /\ receiver' = "done"
  /\ closed' = TRUE
  /\ UNCHANGED <<arrived, handling, deferredPackets, packetReady, readerVars>>

(* A Disconnect packet closes the Conn with its message; the batch goes on. *)
ReceiveDisconnect ==
  /\ receiver = "receive"
  /\ batch # <<>>
  /\ Head(batch).kind = "disconnect"
  /\ closed' = TRUE
  /\ batch' = Tail(batch)
  /\ UNCHANGED <<arrived, pool, receiver, handling, deferredPackets, packetReady,
                 readerVars>>

(* An expected packet is handled; the handler may complete login or spawn. *)
ReceiveHandled ==
  /\ receiver = "receive"
  /\ batch # <<>>
  /\ Head(batch).kind = "expected"
  /\ handling
  /\ handling' \in BOOLEAN
  /\ batch' = Tail(batch)
  /\ UNCHANGED <<arrived, pool, receiver, closed, deferredPackets, packetReady,
                 readerVars>>

(* deferPacket, first half: append under deferredPacketMu. *)
deferPacket ==
  /\ receiver = "receive"
  /\ batch # <<>>
  /\ Head(batch).kind = "other" \/ (Head(batch).kind = "expected" /\ ~handling)
  /\ deferredPackets' = Append(deferredPackets, ensureOwned(Head(batch)))
  /\ batch' = Tail(batch)
  /\ receiver' = "signal"
  /\ UNCHANGED <<arrived, pool, handling, closed, packetReady, readerVars>>

(* Mutant: the value is not sent. *)
signalReadyDropped ==
  /\ receiver = "signal"
  /\ packetReady' = packetReady
  /\ receiver' = "receive"
  /\ UNCHANGED <<arrived, batch, pool, handling, closed, deferredPackets, readerVars>>

(* deferPacket, second half: the send on packetReady that never blocks. *)
signalReady ==
  /\ receiver = "signal"
  /\ packetReady' = TRUE
  /\ receiver' = "receive"
  /\ UNCHANGED <<arrived, batch, pool, handling, closed, deferredPackets, readerVars>>

------------------------------------------------------------------------------
(* Application goroutines. *)

receiverVars == <<arrived, batch, pool, receiver>>

(* StartGameContext stores waitingForSpawn on the application's goroutine. *)
StartGame ==
  /\ ~handling
  /\ arrived < NPackets
  /\ handling' = TRUE
  /\ UNCHANGED <<receiverVars, closed, deferredPackets, packetReady, readerVars>>

Close ==
  /\ ~closed
  /\ closed' = TRUE
  /\ UNCHANGED <<receiverVars, handling, deferredPackets, packetReady, readerVars>>

(* Each call stores a fresh channel, one that never fires for time.Time{}. *)
SetReadDeadline ==
  /\ readDeadline < MaxDeadlines
  /\ readDeadline' = readDeadline + 1
  /\ \E zero \in BOOLEAN :
       deadlines' = [deadlines EXCEPT ![readDeadline + 1] =
                       IF zero THEN "none" ELSE "armed"]
  /\ UNCHANGED <<receiverVars, handling, closed, deferredPackets, packetReady,
                 additional, reader, delivered, returned>>

(* time.After puts one value in its channel. *)
DeadlineFires(c) ==
  /\ deadlines[c] = "armed"
  /\ deadlines' = [deadlines EXCEPT ![c] = "fired"]
  /\ UNCHANGED <<receiverVars, handling, closed, deferredPackets, packetReady,
                 additional, readDeadline, reader, delivered, returned>>

(* A call of Read, ReadBytes or ReadPacket.  ReadPacket must not be called *)
(* on several goroutines at once.                                          *)
MayCall(r, op) ==
  /\ reader[r].pc = "idle"
  /\ op = "ReadPacket" => \A s \in Readers : ~InReadPacket(s)

(* Mutant: the packets left over are not looked for. *)
HasAdditionalSkipped(op) == FALSE

(* ReadPacket looks for packets left over from an earlier conversion... *)
HasAdditional(op) == op = "ReadPacket" /\ additional # <<>>

(* ...and returns the first of them without reading. *)
ReadAdditional(r) ==
  /\ \E op \in Ops : MayCall(r, op) /\ HasAdditional(op)
  /\ delivered' = Append(delivered, Head(additional))
  /\ additional' = Tail(additional)
  /\ UNCHANGED <<receiverVars, handling, closed, deferredPackets, packetReady,
                 deadlines, readDeadline, reader, returned>>

BeginRead(r) ==
  /\ \E op \in Ops :
       /\ MayCall(r, op)
       /\ ~HasAdditional(op)
       /\ reader' = [reader EXCEPT ![r] = [Idle EXCEPT !.pc = "take", !.op = op]]
  /\ UNCHANGED <<receiverVars, handling, closed, deferredPackets, packetReady,
                 additional, deadlines, readDeadline, delivered, returned>>

(* takeDeferredPacket, under deferredPacketMu. *)
takeDeferredPacket(r) ==
  /\ reader[r].pc = "take"
  /\ deferredPackets # <<>>
  /\ deferredPackets' = Tail(deferredPackets)
  /\ reader' = [reader EXCEPT ![r].pc = "decode", ![r].pk = Head(deferredPackets)]
  /\ UNCHANGED <<receiverVars, handling, closed, packetReady, additional, deadlines,
                 readDeadline, delivered, returned>>

takeNothing(r) ==
  /\ reader[r].pc = "take"
  /\ deferredPackets = <<>>
  /\ reader' = [reader EXCEPT ![r].pc = "enter"]
  /\ UNCHANGED <<receiverVars, handling, closed, deferredPackets, packetReady,
                 additional, deadlines, readDeadline, delivered, returned>>

(* Entering the select evaluates conn.readDeadline: the goroutine waits on *)
(* that channel even if SetReadDeadline replaces it meanwhile.             *)
enterSelect(r) ==
  /\ reader[r].pc = "enter"
  /\ reader' = [reader EXCEPT ![r].pc = "select", ![r].on = readDeadline]
  /\ UNCHANGED <<receiverVars, handling, closed, deferredPackets, packetReady,
                 additional, deadlines, readDeadline, delivered, returned>>

(* Mutant: a case of the select is missing. *)
selectMissing(r) == FALSE /\ UNCHANGED vars

(* The three cases of the select; any one that is ready may be chosen. *)
selectClosed(r) ==
  /\ reader[r].pc = "select"
  /\ closed
  /\ reader' = [reader EXCEPT ![r] = Idle]
  /\ UNCHANGED <<receiverVars, handling, closed, deferredPackets, packetReady,
                 additional, deadlines, readDeadline, delivered, returned>>

selectDeadline(r) ==
  /\ reader[r].pc = "select"
  /\ deadlines[reader[r].on] = "fired"
  /\ deadlines' = [deadlines EXCEPT ![reader[r].on] = "consumed"]
  /\ reader' = [reader EXCEPT ![r] = Idle]
  /\ UNCHANGED <<receiverVars, handling, closed, deferredPackets, packetReady,
                 additional, readDeadline, delivered, returned>>

selectReady(r) ==
  /\ reader[r].pc = "select"
  /\ packetReady
  /\ packetReady' = FALSE
  /\ reader' = [reader EXCEPT ![r].pc = "take"]
  /\ UNCHANGED <<receiverVars, handling, closed, deferredPackets, additional,
                 deadlines, readDeadline, delivered, returned>>

(* Read and ReadBytes return the packet as it is. *)
returnBytes(r) ==
  /\ reader[r].pc = "decode"
  /\ reader[r].op = "Read"
  /\ delivered' = Append(delivered, [op |-> "Read", id |-> reader[r].pk.id,
                                      bytes |-> Bytes(reader[r].pk), k |-> 1])
  /\ returned' = Append(returned, reader[r].pk.id)
  /\ reader' = [reader EXCEPT ![r] = Idle]
  /\ UNCHANGED <<receiverVars, handling, closed, deferredPackets, packetReady,
                 additional, deadlines, readDeadline>>

(* Mutant: the packet that did not fit is queued again, behind the others. *)
bufferTooSmallRequeues(r) ==
  /\ reader[r].pc = "decode"
  /\ reader[r].op = "Read"
  /\ deferredPackets' = Append(deferredPackets, reader[r].pk)
  /\ reader' = [reader EXCEPT ![r] = Idle]
  /\ UNCHANGED <<receiverVars, handling, closed, packetReady, additional, deadlines,
                 readDeadline, delivered, returned>>

(* Read fails with errBufferTooSmall: the packet it took is gone. *)
bufferTooSmall(r) ==
  /\ reader[r].pc = "decode"
  /\ reader[r].op = "Read"
  /\ reader' = [reader EXCEPT ![r] = Idle]
  /\ UNCHANGED <<receiverVars, handling, closed, deferredPackets, packetReady,
                 additional, deadlines, readDeadline, delivered, returned>>

(* packetData.decode fails, and closes the Conn if it is configured to do  *)
(* so, or ConvertToLatest makes nothing of the packet: ReadPacket goes on. *)
decodeNothing(r) ==
  /\ reader[r].pc = "decode"
  /\ reader[r].op = "ReadPacket"
  /\ closed' \in {closed, TRUE}
  /\ reader' = [reader EXCEPT ![r].pc = "take", ![r].pk = NoPacket]
  /\ UNCHANGED <<receiverVars, handling, deferredPackets, packetReady, additional,
                 deadlines, readDeadline, delivered, returned>>

Converted(pk, n) ==
  [k \in 1..n |-> [op |-> "ReadPacket", id |-> pk.id, bytes |-> Bytes(pk), k |-> k]]

(* Mutant: additional is sent every packet, the first too. *)
returnPacketSendsAll(r) ==
  /\ reader[r].pc = "decode"
  /\ reader[r].op = "ReadPacket"
  /\ \E n \in 1..MaxConverted :
       /\ Len(additional) + n - 1 <= AdditionalCap
       /\ LET pks == Converted(reader[r].pk, n) IN
            /\ additional' = additional \o pks
            /\ delivered' = Append(delivered, Head(pks))
  /\ returned' = Append(returned, reader[r].pk.id)
  /\ reader' = [reader EXCEPT ![r] = Idle]
  /\ UNCHANGED <<receiverVars, handling, closed, deferredPackets, packetReady,
                 deadlines, readDeadline>>

(* Mutant: the last packet is returned and the ones before it are left over. *)
returnPacketLast(r) ==
  /\ reader[r].pc = "decode"
  /\ reader[r].op = "ReadPacket"
  /\ \E n \in 1..MaxConverted :
       /\ Len(additional) + n - 1 <= AdditionalCap
       /\ LET pks == Converted(reader[r].pk, n) IN
            /\ additional' = additional \o SubSeq(pks, 1, n - 1)
            /\ delivered' = Append(delivered, pks[n])
  /\ returned' = Append(returned, reader[r].pk.id)
  /\ reader' = [reader EXCEPT ![r] = Idle]
  /\ UNCHANGED <<receiverVars, handling, closed, deferredPackets, packetReady,
                 deadlines, readDeadline>>

(* ConvertToLatest makes n packets: all but the first go to additional. *)
returnPacket(r) ==
  /\ reader[r].pc = "decode"
  /\ reader[r].op = "ReadPacket"
  /\ \E n \in 1..MaxConverted :
       /\ Len(additional) + n - 1 <= AdditionalCap
       /\ LET pks == Converted(reader[r].pk, n) IN
            /\ additional' = additional \o Tail(pks)
            /\ delivered' = Append(delivered, Head(pks))
  /\ returned' = Append(returned, reader[r].pk.id)
  /\ reader' = [reader EXCEPT ![r] = Idle]
  /\ UNCHANGED <<receiverVars, handling, closed, deferredPackets, packetReady,
                 deadlines, readDeadline>>

(* The channel cannot hold them: ReadPacket fills it and blocks, and no    *)
(* other goroutine may call ReadPacket to make room.                       *)
blockOnAdditional(r) ==
  /\ reader[r].pc = "decode"
  /\ reader[r].op = "ReadPacket"
  /\ \E n \in 1..MaxConverted :
       /\ Len(additional) + n - 1 > AdditionalCap
       /\ LET pks == Converted(reader[r].pk, n) IN
            additional' = additional \o SubSeq(pks, 2, 1 + AdditionalCap - Len(additional))
  /\ reader' = [reader EXCEPT ![r].pc = "blocked"]
  /\ UNCHANGED <<receiverVars, handling, closed, deferredPackets, packetReady,
                 deadlines, readDeadline, delivered, returned>>

------------------------------------------------------------------------------
ReceiveStep ==
  \/ DecodeFunc \/ ReleaseBatch \/ DecodeFails \/ ReceiveFails
  \/ ReceiveDisconnect \/ ReceiveHandled \/ deferPacket \/ signalReady

(* The steps of a call once it began; a goroutine in a call is runnable. *)
CallStep(r) ==
  \/ takeDeferredPacket(r) \/ takeNothing(r) \/ enterSelect(r)
  \/ selectClosed(r) \/ selectDeadline(r) \/ selectReady(r)
  \/ returnBytes(r) \/ bufferTooSmall(r) \/ decodeNothing(r) \/ returnPacket(r)
  \/ blockOnAdditional(r)

Next ==
  \/ ReceiveStep
  \/ StartGame \/ Close \/ SetReadDeadline
  \/ \E c \in Channels : DeadlineFires(c)
  \/ \E r \in Readers : ReadAdditional(r) \/ BeginRead(r) \/ CallStep(r)

Spec == Init /\ [][Next]_vars

(* The Go scheduler runs every runnable goroutine, and a timer fires once  *)
(* its time comes.  Nothing is assumed of the peer, or of when the         *)
(* application calls: DecodeFunc, Close and BeginRead may never happen.    *)
Fairness ==
  /\ WF_vars(ReleaseBatch) /\ WF_vars(ReceiveFails) /\ WF_vars(ReceiveDisconnect)
  /\ WF_vars(ReceiveHandled) /\ WF_vars(deferPacket) /\ WF_vars(signalReady)
  /\ \A c \in Channels : WF_vars(DeadlineFires(c))
  /\ \A r \in Readers : WF_vars(CallStep(r))

FairSpec == Spec /\ Fairness
------------------------------------------------------------------------------
(* Properties. *)

(* Every variable keeps its type: the type invariant of the receive path. *)
TypeOK ==
  /\ arrived \in Nat
  /\ batch \in Seq(packetData)
  /\ pool \in Nat
  /\ receiver \in {"decode", "receive", "signal", "done"}
  /\ handling \in BOOLEAN
  /\ closed \in BOOLEAN
  /\ deferredPackets \in Seq(packetData)
  /\ packetReady \in BOOLEAN
  /\ additional \in Seq(Returned) /\ Len(additional) <= AdditionalCap
  /\ deadlines \in [Channels -> {"none", "armed", "fired", "consumed"}]
  /\ readDeadline \in Channels
  /\ reader \in [Readers -> [pc : ReaderPCs, op : ReadOps, on : Channels, pk : packetData]]
  /\ delivered \in Seq(Returned) /\ returned \in Seq(Nat)

(* The packetReady channel holds one value for any number of packets, so a *)
(* reader may only park while packets are queued if it is about to be      *)
(* woken: a value is in the channel or deferPacket is about to send it.    *)
(* A parked reader that misses its wake-up sleeps on a non-empty queue.    *)
NoLostWakeup ==
  \A r \in Readers :
    reader[r].pc = "select" /\ deferredPackets # <<>>
      => packetReady \/ receiver = "signal"

(* A packet that outlives the batch it arrived in has its own bytes: what  *)
(* is queued or returned to the application never shows the contents of a  *)
(* batch that was decoded into the same pooled buffer later (ensureOwned). *)
PayloadIntact ==
  /\ \A i \in DOMAIN deferredPackets : Bytes(deferredPackets[i]) = deferredPackets[i].id
  /\ \A i \in DOMAIN delivered : delivered[i].bytes = delivered[i].id

(* A packet converted into several is returned in one piece and in order:  *)
(* what ReadPacket returns is strictly increasing in (arrival, index of    *)
(* the converted packet) although Read calls may come in between.          *)
ReadPacketInOrder ==
  \A i, j \in DOMAIN delivered :
    /\ i < j
    /\ delivered[i].op = "ReadPacket" /\ delivered[j].op = "ReadPacket"
    => \/ delivered[i].id < delivered[j].id
       \/ delivered[i].id = delivered[j].id /\ delivered[i].k < delivered[j].k

(* ReadPacket blocks on its own additional channel only if one conversion  *)
(* makes more packets than the channel holds, never for want of room that  *)
(* an earlier conversion took: what fills the channel is its own.          *)
BlocksOnlyOnItself ==
  \A r \in Readers : \A i \in DOMAIN additional :
    reader[r].pc = "blocked" => additional[i].id = reader[r].pk.id

(* Closing the Conn, by whichever goroutine, ends every call: a reader     *)
(* parked in the select, or between its look at the queue and the select,  *)
(* returns.  Only a ReadPacket blocked on additional does not watch ctx.   *)
CloseEndsReads == \A r \in Readers : closed ~> reader[r].pc \in {"idle", "blocked"}

(* The queue is not stranded: a parked reader and a queued packet come     *)
(* together, whatever the receiving goroutine is doing.                    *)
QueuedPacketWakes ==
  \A r \in Readers :
    (reader[r].pc = "select" /\ deferredPackets # <<>>) ~> reader[r].pc # "select"

(* The packet the reader took and has not returned yet. *)
TheReader == CHOOSE r \in Readers : TRUE
InHand == IF reader[TheReader].pc = "decode" THEN <<reader[TheReader].pk.id>> ELSE <<>>

Ids(q) == [i \in DOMAIN q |-> q[i].id]

Pipe == INSTANCE PacketPipe WITH
  Packets <- 1 .. NPackets,
  Lossy <- TRUE,
  queue <- InHand \o Ids(deferredPackets),
  out <- returned,
  broken <- closed

(* With one reader the Conn is a pipe: what receive defers, in whatever    *)
(* state of the login, comes out of Read and ReadPacket once and in order, *)
(* through the queue, the hands of the reader and the conversion, whatever *)
(* fails on the way; only a packet at the front is ever lost.              *)
ReceivesAsPipe == Pipe!Spec

(* A read past the deadline fails (documentation of ReadPacket): a reader  *)
(* never waits on a deadline that has passed and cannot fire again.        *)
ReadFailsPastDeadline ==
  \A r \in Readers :
    reader[r].pc = "select" => deadlines[reader[r].on] # "consumed"
==============================================================================
