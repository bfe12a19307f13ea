------------------------------ MODULE PacketPipe ------------------------------
(***************************************************************************)
(* What a Conn promises of packets in either direction: a pipe.  Packets   *)
(* are numbered in the order they enter.  They leave from the front, one   *)
(* batch at a time, until the pipe breaks, and nothing is lost before      *)
(* that.  A lossy pipe may lose what is at its front at any time and still *)
(* delivers after it broke.                                                *)
(*                                                                         *)
(* ConnSend implements a pipe from WritePacket to the transport, ConnRe-   *)
(* ceive a lossy one from the receiving goroutine to one that reads.       *)
(***************************************************************************)
EXTENDS Integers, Sequences

CONSTANTS
  Packets,  \* the numbers packets can have
  Lossy     \* whether the pipe may lose packets before it breaks

VARIABLES
  queue,   \* the packets inside
  out,     \* the packets that left at the other end
  broken   \* the pipe broke

pipe == <<queue, out, broken>>

Init == queue = <<>> /\ out = <<>> /\ broken = FALSE

Precedes(s, x) == \A i \in DOMAIN s : s[i] < x

Put ==
  /\ \E x \in Packets :
       /\ Precedes(queue, x) /\ Precedes(out, x)
       /\ queue' = Append(queue, x)
  /\ UNCHANGED <<out, broken>>

(* The first n packets leave, delivered or lost. *)
Leave(n) == queue' = SubSeq(queue, n + 1, Len(queue))

Deliver ==
  /\ Lossy \/ ~broken
  /\ \E n \in 1 .. Len(queue) : Leave(n) /\ out' = out \o SubSeq(queue, 1, n)
  /\ UNCHANGED broken

Lose ==
  /\ Lossy \/ broken
  /\ \E n \in 1 .. Len(queue) : Leave(n)
  /\ UNCHANGED <<out, broken>>

(* The step that breaks the pipe may lose the packet at its front. *)
Break ==
  /\ ~broken
  /\ broken' = TRUE
  /\ \E n \in 0 .. (IF Lossy /\ queue # <<>> THEN 1 ELSE 0) : Leave(n)
  /\ UNCHANGED out

Next == Put \/ Deliver \/ Lose \/ Break

Spec == Init /\ [][Next]_pipe
==============================================================================
