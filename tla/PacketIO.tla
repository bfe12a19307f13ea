------------------------------- MODULE PacketIO -------------------------------
(***************************************************************************)
(* One packet on its way: a program fills it in and a Writer encodes it    *)
(* (Conn.WritePacket), the connection at the other end decodes it          *)
(* (packetData.decode), and a program that relays what it reads, as the    *)
(* proxy of main.go does, encodes it again.                                *)
(*                                                                         *)
(* Each pass runs the layout of the packet, a stack of the calls still to  *)
(* make.  The payload is a sequence of tokens, one per value: its encoding *)
(* and what it holds.  A Reader that finds another encoding than the one   *)
(* it asks for would take bytes of one value for another: that is a fault. *)
(***************************************************************************)
EXTENDS Packets

CONSTANTS Names,            \* the packets that are sent
          Large,            \* those of them with very many fields
          MaxDeviations,    \* how many fields of a packet leave their usual value
          maxSliceLength    \* maxSliceLength of io.go, 1024, scaled down

VARIABLES packet,       \* the name of the packet
          phase,        \* which pass it is in, and how it ended
          todo,         \* frames [at, items]: the calls Marshal has yet to make
          sent,         \* the fields of the packet that is written, by path
          got,          \* the fields of the packet as read, by path
          wire,         \* the payload the Writer produced
          unread,       \* what the Reader has left of it
          relayed,      \* the payload the relaying Writer produced
          deviations,   \* the fields that left their usual value so far
          reader,       \* the connection that reads: pool, shieldKnown, cut
          fault         \* why a pass ended early

vars == <<packet, phase, todo, sent, got, wire, unread, relayed, deviations, reader, fault>>

Pools == [client |-> ClientPool, server |-> ServerPool]
AllPackets == ServerPool @@ ClientPool

(* A connection of a Listener has the client pool and checks limits; that  *)
(* of a Dialer has the server pool and does not.                           *)
Limits == reader.pool = "client"
Recognised == packet \in DOMAIN Pools[reader.pool]
LayoutFor(pool) == IF packet \in DOMAIN Pools[pool] THEN Pools[pool][packet] ELSE Unknown

(* How many fields may leave their usual value: one in a large packet.     *)
Budget == IF packet \in Large THEN 1 ELSE MaxDeviations

-----------------------------------------------------------------------------
(* Tokens.                                                                 *)
Number(enc, n) == [enc |-> enc, num |-> n, of |-> <<>>]
Opaque(enc, of) == [enc |-> enc, num |-> 0, of |-> of]
Token(enc, text, v) == IF text THEN Opaque(enc, <<v>>) ELSE Number(enc, v)
Content(token, text) == IF text THEN token.of[1] ELSE token.num

(* Where Marshal stands.                                                   *)
Frame(at, items) == [at |-> at, items |-> items]
Frames(at, items) == IF items = <<>> THEN <<>> ELSE <<Frame(at, items)>>
top == Head(todo)
item == Head(top.items)
PathAt(at, f) == IF f = "" THEN at ELSE Append(at, f)
Path(f) == PathAt(top.at, f)
Continue(frames, n) ==
  SelectSeq(frames \o <<Frame(top.at, SubSeq(top.items, n + 1, Len(top.items)))>> \o Tail(todo),
            LAMBDA fr : fr.items # <<>>)
Then(frames) == todo' = Continue(frames, 1)
At(op) == todo # <<>> /\ item.op = op

(* The structure Marshal works on; a field nobody set is zero.             *)
Struct == IF phase = "write" THEN sent ELSE got
Value(f) == IF Path(f) \in DOMAIN Struct THEN Struct[Path(f)] ELSE 0

(* InvalidValue and UnknownEnumOption panic.  decode recovers, WritePacket *)
(* does not: a relayed packet that cannot be written takes the program     *)
(* with it.                                                                *)
Fail(why) ==
  /\ phase' = [write |-> "refused", read |-> "failed", relay |-> "panicked"][phase]
  /\ fault' = why
  /\ UNCHANGED <<packet, todo, sent, got, wire, unread, relayed, deviations, reader>>

-----------------------------------------------------------------------------
(* Writing.                                                                *)
Writing(op) == phase \in {"write", "relay"} /\ At(op)

Write(tokens) ==
  /\ wire' = IF phase = "write" THEN wire \o tokens ELSE wire
  /\ relayed' = IF phase = "relay" THEN relayed \o tokens ELSE relayed
  /\ UNCHANGED <<packet, phase, got, unread, reader, fault>>

(* The values field f can have: any, at a cost, where the program has yet  *)
(* to choose, and the value it has otherwise.                              *)
Usual(S) == CHOOSE v \in S : TRUE
UsualNumber(S) == CHOOSE v \in S : v \notin {Wide, Negative, Between}
Open(f) == phase = "write" /\ Path(f) \notin DOMAIN sent
Options(f, S, usual) ==
  IF Open(f) THEN {v \in S : v = usual \/ deviations < Budget} ELSE {Value(f)}
Fill(f, usual, v) ==
  /\ sent' = IF Open(f) THEN (Path(f) :> v) @@ sent ELSE sent
  /\ deviations' = IF Open(f) /\ v # usual THEN deviations + 1 ELSE deviations

(* The plain fields up to the next call of another kind.                   *)
Plain(items) ==
  CHOOSE n \in 0 .. Len(items) :
    /\ \A k \in 1 .. n : items[k].op = "field"
    /\ n < Len(items) => items[n + 1].op # "field"

WriteFields ==
  /\ Writing("field")
  /\ LET n == Plain(top.items)
         Paths == {Path(top.items[k].name) : k \in 1 .. n}
         Holds(p) == IF phase = "write" THEN p ELSE IF p \in DOMAIN got THEN got[p] ELSE <<>>
     IN /\ Write([k \in 1 .. n |-> Opaque(top.items[k].enc, Holds(Path(top.items[k].name)))])
        /\ sent' = IF phase = "write" THEN [p \in Paths |-> p] @@ sent ELSE sent
        /\ todo' = Continue(<<>>, n)
        /\ UNCHANGED deviations

WriteChoice ==
  /\ Writing("choice")
  /\ \E v \in Options(item.name, item.vals, UsualNumber(item.vals)) :
       /\ Write(<<Number(item.enc, As(item.enc, v))>>)
       /\ Fill(item.name, UsualNumber(item.vals), v)
       /\ Then(<<>>)

(* A map in NBT, spelled one way by the first Writer and any way by the    *)
(* one that relays it.                                                     *)
Spellings == IF phase = "write" THEN {1} ELSE 1 .. 2
WriteNBT ==
  /\ Writing("nbt")
  /\ LET p == Path(item.name)
         holds == IF phase = "write" THEN p ELSE IF p \in DOMAIN got THEN got[p] ELSE <<>>
     IN /\ \E spelling \in Spellings : Write(<<[Opaque(item.enc, holds) EXCEPT !.num = spelling]>>)
        /\ sent' = IF phase = "write" THEN (p :> p) @@ sent ELSE sent
  /\ Then(<<>>)
  /\ UNCHANGED deviations

WriteGiven ==
  /\ Writing("given")
  /\ \E v \in Options(item.name, item.vals, Usual(item.vals)) : Fill(item.name, Usual(item.vals), v)
  /\ Write(<<>>)
  /\ Then(<<>>)

WriteDerived ==
  /\ Writing("derived")
  /\ IF Value(item.name) \in DOMAIN item.to
     THEN /\ Write(<<Token(item.enc, item.text, item.to[Value(item.name)])>>)
          /\ Then(<<>>)
          /\ UNCHANGED <<sent, deviations>>
     ELSE Fail("unknown enum option")

WriteConstant ==
  /\ Writing("constant")
  /\ Write(<<Number(item.enc, item.val)>>)
  /\ Then(<<>>)
  /\ UNCHANGED <<sent, deviations>>

WriteConv ==
  /\ Writing("conv")
  /\ LET usual == Usual(DOMAIN item.to)
     IN \E v \in Options(item.name, DOMAIN item.to, usual) :
          IF v \in DOMAIN item.to
          THEN /\ Write(<<Token(item.enc, item.text, item.to[v])>>)
               /\ Fill(item.name, usual, v)
               /\ Then(<<>>)
          ELSE Fail("unknown enum option")

Elements(at, n, body) ==
  [k \in 1 .. n |-> Frame(Append(at, ToString(k)), body)]

WriteSlice ==
  /\ Writing("slice")
  /\ \E n \in Options(LengthOf(item.name), 0 .. 2, 1) :
       /\ Write(IF item.enc = NoPrefix THEN <<>> ELSE <<Number(item.enc, n)>>)
       /\ Fill(LengthOf(item.name), 1, n)
       /\ Then(Elements(Path(item.name), n, item.body))

WriteOptional ==
  /\ Writing("optional")
  /\ \E set \in Options(SetOf(item.name), {0, 1}, 1) :
       /\ Write(<<Number("Bool", set)>>)
       /\ Fill(SetOf(item.name), 1, set)
       /\ Then(IF set = 1 THEN Frames(Path(item.name), item.body) ELSE <<>>)

WriteWhen ==
  /\ Writing("when")
  /\ LET flag == Value(item.name) \in item.vals
     IN /\ Write(<<Number("Bool", IF flag THEN 1 ELSE 0)>>)
        /\ Then(IF flag THEN Frames(top.at, item.body) ELSE <<>>)
  /\ UNCHANGED <<sent, deviations>>


(* The orders in which the keys of a map of n entries can be written:      *)
(* iterating over a Go map has no order, so the Writer sorts the keys.     *)
KeyOrders(n) == {[k \in 1 .. n |-> k - 1]}

WriteEntries ==
  /\ Writing("entries")
  /\ \E n \in Options(LengthOf(item.name), 0 .. 2, 1) : \E order \in KeyOrders(n) :
       /\ Write(<<Number("Varuint32", n)>>)
       /\ Fill(LengthOf(item.name), 1, n)
       /\ Then([k \in 1 .. n |-> Frame(Append(Path(item.name), ToString(order[k])),
                                      <<Constant("Varuint32", order[k])>> \o item.body)])

WriteBytes ==
  /\ Writing("bytes")
  /\ LET tokens == IF phase = "write" THEN <<Opaque("Bytes", Path(item.name))>> ELSE Value(item.name)
     IN /\ Write(tokens)
        /\ sent' = IF phase = "write" THEN (Path(item.name) :> tokens) @@ sent ELSE sent
  /\ Then(<<>>)
  /\ UNCHANGED deviations

-----------------------------------------------------------------------------
(* Reading.                                                                *)
Reading(op) == phase = "read" /\ At(op)

(* The next token of the payload is what the call at hand reads.           *)
Arrived == unread # <<>> /\ Head(unread).enc = item.enc
Next1 == Head(unread)

Read(tokens) ==
  /\ unread' = SubSeq(unread, tokens + 1, Len(unread))
  /\ UNCHANGED <<packet, phase, sent, wire, relayed, deviations, reader, fault>>
Keep(f, v) == got' = (Path(f) :> v) @@ got

Matching ==
  LET n == Plain(top.items)
  IN CHOOSE k \in 0 .. n :
       /\ \A i \in 1 .. k : i <= Len(unread) /\ unread[i].enc = top.items[i].enc
       /\ k < n => k = Len(unread) \/ unread[k + 1].enc # top.items[k + 1].enc

ReadFields ==
  /\ Reading("field") /\ Arrived
  /\ LET n == Matching
         Index(p) == CHOOSE k \in 1 .. n : Path(top.items[k].name) = p
     IN /\ Read(n)
        /\ got' = [p \in {Path(top.items[k].name) : k \in 1 .. n} |-> unread[Index(p)].of] @@ got
        /\ todo' = Continue(<<>>, n)

ReadChoice ==
  /\ Reading("choice") /\ Arrived
  /\ Read(1) /\ Keep(item.name, Next1.num) /\ Then(<<>>)

(* The Reader decodes a map, whatever way it is spelled.                   *)
ReadNBT ==
  /\ Reading("nbt") /\ Arrived
  /\ Read(1) /\ Keep(item.name, Next1.of) /\ Then(<<>>)

ReadGiven ==
  /\ Reading("given")
  /\ Read(0) /\ Then(<<>>) /\ UNCHANGED got

ReadDerived ==
  /\ Reading("derived") /\ Arrived
  /\ IF /\ Value(item.name) \in DOMAIN item.to
        /\ item.echo => Content(Next1, item.text) = item.to[Value(item.name)]
     THEN Read(1) /\ Then(<<>>) /\ UNCHANGED got
     ELSE Fail("invalid value")

ReadConstant ==
  /\ Reading("constant") /\ Arrived
  /\ Read(1) /\ Then(<<>>) /\ UNCHANGED got

ReadConv ==
  /\ Reading("conv") /\ Arrived
  /\ IF Content(Next1, item.text) \in DOMAIN item.from
     THEN Read(1) /\ Keep(item.name, item.from[Content(Next1, item.text)]) /\ Then(<<>>)
     ELSE Fail("unknown enum option")

(* Reader.SliceLength: what a length may be before a slice is allocated.   *)
SliceLength(n, left) == (Limits => n <= maxSliceLength) /\ n <= left

ReadSlice ==
  /\ Reading("slice") /\ (Arrived \/ item.enc = NoPrefix)
  /\ LET prefix == IF item.enc = NoPrefix THEN 0 ELSE 1
         n == IF item.enc = NoPrefix THEN Value(LengthOf(item.name)) ELSE Next1.num
     IN IF SliceLength(n, Len(unread) - prefix)
        THEN /\ Read(prefix)
             /\ Keep(LengthOf(item.name), n)
             /\ Then(Elements(Path(item.name), n, item.body))
        ELSE Fail("slice length")

ReadOptional ==
  /\ Reading("optional") /\ Arrived
  /\ Read(1)
  /\ Keep(SetOf(item.name), Next1.num)
  /\ Then(IF Next1.num = 1 THEN Frames(Path(item.name), item.body) ELSE <<>>)

ReadWhen ==
  /\ Reading("when") /\ Arrived
  /\ Read(1)
  /\ Then(IF Next1.num = 1 THEN Frames(top.at, item.body) ELSE <<>>)
  /\ UNCHANGED got

(* The entries of a map, each a key and then the body.                     *)
Entry(body) == [op |-> "entry", enc |-> "Varuint32", body |-> body]
ReadEntries ==
  /\ Reading("entries") /\ Arrived
  /\ Read(1)
  /\ Keep(LengthOf(item.name), Next1.num)
  /\ Then([k \in 1 .. Next1.num |-> Frame(Path(item.name), <<Entry(item.body)>>)])

ReadEntry ==
  /\ Reading("entry") /\ Arrived
  /\ Read(1)
  /\ Then(<<Frame(Append(top.at, ToString(Next1.num)), item.body)>>)
  /\ UNCHANGED got

ReadBytes ==
  /\ Reading("bytes")
  /\ Read(Len(unread)) /\ Keep(item.name, unread) /\ Then(<<>>)

(* An assignment of the Reader.                                            *)
ReadSet ==
  /\ Reading("set")
  /\ Read(0) /\ Keep(item.name, item.val) /\ Then(<<>>)

(* The rest of a buffer that came as a byte slice.                         *)
Buffered == {k \in 1 .. Len(unread) : unread[k].enc = EndOfBuffer}
ReadDropBuffer ==
  /\ Reading("dropbuffer")
  /\ IF Buffered # {}
     THEN Read(CHOOSE k \in Buffered : \A j \in Buffered : k <= j) /\ Then(<<>>) /\ UNCHANGED got
     ELSE Fail("payload")

(* The payload has ended, or holds another encoding than the one asked for. *)
Reads ==
  {"field", "choice", "nbt", "derived", "constant", "conv", "slice", "optional", "when", "entries", "entry"}

ReadBroken ==
  /\ phase = "read" /\ todo # <<>> /\ item.op \in Reads
  /\ ~Arrived /\ item.enc # NoPrefix
  /\ Fail("payload")

-----------------------------------------------------------------------------
(* The calls that move no data.                                            *)
Marshalling(op) == phase \in {"write", "read", "relay"} /\ At(op)
Enter(frames) ==
  /\ Then(frames)
  /\ UNCHANGED <<packet, phase, sent, got, wire, unread, relayed, deviations, reader, fault>>

EnterSingle == Marshalling("single") /\ Enter(Frames(Path(item.name), item.body))
EnterPropertyValue ==
  Marshalling("propertyvalue") /\ Enter(<<Frame(Path(item.name), DataStorePropertyValue)>>)
EnterDirection ==
  Marshalling("direction") /\ Enter(Frames(top.at, IF phase = "read" THEN item.r ELSE item.w))
EnterIf ==
  /\ Marshalling("if")
  /\ Enter(Frames(top.at, IF Value(item.name) \in item.vals THEN item.then ELSE item.else))
EnterSwitch ==
  /\ Marshalling("switch")
  /\ IF Value(item.name) \in DOMAIN item.cases
     THEN Enter(Frames(top.at, item.cases[Value(item.name)]))
     ELSE Fail("unknown enum option")

(* ShieldID is the Reader's copy of Conn.shieldID, zero until the item     *)
(* registry arrived.                                                       *)
ShieldID == IF phase = "read" /\ ~reader.shieldKnown THEN 0 ELSE Shield
EnterShield ==
  /\ Marshalling("shield")
  /\ Enter(IF Value(item.name) = ShieldID THEN Frames(top.at, item.then) ELSE <<>>)

CheckRelation ==
  /\ Marshalling("relation")
  /\ IF [k \in DOMAIN item.names |-> Value(item.names[k])] \in item.vals
     THEN Enter(<<>>) ELSE Fail("invalid value")
CheckUnique ==
  /\ Marshalling("unique")
  /\ LET ids == [k \in 1 .. Value(LengthOf(item.name)) |-> Struct[Append(Path(item.name), ToString(k))]]
     IN IF \A k \in DOMAIN ids : ids[k] \in item.vals /\ \A j \in 1 .. k - 1 : ids[j] # ids[k]
        THEN Enter(<<>>) ELSE Fail("invalid value")

-----------------------------------------------------------------------------
(* From one pass to the next.                                              *)
Blank == [pool |-> "server", shieldKnown |-> TRUE, cut |-> FALSE]
Nothing == [p \in {} |-> 0]

Init ==
  /\ packet \in Names
  /\ phase = "write"
  /\ todo = Frames(<<>>, AllPackets[packet])
  /\ sent = Nothing /\ got = Nothing
  /\ wire = <<>> /\ unread = <<>> /\ relayed = <<>>
  /\ deviations = 0
  /\ reader = Blank
  /\ fault = "none"

Sent ==
  /\ phase = "write" /\ todo = <<>>
  /\ phase' = "sent"
  /\ UNCHANGED <<packet, todo, sent, got, wire, unread, relayed, deviations, reader, fault>>

(* The packet reaches a connection: a client's or a server's, which knows  *)
(* the shield or, when there is one in the packet, may not yet, and whose  *)
(* peer may have ended the payload too early.                              *)
ShieldSent == \E p \in DOMAIN sent : p # <<>> /\ p[Len(p)] = "BlockingTick"

Received(cut) == IF cut THEN SubSeq(wire, 1, Len(wire) - 1) ELSE wire
StartDecode ==
  /\ phase = "sent"
  /\ \E pool \in DOMAIN Pools, known \in {TRUE, ~ShieldSent}, cut \in BOOLEAN :
       /\ cut => wire # <<>> /\ deviations < Budget
       /\ reader' = [pool |-> pool, shieldKnown |-> known, cut |-> cut]
       /\ unread' = Received(cut)
       /\ todo' = Frames(<<>>, LayoutFor(pool))
  /\ phase' = "read"
  /\ UNCHANGED <<packet, sent, got, wire, relayed, deviations, fault>>

(* A connection may be set to close on a packet its pool does not have.    *)
DecodeUnknown ==
  /\ phase = "read" /\ ~Recognised
  /\ Fail("unknown packet")

EndDecode ==
  /\ phase = "read" /\ todo = <<>>
  /\ IF unread = <<>>
     THEN /\ phase' = "decoded"
          /\ UNCHANGED <<packet, todo, sent, got, wire, unread, relayed, deviations, reader, fault>>
     ELSE Fail("unread bytes left")

Relay ==
  /\ phase = "decoded"
  /\ phase' = "relay"
  /\ todo' = Frames(<<>>, LayoutFor(reader.pool))
  /\ UNCHANGED <<packet, sent, got, wire, unread, relayed, deviations, reader, fault>>

Relayed ==
  /\ phase = "relay" /\ todo = <<>>
  /\ phase' = "relayed"
  /\ UNCHANGED <<packet, todo, sent, got, wire, unread, relayed, deviations, reader, fault>>

Ended == phase \in {"refused", "failed", "panicked", "relayed"}
NextPacket ==
  /\ Ended
  /\ phase' = "write"
  /\ todo' = Frames(<<>>, AllPackets[packet])
  /\ sent' = Nothing /\ got' = Nothing
  /\ wire' = <<>> /\ unread' = <<>> /\ relayed' = <<>>
  /\ deviations' = 0
  /\ reader' = Blank
  /\ fault' = "none"
  /\ UNCHANGED packet

Next ==
  \/ WriteFields \/ WriteChoice \/ WriteNBT \/ WriteGiven \/ WriteDerived \/ WriteConstant \/ WriteConv
  \/ WriteSlice \/ WriteOptional \/ WriteWhen \/ WriteEntries \/ WriteBytes
  \/ ReadFields \/ ReadChoice \/ ReadNBT \/ ReadGiven \/ ReadDerived \/ ReadConstant \/ ReadConv
  \/ ReadSlice \/ ReadOptional \/ ReadWhen \/ ReadEntries \/ ReadEntry \/ ReadBytes
  \/ ReadSet \/ ReadDropBuffer \/ ReadBroken
  \/ EnterSingle \/ EnterPropertyValue \/ EnterDirection \/ EnterIf \/ EnterSwitch \/ EnterShield
  \/ CheckRelation \/ CheckUnique
  \/ Sent \/ StartDecode \/ DecodeUnknown \/ EndDecode \/ Relay \/ Relayed \/ NextPacket

Spec == Init /\ [][Next]_vars

-----------------------------------------------------------------------------
(* Properties.                                                             *)

(* Reader and Writer agree on every packet: what Marshal encodes, the same *)
(* Marshal decodes, branch for branch, up to the last byte.  The only      *)
(* refusals are a slice above the limit of a Listener's connection and a   *)
(* packet its pool does not have.                                          *)
AcceptsWhole ==
  phase = "failed" /\ ~reader.cut =>
    \/ fault = "slice length" /\ Limits
    \/ fault = "unknown packet" /\ ~Recognised

(* Every field that was set arrives, with its value or, where the wire     *)
(* type does not hold the value, with the low bits of it, the step below   *)
(* or no alpha; what does not arrive was the zero value. The blocking tick *)
(* of a shield gets lost when the connection does not know the shield yet. *)
(* The input item of a material reducer does not survive: the Reader       *)
(* shifts its network ID the wrong way.                                    *)
Zero(v) == ToString(v) = "0"
LastOf(p) == IF p = <<>> THEN "" ELSE p[Len(p)]
Decoded == phase \in {"decoded", "relay", "relayed", "panicked"} /\ Recognised /\ ~reader.cut
Held == (Wide :> {1}) @@ (Negative :> {249, 65529}) @@ (Between :> {500})
HeldOf(p) == \E v \in DOMAIN Held : ToString(sent[p]) = ToString(v) /\ got[p] \in Held[v]
Survives(p) == IF p \in DOMAIN got THEN got[p] = sent[p] \/ HeldOf(p) ELSE Zero(sent[p])
FieldsSurvive ==
  Decoded => \A p \in DOMAIN sent :
    LastOf(p) # "InputItem" /\ (reader.shieldKnown \/ LastOf(p) # "BlockingTick") => Survives(p)

(* The tokens of a payload, whatever way its NBT is spelled.               *)
Unspelled(tokens) ==
  [k \in DOMAIN tokens |->
     IF tokens[k].enc \in {NBT("").enc, NBTLittleEndian("").enc}
     THEN [tokens[k] EXCEPT !.num = 0] ELSE tokens[k]]

(* What a program reads from one connection and writes to another leaves   *)
(* as the bytes that came in, except for the spelling of NBT in a packet   *)
(* the pool has.                                                           *)
SameBytes ==
  phase = "relayed" /\ reader.shieldKnown /\ (\A p \in DOMAIN sent : LastOf(p) # "InputItem") =>
    IF Recognised THEN Unspelled(relayed) = Unspelled(Received(reader.cut))
    ELSE relayed = Received(reader.cut)


(* No slice of a packet a client sent is allocated above the limit,        *)
(* whichever call read its length.                                         *)
SlicesBounded ==
  Limits =>
    \A p \in DOMAIN got : \A k \in DOMAIN p : p[k] # ToString(maxSliceLength + 1)

(* A packet that ends too early is never delivered, unless its last field  *)
(* is whatever is left.                                                    *)
RefusesTruncated ==
  phase = "decoded" /\ reader.cut => ~Recognised \/ wire[Len(wire)].enc = "Bytes"


=============================================================================
