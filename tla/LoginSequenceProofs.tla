------------------------- MODULE LoginSequenceProofs -------------------------
(***************************************************************************)
(* Theorems about the login of a client that dials a Listener, for any     *)
(* number of resource packs and chunks and whatever fails on the way: the  *)
(* sides agree on the format of every batch, the download is announced     *)
(* once and only if it is complete, the sides agree on the spawn, and each *)
(* side expects every packet of the handshake by the time it is handled.   *)
(***************************************************************************)
EXTENDS LoginSequence, FiniteSetTheorems, SequenceTheorems, TLAPS

Formats == {"raw", "compressed", "encrypted"}
Ids == ServerHandled \cup ClientHandled
       \cup {"Disconnect", "JigsawStructureData", "VoxelShapes", "CreativeContent"}
Args == {"", "LoginSuccess", "LoginFailed", "PlayerSpawn", "SendPacks", "AllPacksDownloaded",
         "Completed"}
Message == [id : Ids, arg : Args, pack : Packs \cup {NoPack}, n : Nat, packs : SUBSET Packs]
Batches == [format : Formats, packets : Seq(Message)]

DialPCs == {"expect", "request", "settings", "login", "send login", "connecting", "connected",
            "failed"}
StartPCs == {"accept", "begin", "expect", "write 1", "write 2", "write 3", "write 4", "write 5",
             "flush", "wait", "spawned", "failed"}
Listening == {"run", "ready", "connected", "frag", "deliver", "done"}
DownloadPCs == {"none", "request", "wait", "parse", "last", "announce", "done"}

(* The types of the variables the invariants below speak of. *)
StreamTypeOK ==
  /\ buffered \in [Sides -> Seq(Message)] /\ inbox \in [Sides -> Seq(Message)]
  /\ net \in [Sides -> Seq(Batches)]

FormatTypeOK ==
  /\ enc \in [Sides -> Formats] /\ dec \in [Sides -> Formats]

CallTypeOK ==
  /\ listen \in [Sides -> Listening]
  /\ expected \in [Sides -> SUBSET Ids]
  /\ closed \in [Sides -> BOOLEAN]
  /\ dial \in DialPCs /\ start \in StartPCs

SpawnTypeOK ==
  /\ loggedIn \in [Sides -> BOOLEAN] /\ waitingForSpawn \in [Sides -> BOOLEAN]
  /\ spawned \in [Sides -> Nat] /\ gameDataReceived \in BOOLEAN

PackTypeOK ==
  /\ packAmount \in Int /\ announced \in Nat
  /\ downloading \subseteq Packs /\ resourcePacks \subseteq Packs /\ ignored \subseteq Packs
  /\ dl \in [Packs -> DownloadPCs] /\ dlIndex \in [Packs -> Nat] /\ dlAmount \in [Packs -> Int]
  /\ currentOffset \in Nat

LoginTypeOK == StreamTypeOK /\ FormatTypeOK /\ CallTypeOK /\ SpawnTypeOK /\ PackTypeOK

(* The elements of a sequence, the packets and the formats of batches. *)
Of(q) == {q[i] : i \in DOMAIN q}
InNet(q) == UNION {Of(q[b].packets) : b \in DOMAIN q}
FormatsOf(q) == {q[b].format : b \in DOMAIN q}

(* The packets on their way to a side, in whichever buffer. *)
OnTheWay(s) ==
  Of(inbox[s]) \cup Of(buffered[Other(s)]) \cup InNet(net[s])

(* Nothing is; or at most m is, in a batch of its own. *)
Quiet(s) == inbox[s] = <<>> /\ net[s] = <<>> /\ buffered[Other(s)] = <<>>
Only(s, f, m) ==
  /\ buffered[Other(s)] = <<>>
  /\ \/ net[s] = <<>> /\ inbox[s] \in {<<>>, <<m>>}
     \/ net[s] = <<[format |-> f, packets |-> <<m>>]>> /\ inbox[s] = <<>>

(* The formats of the client and of the server. *)
Uses(c, s) ==
  /\ enc["client"] = c /\ dec["client"] = c
  /\ enc["server"] = s /\ dec["server"] = s

(* Before the client learns of the packs: nothing to download. *)
NoPacks == announced = 0 /\ packAmount = 0 /\ downloading = {} /\ \A p \in Packs : dl[p] = "none"

(* The application of the server has not got the Conn yet. *)
NotAccepted == start = "accept" /\ listen["server"] \in {"run", "done"}

(* The stages of the login.  Up to the offer of the resource packs the     *)
(* sides take turns: a packet that asks for a change of format travels     *)
(* alone, and whoever changed its format first waits for the other.        *)
Dialling ==
  /\ dial \in {"expect", "request", "failed"} /\ Uses("raw", "raw")
  /\ listen["client"] \in {"run", "done"}
  /\ Quiet("client") /\ Quiet("server")
Requested ==
  /\ dial \in {"settings", "failed"} /\ Uses("raw", "raw")
  /\ listen["client"] \in {"run", "done"}
  /\ Only("server", "raw", Pk("RequestNetworkSettings"))
  /\ Only("client", "raw", Status("LoginFailed"))
  /\ Quiet("server") \/ Quiet("client")
SettingsSent ==
  /\ dial \in {"settings", "failed"} /\ Uses("raw", "compressed")
  /\ listen["client"] \in {"run", "done"}
  /\ Only("client", "raw", Pk("NetworkSettings")) /\ Quiet("server")
Ready ==
  /\ dial \in {"settings", "login", "send login", "failed"} /\ Uses("compressed", "compressed")
  /\ Quiet("client") /\ Quiet("server")
LoginSent ==
  /\ dial \in {"connecting", "connected", "failed"} /\ Uses("compressed", "compressed")
  /\ Only("server", "compressed", Pk("Login"))
  /\ Only("client", "compressed", Pk("Disconnect"))
  /\ Quiet("server") \/ Quiet("client")
HandshakeSent ==
  /\ dial \in {"connecting", "connected", "failed"} /\ Uses("compressed", "encrypted")
  /\ Only("client", "compressed", Pk("ServerToClientHandshake")) /\ Quiet("server")
Secured ==
  /\ dial \in {"connecting", "connected", "failed"} /\ Uses("encrypted", "encrypted")
  /\ Only("server", "encrypted", Pk("ClientToServerHandshake")) /\ Quiet("client")

Early ==
  /\ NotAccepted /\ NoPacks
  /\ Dialling \/ Requested \/ SettingsSent \/ Ready \/ LoginSent \/ HandshakeSent \/ Secured

(* The packs have been offered: the formats are what they will be, nothing *)
(* that changes them is on its way...                                      *)
Offer == <<Status("LoginSuccess"), Pk("ResourcePacksInfo")>>
Changes == {"RequestNetworkSettings", "NetworkSettings", "Login", "ServerToClientHandshake",
            "ClientToServerHandshake"}
Settled(f) ==
  /\ dial \in {"connecting", "connected", "failed"} /\ Uses(f, f)
  /\ \A s \in Sides : FormatsOf(net[s]) \subseteq {f}
  /\ \A s \in Sides : \A m \in OnTheWay(s) : m.id \notin Changes

(* ...and the offer is the one packet in flight to the client, or was.     *)
Offered(f) ==
  /\ NotAccepted /\ NoPacks
  /\ buffered["server"] = <<>>
  /\ \/ net["client"] = <<>> /\ inbox["client"] \in {Offer, Tail(Offer)}
     \/ net["client"] = <<[format |-> f, packets |-> Offer]>> /\ inbox["client"] = <<>>
  /\ \A m \in OnTheWay("server") : m = Pk("ClientCacheStatus")
NoOffer == \A m \in OnTheWay("client") : m.id # "ResourcePacksInfo"

Late == \E f \in Formats : Settled(f) /\ (Offered(f) \/ NoOffer)

StageInv == Early \/ Late

(* The packs the client waits for are counted, and the goroutine that      *)
(* counted the last one is the one that announces it.                      *)
IsLast(p) == dl[p] = "announce" \/ (dl[p] = "last" /\ dlAmount[p] = 0)
Counted ==
  /\ packAmount = Cardinality(Packs \ (resourcePacks \cup ignored))
  /\ \A p \in Packs : dl[p] \in {"request", "wait", "parse"} => p \notin resourcePacks \cup ignored
  /\ \A p \in downloading : p \notin resourcePacks \cup ignored /\ dl[p] = "none"
  /\ \A p \in Packs : IsLast(p) =>
       packAmount = 0 /\ announced = 0 /\ \A q \in Packs : IsLast(q) => q = p
  /\ announced <= 1 /\ (announced = 1 => packAmount = 0)

PackInv == NoPacks \/ Counted

(* The spawn. *)
AnnouncesSpawn(m) ==
  m.id = "ChunkRadiusUpdated" \/ (m.id = "PlayStatus" /\ m.arg = "PlayerSpawn")
GameData == {"StartGame", "ItemRegistry"}
ServerSpawnInv ==
  /\ start # "accept" \/ listen["server"] = "deliver" => loggedIn["server"]
  /\ "RequestChunkRadius" \in expected["server"] => loggedIn["server"]
  /\ \A m \in OnTheWay("client") : AnnouncesSpawn(m) => loggedIn["server"]
  /\ start \in {"accept", "begin"} => spawned["server"] = 0 /\ ~waitingForSpawn["server"]
  /\ spawned["server"] # 0 =>
       spawned["server"] = 1 /\ loggedIn["client"] /\ ~waitingForSpawn["server"]
ClientSpawnInv ==
  /\ "ItemRegistry" \in expected["client"] => "StartGame" \in received
  /\ "ChunkRadiusUpdated" \in expected["client"] => GameData \subseteq received
  /\ gameDataReceived =>
       GameData \cup {"ChunkRadiusUpdated"} \subseteq received /\ loggedIn["server"]
  /\ waitingForSpawn["client"] => "PlayerSpawn" \in received /\ loggedIn["server"]
  /\ loggedIn["client"] =>
       /\ GameData \cup {"ChunkRadiusUpdated", "PlayerSpawn"} \subseteq received
       /\ loggedIn["server"] /\ ~waitingForSpawn["client"]
  /\ spawned["client"] = (IF loggedIn["client"] THEN 1 ELSE 0)
  /\ \A m \in OnTheWay("server") : m.id = "SetLocalPlayerAsInitialised" => loggedIn["client"]

SpawnInv == ServerSpawnInv /\ ClientSpawnInv

LoginInv == LoginTypeOK /\ StageInv /\ PackInv /\ SpawnInv

------------------------------------------------------------------------------
(* Streams of packets. *)

LEMMA OfConcat ==
  ASSUME NEW S, NEW q \in Seq(S), NEW r \in Seq(S)
  PROVE  q \o r \in Seq(S) /\ Of(q \o r) \subseteq Of(q) \cup Of(r)
<1>1. /\ q \o r \in Seq(S) /\ Len(q \o r) = Len(q) + Len(r)
      /\ \A i \in 1 .. Len(q) + Len(r) : (q \o r)[i] = IF i <= Len(q) THEN q[i] ELSE r[i - Len(q)]
  BY ConcatProperties
<1> DEFINE s == q \o r
<1>2. s \in Seq(S) /\ Len(s) = Len(q) + Len(r)
      /\ \A i \in 1 .. Len(q) + Len(r) : s[i] = IF i <= Len(q) THEN q[i] ELSE r[i - Len(q)]
  BY <1>1
<1> HIDE DEF s
<1>3. DOMAIN s = 1 .. Len(s) /\ DOMAIN q = 1 .. Len(q) /\ DOMAIN r = 1 .. Len(r)
      /\ Len(q) \in Nat /\ Len(r) \in Nat
  BY <1>2, LenProperties
<1>4. ASSUME NEW i \in DOMAIN s PROVE s[i] \in Of(q) \cup Of(r)
  <2>1. CASE i <= Len(q)
    BY <1>2, <1>3, <2>1 DEF Of
  <2>2. CASE ~(i <= Len(q))
    <3>1. i - Len(q) \in DOMAIN r /\ s[i] = r[i - Len(q)]
      BY <1>2, <1>3, <2>2
    <3> QED BY <3>1 DEF Of
  <2> QED BY <2>1, <2>2
<1>5. Of(s) \subseteq Of(q) \cup Of(r)
  BY <1>4 DEF Of
<1> QED BY <1>1, <1>5 DEF s

LEMMA OfParts ==
  ASSUME NEW S, NEW q \in Seq(S), q # <<>>
  PROVE  /\ Head(q) \in S /\ Head(q) \in Of(q)
         /\ Tail(q) \in Seq(S) /\ Of(Tail(q)) \subseteq Of(q)
<1>1. Head(q) \in S /\ Tail(q) \in Seq(S) /\ Len(Tail(q)) = Len(q) - 1
      /\ \A i \in 1 .. Len(Tail(q)) : Tail(q)[i] = q[i + 1]
  BY HeadTailProperties
<1>2. DOMAIN q = 1 .. Len(q) /\ Len(q) \in Nat \ {0} /\ Head(q) = q[1]
  BY LenProperties, EmptySeq
<1> DEFINE t == Tail(q)
<1>3. t \in Seq(S) /\ Len(t) = Len(q) - 1 /\ \A i \in 1 .. Len(t) : t[i] = q[i + 1]
  BY <1>1
<1> HIDE DEF t
<1>4. DOMAIN t = 1 .. Len(t)
  BY <1>3, LenProperties
<1>5. \A i \in DOMAIN t : i + 1 \in DOMAIN q /\ t[i] = q[i + 1]
  BY <1>2, <1>3, <1>4
<1>6. Of(t) \subseteq Of(q)
  BY <1>5 DEF Of
<1>7. Head(q) \in Of(q)
  BY <1>2 DEF Of
<1> QED BY <1>1, <1>6, <1>7 DEF t

LEMMA NetConcat ==
  ASSUME NEW q \in Seq(Batches), NEW r \in Seq(Batches)
  PROVE  /\ q \o r \in Seq(Batches)
         /\ InNet(q \o r) \subseteq InNet(q) \cup InNet(r)
         /\ FormatsOf(q \o r) \subseteq FormatsOf(q) \cup FormatsOf(r)
<1>1. q \o r \in Seq(Batches) /\ Of(q \o r) \subseteq Of(q) \cup Of(r)
  BY OfConcat
<1> DEFINE s == q \o r
<1>2. \A i \in DOMAIN s : (\E j \in DOMAIN q : s[i] = q[j]) \/ (\E j \in DOMAIN r : s[i] = r[j])
  BY <1>1 DEF Of
<1> HIDE DEF s
<1>3. InNet(s) \subseteq InNet(q) \cup InNet(r)
  BY <1>2 DEF InNet
<1>4. FormatsOf(s) \subseteq FormatsOf(q) \cup FormatsOf(r)
  BY <1>2 DEF FormatsOf
<1> QED BY <1>1, <1>3, <1>4 DEF s

LEMMA NetParts ==
  ASSUME NEW q \in Seq(Batches), q # <<>>
  PROVE  /\ Head(q) \in Batches /\ Of(Head(q).packets) \subseteq InNet(q)
         /\ Head(q).format \in FormatsOf(q)
         /\ Tail(q) \in Seq(Batches)
         /\ InNet(Tail(q)) \subseteq InNet(q) /\ FormatsOf(Tail(q)) \subseteq FormatsOf(q)
<1>1. /\ Head(q) \in Batches /\ Head(q) \in Of(q)
      /\ Tail(q) \in Seq(Batches) /\ Of(Tail(q)) \subseteq Of(q)
  BY OfParts
<1> DEFINE t == Tail(q)
<1>2. \A i \in DOMAIN t : \E j \in DOMAIN q : t[i] = q[j]
  BY <1>1 DEF Of
<1>3. \E j \in DOMAIN q : Head(q) = q[j]
  BY <1>1 DEF Of
<1> HIDE DEF t
<1>4. InNet(t) \subseteq InNet(q)
  BY <1>2 DEF InNet
<1>5. FormatsOf(t) \subseteq FormatsOf(q)
  BY <1>2 DEF FormatsOf
<1>6. Of(Head(q).packets) \subseteq InNet(q)
  BY <1>3 DEF InNet
<1>7. Head(q).format \in FormatsOf(q)
  BY <1>3 DEF FormatsOf
<1> QED BY <1>1, <1>4, <1>5, <1>6, <1>7 DEF t

LEMMA OfBatch ==
  ASSUME NEW f \in Formats, NEW q \in Seq(Message)
  PROVE  /\ Batch(f, q) \in Seq(Batches)
         /\ InNet(Batch(f, q)) \subseteq Of(q) /\ FormatsOf(Batch(f, q)) \subseteq {f}
<1>1. CASE q = <<>>
  <2>1. Batch(f, q) = <<>>
    BY <1>1 DEF Batch
  <2> QED BY <2>1 DEF InNet, FormatsOf
<1>2. CASE q # <<>>
  <2> DEFINE b == [format |-> f, packets |-> q]
  <2>1. Batch(f, q) = <<b>> /\ b \in Batches /\ b.format = f /\ b.packets = q
    BY <1>2 DEF Batch, Batches
  <2> HIDE DEF b
  <2>2. <<b>> \in Seq(Batches) /\ DOMAIN <<b>> = {1} /\ <<b>>[1] = b
    BY <2>1
  <2>3. InNet(<<b>>) \subseteq Of(q)
    BY <2>1, <2>2 DEF InNet
  <2>4. FormatsOf(<<b>>) \subseteq {f}
    BY <2>1, <2>2 DEF FormatsOf
  <2> QED BY <2>1, <2>2, <2>3, <2>4
<1> QED BY <1>1, <1>2

------------------------------------------------------------------------------
(* What a step may do to the streams: a side takes a packet that arrived,  *)
(* and s writes the packets of new, which leave in format f.               *)
Takes == inbox' = inbox \/ \E t \in Sides : inbox[t] # <<>> /\ inbox' = [inbox EXCEPT ![t] = Tail(@)]

Adds(s, f, new) ==
  /\ StreamTypeOK'
  /\ OnTheWay(Other(s))' \subseteq OnTheWay(Other(s)) \cup new
  /\ OnTheWay(s)' \subseteq OnTheWay(s)
  /\ \A t \in Sides : FormatsOf(net[t])' \subseteq FormatsOf(net[t]) \cup {f}

LEMMA TakesShrinks ==
  ASSUME StreamTypeOK, Takes
  PROVE  /\ inbox' \in [Sides -> Seq(Message)]
         /\ \A t \in Sides : Of(inbox'[t]) \subseteq Of(inbox[t])
<1>1. CASE inbox' = inbox
  BY <1>1 DEF StreamTypeOK
<1>2. CASE \E t \in Sides : inbox[t] # <<>> /\ inbox' = [inbox EXCEPT ![t] = Tail(@)]
  <2>1. PICK t \in Sides : inbox[t] # <<>> /\ inbox' = [inbox EXCEPT ![t] = Tail(inbox[t])]
    BY <1>2
  <2>2. inbox[t] \in Seq(Message)
    BY DEF StreamTypeOK
  <2>3. Tail(inbox[t]) \in Seq(Message) /\ Of(Tail(inbox[t])) \subseteq Of(inbox[t])
    BY <2>1, <2>2, OfParts
  <2> DEFINE r == Tail(inbox[t])
  <2>4. r \in Seq(Message) /\ Of(r) \subseteq Of(inbox[t]) /\ inbox' = [inbox EXCEPT ![t] = r]
    BY <2>1, <2>3
  <2> HIDE DEF r
  <2>5. inbox' \in [Sides -> Seq(Message)] /\ \A u \in Sides : inbox'[u] = IF u = t THEN r ELSE inbox[u]
    BY <2>4 DEF StreamTypeOK
  <2> QED BY <2>4, <2>5
<1> QED BY <1>1, <1>2 DEF Takes

LEMMA OtherSide ==
  ASSUME NEW s \in Sides
  PROVE  Other(s) \in Sides /\ Other(s) # s /\ Other(Other(s)) = s /\ Sides = {s, Other(s)}
BY DEF Sides, Other

LEMMA AddsSend ==
  ASSUME StreamTypeOK, Takes, NEW s \in Sides, NEW f \in Formats,
         NEW pks \in Seq(Message), NEW more \in Seq(Message), SendAs(s, f, pks, more)
  PROVE  Adds(s, f, Of(pks) \cup Of(more))
<1> DEFINE o == Other(s)
<1>1. o \in Sides /\ o # s /\ Other(o) = s /\ Sides = {s, o}
  BY OtherSide
<1>2. inbox' \in [Sides -> Seq(Message)] /\ \A t \in Sides : Of(inbox'[t]) \subseteq Of(inbox[t])
  BY TakesShrinks
<1>3. CASE closed[s]
  <2>1. buffered' = buffered /\ net' = net
    BY <1>3 DEF SendAs, sendVars
  <2> HIDE DEF o
  <2> QED BY <1>1, <1>2, <2>1 DEF Adds, StreamTypeOK, OnTheWay, o
<1>4. CASE ~closed[s]
  <2> DEFINE all == buffered[s] \o pks
             sent == net[o] \o Batch(f, all) \o Batch(f, more)
  <2>1. net' = [net EXCEPT ![o] = sent] /\ buffered' = [buffered EXCEPT ![s] = <<>>]
    BY <1>4 DEF SendAs
  <2>2. buffered[s] \in Seq(Message) /\ net[o] \in Seq(Batches)
    BY <1>1 DEF StreamTypeOK
  <2>3. all \in Seq(Message) /\ Of(all) \subseteq Of(buffered[s]) \cup Of(pks)
    BY <2>2, OfConcat
  <2> HIDE DEF all
  <2>4. /\ Batch(f, all) \in Seq(Batches) /\ Batch(f, more) \in Seq(Batches)
        /\ InNet(Batch(f, all)) \subseteq Of(all) /\ InNet(Batch(f, more)) \subseteq Of(more)
        /\ FormatsOf(Batch(f, all)) \subseteq {f} /\ FormatsOf(Batch(f, more)) \subseteq {f}
    BY <2>3, OfBatch
  <2> DEFINE B == Batch(f, all)
             C == Batch(f, more)
  <2>5. /\ B \in Seq(Batches) /\ C \in Seq(Batches) /\ sent = net[o] \o B \o C
        /\ InNet(B) \subseteq Of(all) /\ InNet(C) \subseteq Of(more)
        /\ FormatsOf(B) \subseteq {f} /\ FormatsOf(C) \subseteq {f}
    BY <2>4
  <2> HIDE DEF B, C
  <2>6. /\ net[o] \o B \in Seq(Batches) /\ InNet(net[o] \o B) \subseteq InNet(net[o]) \cup InNet(B)
        /\ FormatsOf(net[o] \o B) \subseteq FormatsOf(net[o]) \cup FormatsOf(B)
    BY <2>2, <2>5, NetConcat
  <2> DEFINE D == net[o] \o B
  <2>7. /\ D \in Seq(Batches) /\ InNet(D) \subseteq InNet(net[o]) \cup InNet(B)
        /\ FormatsOf(D) \subseteq FormatsOf(net[o]) \cup FormatsOf(B) /\ sent = D \o C
    BY <2>5, <2>6
  <2> HIDE DEF D, sent
  <2>8. D \o C \in Seq(Batches) /\ InNet(D \o C) \subseteq InNet(D) \cup InNet(C)
        /\ FormatsOf(D \o C) \subseteq FormatsOf(D) \cup FormatsOf(C)
    BY <2>5, <2>7, NetConcat
  <2>9. /\ sent \in Seq(Batches)
        /\ InNet(sent) \subseteq InNet(net[o]) \cup Of(buffered[s]) \cup Of(pks) \cup Of(more)
        /\ FormatsOf(sent) \subseteq FormatsOf(net[o]) \cup {f}
    BY <2>3, <2>5, <2>7, <2>8
  <2> HIDE DEF o
  <2>10. /\ net' \in [Sides -> Seq(Batches)] /\ net'[o] = sent /\ net'[s] = net[s]
         /\ buffered' \in [Sides -> Seq(Message)] /\ buffered'[s] = <<>> /\ buffered'[o] = buffered[o]
    BY <1>1, <2>1, <2>9 DEF StreamTypeOK
  <2>11. Of(<<>>) = {}
    BY DEF Of
  <2>12. StreamTypeOK'
    BY <1>2, <2>10 DEF StreamTypeOK
  <2>13. OnTheWay(o)' \subseteq OnTheWay(o) \cup Of(pks) \cup Of(more)
    BY <1>1, <1>2, <2>9, <2>10, <2>11 DEF OnTheWay
  <2>14. OnTheWay(s)' \subseteq OnTheWay(s)
    BY <1>1, <1>2, <2>10 DEF OnTheWay, o
  <2>15. \A t \in Sides : FormatsOf(net[t])' \subseteq FormatsOf(net[t]) \cup {f}
    BY <1>1, <2>9, <2>10
  <2> QED BY <2>12, <2>13, <2>14, <2>15 DEF Adds, o
<1> QED BY <1>3, <1>4

LEMMA AddsBuffer ==
  ASSUME StreamTypeOK, inbox' = inbox, NEW s \in Sides, NEW f, NEW pks \in Seq(Message), Buffer(s, pks)
  PROVE  Adds(s, f, Of(pks))
<1> DEFINE o == Other(s)
           b == IF closed[s] THEN buffered[s] ELSE buffered[s] \o pks
<1>1. o \in Sides /\ o # s /\ Other(o) = s /\ Sides = {s, o} /\ Other(s) = o
  BY OtherSide
<1>2. buffered[s] \in Seq(Message)
  BY DEF StreamTypeOK
<1>3. b \in Seq(Message) /\ Of(b) \subseteq Of(buffered[s]) \cup Of(pks)
  BY <1>2, OfConcat
<1>4. net' = net /\ buffered' = [buffered EXCEPT ![s] = b]
  BY DEF Buffer
<1> HIDE DEF b, o
<1>5. buffered' \in [Sides -> Seq(Message)] /\ buffered'[s] = b /\ buffered'[o] = buffered[o]
  BY <1>1, <1>3, <1>4 DEF StreamTypeOK
<1> QED BY <1>1, <1>3, <1>4, <1>5 DEF Adds, StreamTypeOK, OnTheWay

LEMMA AddsNothing ==
  ASSUME StreamTypeOK, Takes, UNCHANGED sendVars, NEW s \in Sides, NEW f
  PROVE  Adds(s, f, {})
<1>1. inbox' \in [Sides -> Seq(Message)] /\ \A t \in Sides : Of(inbox'[t]) \subseteq Of(inbox[t])
  BY TakesShrinks
<1>2. Other(s) \in Sides
  BY OtherSide
<1> QED BY <1>1, <1>2 DEF Adds, StreamTypeOK, OnTheWay, sendVars

LEMMA AddsDecode ==
  ASSUME StreamTypeOK, NEW s \in Sides, DecodeFunc(s), NEW f
  PROVE  Adds(s, f, {})
<1> DEFINE q == net[s]
<1>1. q \in Seq(Batches) /\ q # <<>> /\ buffered' = buffered
  BY DEF DecodeFunc, StreamTypeOK
<1>2. /\ Head(q) \in Batches /\ Of(Head(q).packets) \subseteq InNet(q)
      /\ Tail(q) \in Seq(Batches) /\ InNet(Tail(q)) \subseteq InNet(q)
      /\ FormatsOf(Tail(q)) \subseteq FormatsOf(q)
  BY <1>1, NetParts
<1> DEFINE h == Head(q).packets
           t == Tail(q)
<1>3. h \in Seq(Message) /\ inbox' = [inbox EXCEPT ![s] = h] /\ net' = [net EXCEPT ![s] = t]
  BY <1>2 DEF DecodeFunc, Batches
<1>4. t \in Seq(Batches) /\ Of(h) \subseteq InNet(q) /\ InNet(t) \subseteq InNet(q)
      /\ FormatsOf(t) \subseteq FormatsOf(q)
  BY <1>2
<1> HIDE DEF h, t
<1>5. /\ inbox' \in [Sides -> Seq(Message)] /\ inbox'[s] = h
      /\ net' \in [Sides -> Seq(Batches)] /\ net'[s] = t
      /\ \A u \in Sides : u # s => inbox'[u] = inbox[u] /\ net'[u] = net[u]
  BY <1>3, <1>4 DEF StreamTypeOK
<1>6. Other(s) \in Sides /\ Other(s) # s
  BY OtherSide
<1>7. OnTheWay(s)' \subseteq OnTheWay(s) /\ OnTheWay(Other(s))' \subseteq OnTheWay(Other(s))
  BY <1>1, <1>4, <1>5, <1>6 DEF OnTheWay
<1>8. StreamTypeOK'
  BY <1>1, <1>5 DEF StreamTypeOK
<1>9. \A u \in Sides : FormatsOf(net[u])' \subseteq FormatsOf(net[u]) \cup {f}
  BY <1>4, <1>5
<1> QED BY <1>7, <1>8, <1>9 DEF Adds

------------------------------------------------------------------------------
(* The packets that are written. *)

LEMMA Messages ==
  /\ \A id \in Ids : Pk(id) \in Message /\ Pk(id).id = id
  /\ \A a \in Args : Status(a) \in Message /\ Status(a).id = "PlayStatus" /\ Status(a).arg = a
  /\ \A a \in Args, ps \in SUBSET Packs :
       Response(a, ps) \in Message /\ Response(a, ps).id = "ResourcePackClientResponse"
  /\ \A id \in Ids, p \in Packs \cup {NoPack}, n \in Nat :
       PackPk(id, p, n) \in Message /\ PackPk(id, p, n).id = id
<1> USE DEF Message, Pk
<1>1. "" \in Args /\ "PlayStatus" \in Ids /\ "ResourcePackClientResponse" \in Ids
  BY DEF Args, Ids, ServerHandled, ClientHandled
<1>2. \A id \in Ids : Pk(id) \in Message /\ Pk(id).id = id
  BY <1>1
<1>3. \A a \in Args : Status(a) \in Message /\ Status(a).id = "PlayStatus" /\ Status(a).arg = a
  BY <1>1 DEF Status
<1>4. \A a \in Args, ps \in SUBSET Packs :
        Response(a, ps) \in Message /\ Response(a, ps).id = "ResourcePackClientResponse"
  BY <1>1 DEF Response
<1>5. \A id \in Ids, p \in Packs \cup {NoPack}, n \in Nat :
        PackPk(id, p, n) \in Message /\ PackPk(id, p, n).id = id
  BY <1>1 DEF PackPk
<1> QED BY <1>2, <1>3, <1>4, <1>5

LEMMA OfOne ==
  ASSUME NEW S, NEW m \in S
  PROVE  <<m>> \in Seq(S) /\ Of(<<m>>) = {m}
BY DEF Of

LEMMA OfNone ==
  ASSUME NEW S
  PROVE  <<>> \in Seq(S) /\ Of(<<>>) = {}
BY DEF Of

LEMMA OfOffer == Offer \in Seq(Message) /\ Of(Offer) = {Status("LoginSuccess"), Pk("ResourcePacksInfo")}
<1>1. Status("LoginSuccess") \in Message /\ Pk("ResourcePacksInfo") \in Message
  BY Messages DEF Args, Ids, ClientHandled
<1> QED BY <1>1 DEF Offer, Of

(* A handler has a packet that was on its way to its side. *)
LEMMA Handled ==
  ASSUME StreamTypeOK, NEW s \in Sides, NEW id, Handle(s, id)
  PROVE  /\ Takes /\ inbox[s] # <<>> /\ pk(s) \in Message /\ pk(s) \in OnTheWay(s)
         /\ pk(s).id = id /\ id \in expected[s] /\ listen[s] = "run"
         /\ ~(loggedIn[s] /\ ~waitingForSpawn[s])
<1>1. inbox[s] # <<>> /\ inbox[s] \in Seq(Message) /\ inbox' = [inbox EXCEPT ![s] = Tail(inbox[s])]
  BY DEF Handle, Received, StreamTypeOK
<1>2. Head(inbox[s]) \in Message /\ Head(inbox[s]) \in Of(inbox[s])
  BY <1>1, OfParts
<1> QED BY <1>1, <1>2 DEF Handle, Received, ToApplication, Takes, pk, OnTheWay

(* What every step writes: nothing that changes a format or offers the     *)
(* packs, unless it answers such a packet or is of the first half of Dial; *)
(* nothing of the spawn, but for two handlers.                             *)
Opening == Changes \cup {"ResourcePacksInfo"}
Plain(m) ==
  /\ m.id \notin Opening
  /\ m.id # "SetLocalPlayerAsInitialised" /\ m.id # "ChunkRadiusUpdated"
  /\ ~(m.id = "PlayStatus" /\ m.arg = "PlayerSpawn")

Regular(s, f, new) ==
  /\ f = enc[s] /\ UNCHANGED <<enc, dec>> /\ dial' \in {dial, "connected", "failed"}
  /\ \A m \in new : m.id \notin Opening
Opens ==
  \/ \E t \in Sides : inbox[t] # <<>> /\ pk(t) \in OnTheWay(t) /\ pk(t).id \in Changes
  \/ dial \in {"expect", "request", "settings", "login", "send login"}
Traffic(s, f, new) ==
  /\ Adds(s, f, new)
  /\ \A m \in new : m.id = "SetLocalPlayerAsInitialised" => s = "client" /\ loggedIn'["client"]
  /\ \A m \in new : AnnouncesSpawn(m) => s = "server" /\ "RequestChunkRadius" \in expected["server"]
  /\ Regular(s, f, new) \/ Opens
HasTraffic == \E s \in Sides, f \in Formats, new \in SUBSET Message : Traffic(s, f, new)

LEMMA OfSubset ==
  ASSUME NEW S, NEW q \in Seq(S)
  PROVE  Of(q) \in SUBSET S
<1>1. q \in [1 .. Len(q) -> S] /\ DOMAIN q = 1 .. Len(q)
  BY LenProperties
<1> QED BY <1>1 DEF Of

LEMMA PlainTraffic ==
  ASSUME NEW s \in Sides, NEW f \in Formats, NEW new \in SUBSET Message, Adds(s, f, new),
         \A m \in new : Plain(m), Regular(s, f, new) \/ Opens
  PROVE  HasTraffic
<1>1. \A m \in new : ~AnnouncesSpawn(m) /\ m.id # "SetLocalPlayerAsInitialised"
  BY DEF Plain, AnnouncesSpawn
<1> QED BY <1>1 DEF HasTraffic, Traffic

(* The step of a side that changes no format and writes plain packets. *)
Steady == UNCHANGED <<enc, dec>> /\ dial' \in {dial, "connected", "failed"}

LEMMA SendsPlain ==
  ASSUME StreamTypeOK, FormatTypeOK, Takes, Steady, NEW s \in Sides,
         NEW pks \in Seq(Message), NEW more \in Seq(Message), SendAs(s, enc[s], pks, more),
         \A m \in Of(pks) \cup Of(more) : Plain(m)
  PROVE  HasTraffic
<1>1. enc[s] \in Formats
  BY DEF FormatTypeOK
<1>2. Adds(s, enc[s], Of(pks) \cup Of(more))
  BY <1>1, AddsSend
<1>3. Of(pks) \cup Of(more) \in SUBSET Message
  BY OfSubset
<1>4. Regular(s, enc[s], Of(pks) \cup Of(more))
  BY DEF Regular, Steady, Plain
<1> QED BY <1>1, <1>2, <1>3, <1>4, PlainTraffic

LEMMA SendsOne ==
  ASSUME StreamTypeOK, FormatTypeOK, Takes, Steady, NEW s \in Sides,
         NEW m \in Message, Send(s, <<m>>), Plain(m)
  PROVE  HasTraffic
<1>1. <<m>> \in Seq(Message) /\ Of(<<m>>) = {m} /\ <<>> \in Seq(Message) /\ Of(<<>>) = {}
  BY OfOne, OfNone
<1>2. SendAs(s, enc[s], <<m>>, <<>>)
  BY DEF Send
<1> QED BY <1>1, <1>2, SendsPlain

LEMMA SendsNothing ==
  ASSUME StreamTypeOK, FormatTypeOK, Takes, Steady,
         UNCHANGED sendVars \/ \E s \in Sides : Send(s, <<>>)
  PROVE  HasTraffic
<1>1. <<>> \in Seq(Message) /\ Of(<<>>) = {}
  BY OfNone
<1>2. CASE UNCHANGED sendVars
  <2>1. "client" \in Sides /\ enc["client"] \in Formats
    BY DEF Sides, FormatTypeOK
  <2>2. Adds("client", enc["client"], {})
    BY <1>2, <2>1, AddsNothing
  <2> QED BY <2>1, <2>2, PlainTraffic DEF Regular, Steady
<1>3. CASE \E s \in Sides : Send(s, <<>>)
  <2>1. PICK s \in Sides : SendAs(s, enc[s], <<>>, <<>>)
    BY <1>3 DEF Send
  <2> QED BY <1>1, <2>1, SendsPlain
<1> QED BY <1>2, <1>3

(* The failing handler. *)
LEMMA FailureSteady ==
  ASSUME NEW s, NEW ids, NEW pks, FailsExpecting(s, ids, pks)
  PROVE  Steady /\ Send(s, pks)
BY DEF FailsExpecting, Steady, formatVars

LEMMA FailsPlain ==
  ASSUME StreamTypeOK, FormatTypeOK, Takes, NEW s \in Sides, NEW ids,
         \/ FailsExpecting(s, ids, <<>>)
         \/ \E m \in Message : Plain(m) /\ FailsExpecting(s, ids, <<m>>)
  PROVE  HasTraffic
<1>1. CASE FailsExpecting(s, ids, <<>>)
  BY <1>1, FailureSteady, SendsNothing
<1>2. CASE \E m \in Message : Plain(m) /\ FailsExpecting(s, ids, <<m>>)
  BY <1>2, FailureSteady, SendsOne
<1> QED BY <1>1, <1>2

LEMMA PlainPackets ==
  /\ \A id \in {"ClientCacheStatus", "ResourcePackStack", "Disconnect", "RequestChunkRadius",
                "CreativeContent", "DimensionData", "JigsawStructureData", "VoxelShapes", "StartGame",
                "ItemRegistry"} : Pk(id) \in Message /\ Plain(Pk(id))
  /\ Status("LoginFailed") \in Message /\ Plain(Status("LoginFailed"))
  /\ \A a \in Args, ps \in SUBSET Packs : Response(a, ps) \in Message /\ Plain(Response(a, ps))
  /\ \A id \in {"ResourcePackDataInfo", "ResourcePackChunkData", "ResourcePackChunkRequest"},
        p \in Packs \cup {NoPack}, n \in Nat :
          PackPk(id, p, n) \in Message /\ Plain(PackPk(id, p, n))
<1> USE DEF Plain, Opening, Changes
<1>1. ASSUME NEW id \in {"ClientCacheStatus", "ResourcePackStack", "Disconnect", "RequestChunkRadius",
                "CreativeContent", "DimensionData", "JigsawStructureData", "VoxelShapes", "StartGame",
                "ItemRegistry"}
      PROVE  Pk(id) \in Message /\ Plain(Pk(id))
  <2>1. id \in Ids
    BY DEF Ids, ClientHandled, ServerHandled
  <2>2. Pk(id) \in Message /\ Pk(id).id = id
    BY <2>1, Messages
  <2> QED BY <2>2
<1>2. Status("LoginFailed") \in Message /\ Plain(Status("LoginFailed"))
  <2>1. Status("LoginFailed") \in Message /\ Status("LoginFailed").id = "PlayStatus"
        /\ Status("LoginFailed").arg = "LoginFailed"
    BY Messages DEF Args
  <2> QED BY <2>1
<1>3. ASSUME NEW a \in Args, NEW ps \in SUBSET Packs
      PROVE  Response(a, ps) \in Message /\ Plain(Response(a, ps))
  <2>1. Response(a, ps) \in Message /\ Response(a, ps).id = "ResourcePackClientResponse"
    BY Messages
  <2> QED BY <2>1
<1>4. ASSUME NEW id \in {"ResourcePackDataInfo", "ResourcePackChunkData", "ResourcePackChunkRequest"},
             NEW p \in Packs \cup {NoPack}, NEW n \in Nat
      PROVE  PackPk(id, p, n) \in Message /\ Plain(PackPk(id, p, n))
  <2>1. id \in Ids
    BY DEF Ids, ClientHandled, ServerHandled
  <2>2. PackPk(id, p, n) \in Message /\ PackPk(id, p, n).id = id
    BY <2>1, Messages
  <2> QED BY <2>2
<1> QED BY <1>1, <1>2, <1>3, <1>4

LEMMA ReceiverTraffic ==
  ASSUME LoginTypeOK, NEW s \in Sides,
         \/ DecodeFunc(s) \/ deferPacket(s) \/ receiveDisconnect(s) \/ ReadFails(s)
         \/ Tick(s) \/ Drop(s) \/ DialContextDone
  PROVE  HasTraffic
<1> USE DEF LoginTypeOK
<1>1. CASE DecodeFunc(s)
  <2>1. enc[s] \in Formats /\ Adds(s, enc[s], {})
    BY <1>1, AddsDecode DEF FormatTypeOK
  <2>2. Regular(s, enc[s], {})
    BY <1>1 DEF DecodeFunc, Regular, formatVars, callVars
  <2> QED BY <2>1, <2>2, PlainTraffic
<1>2. CASE deferPacket(s)
  <2>1. Takes /\ Steady /\ UNCHANGED sendVars
    BY <1>2 DEF deferPacket, Takes, Steady, Received, formatVars, callVars
  <2> QED BY <2>1, SendsNothing
<1>3. CASE receiveDisconnect(s)
  <2>1. Takes /\ Steady /\ Send(s, <<>>)
    BY <1>3 DEF receiveDisconnect, Takes, Steady, Received, formatVars, callVars
  <2> QED BY <2>1, SendsNothing
<1>4. CASE ReadFails(s)
  <2>1. Takes /\ Steady /\ Send(s, <<>>)
    BY <1>4 DEF ReadFails, Takes, Steady, formatVars
  <2> QED BY <2>1, SendsNothing
<1>5. CASE Tick(s)
  <2>1. Takes /\ Steady /\ Send(s, <<>>)
    BY <1>5 DEF Tick, Takes, Steady, formatVars, callVars
  <2> QED BY <2>1, SendsNothing
<1>6. CASE Drop(s)
  <2>1. Takes /\ Steady /\ UNCHANGED sendVars
    BY <1>6 DEF Drop, Takes, Steady, formatVars, callVars
  <2> QED BY <2>1, SendsNothing
<1>7. CASE DialContextDone
  <2>1. Takes /\ Steady /\ UNCHANGED sendVars
    BY <1>7 DEF DialContextDone, Takes, Steady, formatVars
  <2> QED BY <2>1, SendsNothing
<1> QED BY <1>1, <1>2, <1>3, <1>4, <1>5, <1>6, <1>7

LEMMA DownloadTraffic ==
  ASSUME LoginTypeOK, NEW p \in Packs, Download(p)
  PROVE  HasTraffic
<1> USE DEF LoginTypeOK
<1>1. "client" \in Sides /\ enc["client"] \in Formats
  BY DEF Sides, FormatTypeOK
<1>2. ASSUME NEW m \in Message, Plain(m), Buffer("client", <<m>>), inbox' = inbox, Steady
      PROVE  HasTraffic
  <2>1. <<m>> \in Seq(Message) /\ Of(<<m>>) = {m}
    BY OfOne
  <2>2. Adds("client", enc["client"], {m})
    BY <1>1, <1>2, <2>1, AddsBuffer
  <2>3. Regular("client", enc["client"], {m})
    BY <1>2 DEF Regular, Steady, Plain
  <2> QED BY <1>1, <1>2, <2>2, <2>3, PlainTraffic
<1>3. downloadVars' = downloadVars => Takes /\ inbox' = inbox /\ Steady
  BY DEF downloadVars, Takes, Steady, formatVars, callVars
<1>4. CASE requestChunk(p)
  <2> DEFINE m == PackPk("ResourcePackChunkRequest", p, dlIndex[p])
  <2>1. dlIndex[p] \in Nat
    BY DEF PackTypeOK
  <2>2. m \in Message /\ Plain(m)
    BY <2>1, PlainPackets
  <2>3. Buffer("client", <<m>>) /\ downloadVars' = downloadVars
    BY <1>4 DEF requestChunk
  <2> HIDE DEF m
  <2> QED BY <1>3, <1>2, <2>2, <2>3
<1>5. CASE receiveFrag(p)
  <2>1. Send("client", <<>>) /\ downloadVars' = downloadVars
    BY <1>5 DEF receiveFrag
  <2> QED BY <1>1, <1>3, <2>1, SendsNothing
<1>6. CASE downloadStops(p) \/ parsePack(p) \/ lastPack(p)
  <2>1. UNCHANGED sendVars /\ downloadVars' = downloadVars
    BY <1>6 DEF downloadStops, parsePack, lastPack
  <2> QED BY <1>3, <2>1, SendsNothing
<1>7. CASE announcePacks(p)
  <2> DEFINE m == Response("AllPacksDownloaded", {})
  <2>1. "AllPacksDownloaded" \in Args
    BY DEF Args
  <2>2. m \in Message /\ Plain(m)
    BY <2>1, PlainPackets
  <2>3. Buffer("client", <<m>>) /\ downloadVars' = downloadVars
    BY <1>7 DEF announcePacks
  <2> HIDE DEF m
  <2> QED BY <1>3, <1>2, <2>2, <2>3
<1> QED BY <1>4, <1>5, <1>6, <1>7 DEF Download

LEMMA ApplicationTraffic ==
  ASSUME LoginTypeOK, Application
  PROVE  HasTraffic
<1> USE DEF LoginTypeOK
<1>1. "server" \in Sides /\ enc["server"] \in Formats
  BY DEF Sides, FormatTypeOK
<1>2. startVars' = startVars => Takes /\ inbox' = inbox /\ Steady
  BY DEF startVars, Takes, Steady, formatVars
<1>3. CASE Accept
  <2>1. Takes /\ Steady /\ UNCHANGED sendVars
    BY <1>3 DEF Accept, Takes, Steady, formatVars
  <2> QED BY <2>1, SendsNothing
<1>4. CASE StartGame
  <2>1. Takes /\ Steady /\ UNCHANGED sendVars
    BY <1>4 DEF StartGame, Takes, Steady, formatVars
  <2> QED BY <2>1, SendsNothing
<1>5. CASE startGame \/ startGameSpawned \/ startGameFails
  <2>1. UNCHANGED sendVars /\ startVars' = startVars
    BY <1>5 DEF startGame, startGameSpawned, startGameFails
  <2> QED BY <1>2, <2>1, SendsNothing
<1>6. CASE startGameFlush
  <2>1. Send("server", <<>>) /\ startVars' = startVars
    BY <1>6 DEF startGameFlush
  <2> QED BY <1>1, <1>2, <2>1, SendsNothing
<1>7. CASE startGameWrite
  <2>1. PICK i \in DOMAIN StartPackets, written \in BOOLEAN :
          Buffer("server", IF written THEN <<StartPackets[i]>> ELSE <<>>) /\ startVars' = startVars
    BY <1>7 DEF startGameWrite
  <2> DEFINE q == IF written THEN <<StartPackets[i]>> ELSE <<>>
             m == StartPackets[i]
  <2>2. m \in Message /\ Plain(m)
    <3>1. i \in 1 .. 5
      BY DEF StartPackets
    <3>2. m \in {Pk("DimensionData"), Pk("JigsawStructureData"), Pk("VoxelShapes"), Pk("StartGame"),
                 Pk("ItemRegistry")}
      BY <3>1 DEF StartPackets
    <3> QED BY <3>2, PlainPackets
  <2> HIDE DEF m
  <2>3. <<m>> \in Seq(Message) /\ Of(<<m>>) = {m} /\ <<>> \in Seq(Message) /\ Of(<<>>) = {}
    BY <2>2, OfOne, OfNone
  <2>4. q \in Seq(Message) /\ Of(q) \subseteq {m} /\ Of(q) \in SUBSET Message
    BY <2>2, <2>3 DEF m
  <2>5. Buffer("server", q) /\ inbox' = inbox /\ Steady
    BY <1>2, <2>1
  <2> HIDE DEF q
  <2>6. Adds("server", enc["server"], Of(q))
    BY <1>1, <2>4, <2>5, AddsBuffer
  <2>7. Regular("server", enc["server"], Of(q))
    BY <2>2, <2>4, <2>5 DEF Regular, Steady, Plain
  <2> QED BY <1>1, <2>2, <2>4, <2>6, <2>7, PlainTraffic
<1> QED BY <1>3, <1>4, <1>5, <1>6, <1>7 DEF Application

LEMMA DialTraffic ==
  ASSUME LoginTypeOK, Dial
  PROVE  HasTraffic
<1> USE DEF LoginTypeOK
<1>1. "client" \in Sides /\ enc["client"] \in Formats
  BY DEF Sides, FormatTypeOK
<1>2. dialVars' = dialVars => Takes /\ UNCHANGED <<enc, dec>>
  BY DEF dialVars, Takes, formatVars
<1>3. CASE dialConnected \/ dialFails
  <2>1. UNCHANGED sendVars /\ dialVars' = dialVars /\ dial' \in {"connected", "failed"}
    BY <1>3 DEF dialConnected, dialFails, dialStep
  <2> QED BY <1>2, <2>1, SendsNothing DEF Steady
<1>4. CASE dialExpectSettings \/ dialReady \/ dialExpectLogin
  <2>1. UNCHANGED sendVars /\ dialVars' = dialVars /\ Opens
    BY <1>4 DEF dialExpectSettings, dialReady, dialExpectLogin, dialStep, Opens
  <2>2. Adds("client", enc["client"], {})
    BY <1>1, <1>2, <2>1, AddsNothing
  <2> QED BY <1>1, <2>1, <2>2, PlainTraffic
<1>5. ASSUME NEW id \in {"RequestNetworkSettings", "Login"}, Send("client", <<Pk(id)>>),
             dialVars' = dialVars, Opens
      PROVE  HasTraffic
  <2> DEFINE m == Pk(id)
  <2>1. m \in Message /\ m.id = id
    BY Messages DEF Ids, ServerHandled
  <2> HIDE DEF m
  <2>2. /\ <<m>> \in Seq(Message) /\ Of(<<m>>) = {m} /\ <<>> \in Seq(Message) /\ Of(<<>>) = {}
        /\ SendAs("client", enc["client"], <<m>>, <<>>)
    BY <1>5, <2>1, OfOne, OfNone DEF Send, m
  <2>3. Adds("client", enc["client"], {m} \cup {})
    BY <1>1, <1>2, <1>5, <2>2, AddsSend
  <2>4. Adds("client", enc["client"], {m})
    BY <2>3
  <2>5. ~AnnouncesSpawn(m) /\ m.id # "SetLocalPlayerAsInitialised"
    BY <2>1 DEF AnnouncesSpawn
  <2> QED BY <1>1, <1>5, <2>1, <2>4, <2>5 DEF HasTraffic, Traffic
<1>6. CASE dialRequestSettings \/ dialLogin
  <2>1. /\ dialVars' = dialVars /\ Opens
        /\ Send("client", <<Pk("RequestNetworkSettings")>>) \/ Send("client", <<Pk("Login")>>)
    BY <1>6 DEF dialRequestSettings, dialLogin, dialStep, Opens
  <2> QED BY <1>5, <2>1
<1> QED BY <1>3, <1>4, <1>6 DEF Dial

LEMMA OpensSend ==
  ASSUME StreamTypeOK, Takes, Opens, NEW s \in Sides, NEW f \in Formats,
         NEW pks \in Seq(Message), SendAs(s, f, pks, <<>>),
         \A m \in Of(pks) : ~AnnouncesSpawn(m) /\ m.id # "SetLocalPlayerAsInitialised"
  PROVE  HasTraffic
<1>1. <<>> \in Seq(Message) /\ Of(<<>>) = {}
  BY OfNone
<1>2. Adds(s, f, Of(pks) \cup {})
  BY <1>1, AddsSend
<1>3. Adds(s, f, Of(pks)) /\ Of(pks) \in SUBSET Message
  BY <1>2, OfSubset
<1> QED BY <1>3 DEF HasTraffic, Traffic

LEMMA OpensOne ==
  ASSUME StreamTypeOK, Takes, Opens, NEW s \in Sides, NEW f \in Formats,
         NEW id \in {"NetworkSettings", "ServerToClientHandshake", "ClientToServerHandshake",
                     "Disconnect"},
         SendAs(s, f, <<Pk(id)>>, <<>>)
  PROVE  HasTraffic
<1> DEFINE m == Pk(id)
<1>1. m \in Message /\ m.id = id
  BY Messages DEF Ids, ServerHandled, ClientHandled
<1> HIDE DEF m
<1>2. <<m>> \in Seq(Message) /\ Of(<<m>>) = {m} /\ SendAs(s, f, <<m>>, <<>>)
  BY <1>1, OfOne DEF m
<1>3. ~AnnouncesSpawn(m) /\ m.id # "SetLocalPlayerAsInitialised"
  BY <1>1 DEF AnnouncesSpawn
<1> QED BY <1>2, <1>3, OpensSend

LEMMA OfferTraffic ==
  ASSUME StreamTypeOK, FormatTypeOK, Takes, Opens, OfferPacks
  PROVE  HasTraffic
<1>1. "server" \in Sides /\ enc["server"] \in Formats
  BY DEF Sides, FormatTypeOK
<1>2. CASE Send("server", <<Status("LoginSuccess"), Pk("ResourcePacksInfo")>>)
  <2>1. SendAs("server", enc["server"], Offer, <<>>)
    BY <1>2 DEF Send, Offer
  <2>2. ~AnnouncesSpawn(Status("LoginSuccess")) /\ Status("LoginSuccess").id = "PlayStatus"
    BY Messages DEF AnnouncesSpawn, Args
  <2>3. ~AnnouncesSpawn(Pk("ResourcePacksInfo")) /\ Pk("ResourcePacksInfo").id = "ResourcePacksInfo"
    BY Messages DEF AnnouncesSpawn, Ids, ClientHandled
  <2>4. \A m \in Of(Offer) : ~AnnouncesSpawn(m) /\ m.id # "SetLocalPlayerAsInitialised"
    BY <2>2, <2>3, OfOffer
  <2> QED BY <1>1, <2>1, <2>4, OfOffer, OpensSend
<1>3. CASE WriteFails("server", {"ResourcePackClientResponse", "ClientCacheStatus"})
  BY <1>1, <1>3, FailsPlain DEF WriteFails
<1> QED BY <1>2, <1>3 DEF OfferPacks

LEMMA ServerTraffic ==
  ASSUME LoginTypeOK, ServerHandler
  PROVE  HasTraffic
<1> USE DEF LoginTypeOK
<1>1. "server" \in Sides /\ enc["server"] \in Formats
  BY DEF Sides, FormatTypeOK
<1>2. ASSUME NEW id \in Changes, Handle("server", id) PROVE Takes /\ Opens
  BY <1>1, <1>2, Handled DEF Opens
<1>3. CASE handleRequestNetworkSettings
  <2>1. Takes /\ Opens
    BY <1>3, <1>2 DEF handleRequestNetworkSettings, Changes
  <2>2. CASE SendNetworkSettings
    <3>1. SendAs("server", enc["server"], <<Pk("NetworkSettings")>>, <<>>)
      BY <2>2 DEF SendNetworkSettings, Send
    <3> QED BY <1>1, <2>1, <3>1, OpensOne
  <2>3. CASE WriteFails("server", {"Login"})
    BY <1>1, <2>1, <2>3, FailsPlain DEF WriteFails
  <2>4. CASE HandlerFails("server", <<Status("LoginFailed")>>)
    BY <1>1, <2>1, <2>4, FailsPlain, PlainPackets DEF HandlerFails
  <2> QED BY <1>3, <2>2, <2>3, <2>4 DEF handleRequestNetworkSettings
<1>4. CASE handleLogin
  <2>1. Takes /\ Opens
    BY <1>4, <1>2 DEF handleLogin, Changes
  <2>2. CASE EnableEncryption
    <3>1. CASE Send("server", <<Pk("ServerToClientHandshake")>>)
      BY <1>1, <2>1, <3>1, OpensOne DEF Send
    <3>2. CASE WriteFails("server", {"ClientToServerHandshake"})
      BY <1>1, <2>1, <3>2, FailsPlain DEF WriteFails
    <3> QED BY <2>2, <3>1, <3>2 DEF EnableEncryption
  <2>3. CASE OfferPacks
    BY <2>1, <2>3, OfferTraffic
  <2>4. CASE \E pks \in {<<>>, <<Pk("Disconnect")>>} : HandlerFails("server", pks)
    <3>1. \/ FailsExpecting("server", expected["server"], <<>>)
          \/ FailsExpecting("server", expected["server"], <<Pk("Disconnect")>>)
      BY <2>4 DEF HandlerFails
    <3>2. Pk("Disconnect") \in Message /\ Plain(Pk("Disconnect"))
      BY PlainPackets
    <3> QED BY <1>1, <2>1, <3>1, <3>2, FailsPlain
  <2>5. CASE Kick
    <3>1. SendAs("server", enc["server"], <<Pk("Disconnect")>>, <<>>)
      BY <2>5 DEF Kick, Send
    <3> QED BY <1>1, <2>1, <3>1, OpensOne
  <2> QED BY <1>4, <2>2, <2>3, <2>4, <2>5 DEF handleLogin
<1>5. CASE handleClientToServerHandshake
  <2>1. Takes /\ Opens
    BY <1>5, <1>2 DEF handleClientToServerHandshake, Changes
  <2> QED BY <1>5, <2>1, OfferTraffic DEF handleClientToServerHandshake
<1>6. CASE handleClientCacheStatus
  <2>1. Takes /\ Steady /\ Send("server", <<>>)
    BY <1>1, <1>6, Handled DEF handleClientCacheStatus, Steady, formatVars, callVars
  <2> QED BY <1>1, <2>1, SendsNothing
<1>7. CASE handleSendPacks
  <2>1. Takes
    BY <1>1, <1>7, Handled DEF handleSendPacks
  <2>2. PICK p \in Packs :
          \/ Send("server", DataInfo(p)) /\ UNCHANGED formatVars /\ UNCHANGED callVars
          \/ WriteFails("server", expected["server"])
    BY <1>7 DEF handleSendPacks
  <2>3. CASE Send("server", DataInfo(p)) /\ UNCHANGED formatVars /\ UNCHANGED callVars
    <3> DEFINE m == PackPk("ResourcePackDataInfo", p, 0)
    <3>1. m \in Message /\ Plain(m)
      BY PlainPackets
    <3>2. Send("server", <<m>>) /\ Steady
      BY <2>3 DEF DataInfo, Steady, formatVars, callVars
    <3> HIDE DEF m
    <3> QED BY <1>1, <2>1, <3>1, <3>2, SendsOne
  <2>4. CASE WriteFails("server", expected["server"])
    BY <1>1, <2>1, <2>4, FailsPlain DEF WriteFails
  <2> QED BY <2>2, <2>3, <2>4
<1>8. CASE handleAllPacksDownloaded
  <2>1. Takes
    BY <1>1, <1>8, Handled DEF handleAllPacksDownloaded
  <2>2. CASE Send("server", <<Pk("ResourcePackStack")>>) /\ Steady
    BY <1>1, <2>1, <2>2, SendsOne, PlainPackets
  <2>3. CASE WriteFails("server", expected["server"])
    BY <1>1, <2>1, <2>3, FailsPlain DEF WriteFails
  <2> QED BY <1>8, <2>2, <2>3 DEF handleAllPacksDownloaded, Steady, formatVars, callVars
<1>9. CASE handleCompleted
  <2>1. Takes /\ Steady /\ Send("server", <<>>)
    BY <1>1, <1>9, Handled DEF handleCompleted, Steady, formatVars, callVars
  <2> QED BY <1>1, <2>1, SendsNothing
<1>10. CASE handleResourcePackChunkRequest
  <2> DEFINE p == pk("server").pack
             m == PackPk("ResourcePackChunkData", p, currentOffset)
  <2>1. Takes /\ p \in Packs \cup {NoPack}
    BY <1>1, <1>10, Handled DEF handleResourcePackChunkRequest, Message
  <2>2. m \in Message /\ Plain(m)
    <3>1. currentOffset \in Nat
      BY DEF PackTypeOK
    <3> QED BY <2>1, <3>1, PlainPackets
  <2>3. CASE HandlerFails("server", <<>>)
    BY <1>1, <2>1, <2>3, FailsPlain DEF HandlerFails
  <2>4. CASE WriteFails("server", expected["server"])
    BY <1>1, <2>1, <2>4, FailsPlain DEF WriteFails
  <2>5. CASE SendChunk(p) /\ UNCHANGED formatVars /\ UNCHANGED callVars
    <3>1. Steady
      BY <2>5 DEF Steady, formatVars, callVars
    <3>2. CASE Send("server", <<m>>)
      <4> HIDE DEF m
      <4> QED BY <1>1, <2>1, <2>2, <3>1, <3>2, SendsOne
    <3>3. CASE \E q \in Packs : SendAs("server", enc["server"], <<m>>, DataInfo(q))
      <4>1. PICK q \in Packs : SendAs("server", enc["server"], <<m>>, DataInfo(q))
        BY <3>3
      <4> DEFINE n == PackPk("ResourcePackDataInfo", q, 0)
      <4>2. n \in Message /\ Plain(n)
        BY PlainPackets
      <4>3. SendAs("server", enc["server"], <<m>>, <<n>>)
        BY <4>1 DEF DataInfo
      <4> HIDE DEF m, n
      <4>4. <<m>> \in Seq(Message) /\ Of(<<m>>) = {m} /\ <<n>> \in Seq(Message) /\ Of(<<n>>) = {n}
        BY <2>2, <4>2, OfOne
      <4>5. \A k \in Of(<<m>>) \cup Of(<<n>>) : Plain(k)
        BY <2>2, <4>2, <4>4
      <4> QED BY <1>1, <2>1, <3>1, <4>3, <4>4, <4>5, SendsPlain
    <3> QED BY <2>5, <3>2, <3>3 DEF SendChunk
  <2> QED BY <1>10, <2>3, <2>4, <2>5 DEF handleResourcePackChunkRequest
<1>11. CASE handleRequestChunkRadius
  <2> DEFINE q == <<Pk("ChunkRadiusUpdated"), Status("PlayerSpawn"), Pk("CreativeContent")>>
  <2>1. Takes /\ Steady /\ "RequestChunkRadius" \in expected["server"]
    BY <1>1, <1>11, Handled DEF handleRequestChunkRadius, Steady, formatVars, callVars
  <2>2. /\ Pk("ChunkRadiusUpdated") \in Message /\ Pk("ChunkRadiusUpdated").id = "ChunkRadiusUpdated"
        /\ Status("PlayerSpawn") \in Message /\ Status("PlayerSpawn").id = "PlayStatus"
        /\ Pk("CreativeContent") \in Message /\ Pk("CreativeContent").id = "CreativeContent"
    BY Messages DEF Ids, Args, ClientHandled
  <2>3. q \in Seq(Message) /\ <<>> \in Seq(Message) /\ Of(<<>>) = {}
        /\ Of(q) \subseteq {Pk("ChunkRadiusUpdated"), Status("PlayerSpawn"), Pk("CreativeContent")}
    BY <2>2, OfNone DEF Of
  <2>4. SendAs("server", enc["server"], q, <<>>)
    BY <1>11 DEF handleRequestChunkRadius, Send
  <2>5. Of(q) \in SUBSET Message
        /\ \A m \in Of(q) : m.id \notin Opening /\ m.id # "SetLocalPlayerAsInitialised"
    BY <2>2, <2>3 DEF Opening, Changes
  <2> HIDE DEF q
  <2>6. Adds("server", enc["server"], Of(q) \cup {})
    BY <1>1, <2>1, <2>3, <2>4, AddsSend
  <2>7. Adds("server", enc["server"], Of(q)) /\ Regular("server", enc["server"], Of(q))
    BY <2>1, <2>5, <2>6 DEF Regular, Steady
  <2> QED BY <1>1, <2>1, <2>5, <2>7 DEF HasTraffic, Traffic
<1>12. CASE handleSetLocalPlayerAsInitialised
  <2>1. Takes /\ Steady /\ Send("server", <<>>)
    BY <1>1, <1>12, Handled DEF handleSetLocalPlayerAsInitialised, Steady, formatVars, callVars
  <2> QED BY <1>1, <2>1, SendsNothing
<1> QED BY <1>3, <1>4, <1>5, <1>6, <1>7, <1>8, <1>9, <1>10, <1>11, <1>12 DEF ServerHandler

LEMMA ClientTraffic ==
  ASSUME LoginTypeOK, ClientHandler
  PROVE  HasTraffic
<1> USE DEF LoginTypeOK
<1>1. "client" \in Sides /\ enc["client"] \in Formats
  BY DEF Sides, FormatTypeOK
<1>2. ASSUME NEW id \in Changes, Handle("client", id) PROVE Takes /\ Opens
  BY <1>1, <1>2, Handled DEF Opens
<1>3. CASE handleNetworkSettings
  <2>1. Takes /\ Opens
    BY <1>3, <1>2 DEF handleNetworkSettings, Changes
  <2>2. SendAs("client", "compressed", <<>>, <<>>) /\ "compressed" \in Formats
    BY <1>3 DEF handleNetworkSettings, Formats
  <2>3. <<>> \in Seq(Message) /\ Of(<<>>) = {}
    BY OfNone
  <2> QED BY <1>1, <2>1, <2>2, <2>3, OpensSend
<1>4. CASE handleServerToClientHandshake
  <2>1. Takes /\ Opens
    BY <1>4, <1>2 DEF handleServerToClientHandshake, Changes
  <2>2. SendAs("client", "encrypted", <<Pk("ClientToServerHandshake")>>, <<>>) /\ "encrypted" \in Formats
    BY <1>4 DEF handleServerToClientHandshake, Formats
  <2> QED BY <1>1, <2>1, <2>2, OpensOne
<1>5. CASE handleLoginSuccess
  <2>1. Takes
    BY <1>1, <1>5, Handled DEF handleLoginSuccess
  <2>2. CASE Send("client", <<Pk("ClientCacheStatus")>>) /\ Steady
    BY <1>1, <2>1, <2>2, SendsOne, PlainPackets
  <2>3. CASE WriteFails("client", expected["client"])
    BY <1>1, <2>1, <2>3, FailsPlain DEF WriteFails
  <2> QED BY <1>5, <2>2, <2>3 DEF handleLoginSuccess, Steady, formatVars, callVars
<1>6. CASE handleLoginFailed
  <2>1. Takes /\ HandlerFails("client", <<>>)
    BY <1>1, <1>6, Handled DEF handleLoginFailed
  <2> QED BY <1>1, <2>1, FailsPlain DEF HandlerFails
<1>7. CASE handleResourcePacksInfo
  <2>1. PICK ps \in SUBSET Packs :
          /\ Handle("client", "ResourcePacksInfo") /\ UNCHANGED formatVars /\ UNCHANGED callVars
          /\ \/ Send("client", <<Response("SendPacks", ps)>>)
             \/ Send("client", <<Response("AllPacksDownloaded", {})>>)
    <3>1. PICK declined \in SUBSET Declined : \E cached \in SUBSET (Cached \ declined) :
            /\ Handle("client", "ResourcePacksInfo") /\ UNCHANGED formatVars /\ UNCHANGED callVars
            /\ \/ Send("client", <<Response("SendPacks", Packs \ (declined \cup cached))>>)
               \/ Send("client", <<Response("AllPacksDownloaded", {})>>)
      BY <1>7 DEF handleResourcePacksInfo
    <3> QED BY <3>1
  <2>2. Takes /\ Steady
    BY <1>1, <2>1, Handled DEF Steady, formatVars, callVars
  <2>3. \A a \in {"SendPacks", "AllPacksDownloaded"} : \A qs \in SUBSET Packs :
          Response(a, qs) \in Message /\ Plain(Response(a, qs))
    BY PlainPackets DEF Args
  <2> QED BY <1>1, <2>1, <2>2, <2>3, SendsOne
<1>8. CASE handleResourcePackDataInfo
  <2>1. Takes
    BY <1>1, <1>8, Handled DEF handleResourcePackDataInfo
  <2>2. CASE Send("client", <<>>) /\ Steady
    BY <1>1, <2>1, <2>2, SendsNothing
  <2>3. CASE HandlerFails("client", <<>>)
    BY <1>1, <2>1, <2>3, FailsPlain DEF HandlerFails
  <2> QED BY <1>8, <2>2, <2>3 DEF handleResourcePackDataInfo, Steady, formatVars, callVars
<1>9. CASE handleResourcePackChunkData
  <2>1. Takes
    BY <1>1, <1>9, Handled DEF handleResourcePackChunkData
  <2>2. CASE UNCHANGED sendVars /\ Steady
    BY <2>1, <2>2, SendsNothing
  <2>3. CASE HandlerFails("client", <<>>)
    BY <1>1, <2>1, <2>3, FailsPlain DEF HandlerFails
  <2> QED BY <1>9, <2>2, <2>3 DEF handleResourcePackChunkData, Steady, formatVars, callVars
<1>10. CASE handleResourcePackStack
  <2>1. Takes
    BY <1>1, <1>10, Handled DEF handleResourcePackStack
  <2>2. CASE Send("client", <<Response("Completed", {})>>) /\ Steady
    <3>1. Response("Completed", {}) \in Message /\ Plain(Response("Completed", {}))
      BY PlainPackets DEF Args
    <3> QED BY <1>1, <2>1, <2>2, <3>1, SendsOne
  <2>3. CASE HandlerFails("client", <<>>)
    BY <1>1, <2>1, <2>3, FailsPlain DEF HandlerFails
  <2> QED BY <1>10, <2>2, <2>3 DEF handleResourcePackStack, Steady, formatVars, callVars
<1>11. CASE handleDimensionData \/ handleStartGame
  <2>1. Takes /\ Steady /\ Send("client", <<>>)
    BY <1>1, <1>11, Handled DEF handleDimensionData, handleStartGame, Note, Steady, formatVars, callVars
  <2> QED BY <1>1, <2>1, SendsNothing
<1>12. CASE handleItemRegistry
  <2>1. Takes /\ Steady /\ Send("client", <<Pk("RequestChunkRadius")>>)
    BY <1>1, <1>12, Handled DEF handleItemRegistry, Note, Steady, formatVars, callVars
  <2> QED BY <1>1, <2>1, SendsOne, PlainPackets
<1>13. ASSUME NEW waiting, NEW got, Takes, Steady, tryFinaliseClientConn(waiting, got)
       PROVE  HasTraffic
  <2>1. CASE Send("client", <<>>)
    BY <1>1, <1>13, <2>1, SendsNothing
  <2>2. CASE /\ Send("client", <<Pk("SetLocalPlayerAsInitialised")>>)
             /\ loggedIn' = [loggedIn EXCEPT !["client"] = TRUE]
    <3> DEFINE m == Pk("SetLocalPlayerAsInitialised")
    <3>1. m \in Message /\ m.id = "SetLocalPlayerAsInitialised"
      BY Messages DEF Ids, ServerHandled
    <3>2. loggedIn'["client"]
      BY <1>1, <2>2 DEF SpawnTypeOK
    <3> HIDE DEF m
    <3>3. /\ <<m>> \in Seq(Message) /\ Of(<<m>>) = {m} /\ <<>> \in Seq(Message) /\ Of(<<>>) = {}
          /\ SendAs("client", enc["client"], <<m>>, <<>>)
      BY <2>2, <3>1, OfOne, OfNone DEF Send, m
    <3>4. Adds("client", enc["client"], {m} \cup {})
      BY <1>1, <1>13, <3>3, AddsSend
    <3>5. Adds("client", enc["client"], {m}) /\ Regular("client", enc["client"], {m})
      BY <1>13, <3>1, <3>4 DEF Regular, Steady, Opening, Changes
    <3>6. ~AnnouncesSpawn(m)
      BY <3>1 DEF AnnouncesSpawn
    <3> QED BY <1>1, <3>1, <3>2, <3>5, <3>6 DEF HasTraffic, Traffic
  <2> QED BY <1>13, <2>1, <2>2 DEF tryFinaliseClientConn
<1>14. CASE handleChunkRadiusUpdated
  <2>1. Takes /\ Steady
    BY <1>1, <1>14, Handled DEF handleChunkRadiusUpdated, Steady, formatVars, callVars
  <2> QED BY <1>13, <1>14, <2>1 DEF handleChunkRadiusUpdated
<1>15. CASE handlePlayerSpawn
  <2>1. Takes /\ Steady
    BY <1>1, <1>15, Handled DEF handlePlayerSpawn, Steady, formatVars, callVars
  <2> QED BY <1>13, <1>15, <2>1 DEF handlePlayerSpawn
<1> QED BY <1>3, <1>4, <1>5, <1>6, <1>7, <1>8, <1>9, <1>10, <1>11, <1>12, <1>14, <1>15 DEF ClientHandler

(* Every step. *)
LEMMA NextTraffic ==
  ASSUME LoginTypeOK, Next
  PROVE  HasTraffic
BY ReceiverTraffic, DownloadTraffic, ApplicationTraffic, DialTraffic, ServerTraffic, ClientTraffic
   DEF Next, Sides

------------------------------------------------------------------------------
(* Types. *)

LEMMA ExpectedIds ==
  /\ {"Login"} \in SUBSET Ids /\ {"ResourcePackClientResponse", "ClientCacheStatus"} \in SUBSET Ids
  /\ {"ClientToServerHandshake"} \in SUBSET Ids /\ {"ResourcePackChunkRequest"} \in SUBSET Ids
  /\ {"ResourcePackClientResponse"} \in SUBSET Ids /\ {"SetLocalPlayerAsInitialised"} \in SUBSET Ids
  /\ {"RequestChunkRadius", "SetLocalPlayerAsInitialised"} \in SUBSET Ids
  /\ {"NetworkSettings", "PlayStatus"} \in SUBSET Ids
  /\ {"ServerToClientHandshake", "PlayStatus", "ResourcePacksInfo"} \in SUBSET Ids
  /\ {"ResourcePackDataInfo", "ResourcePackChunkData", "PlayStatus"} \in SUBSET Ids
  /\ {"ResourcePackStack", "PlayStatus"} \in SUBSET Ids /\ {"DimensionData", "StartGame"} \in SUBSET Ids
  /\ {"ItemRegistry"} \in SUBSET Ids /\ {"ChunkRadiusUpdated", "PlayStatus"} \in SUBSET Ids
  /\ {"PlayStatus", "ResourcePacksInfo"} \in SUBSET Ids
  /\ {"RequestNetworkSettings"} \in SUBSET Ids /\ {"RequestNetworkSettings", "Login"} \in SUBSET Ids
BY DEF Ids, ServerHandled, ClientHandled

StateTypeOK == FormatTypeOK /\ CallTypeOK /\ SpawnTypeOK /\ PackTypeOK

LEMMA ExpectType ==
  ASSUME CallTypeOK, NEW s \in Sides, NEW ids \in SUBSET Ids, expect(s, ids)
  PROVE  expected' \in [Sides -> SUBSET Ids]
BY DEF CallTypeOK, expect

LEMMA FailsType ==
  ASSUME LoginTypeOK, NEW s \in Sides, NEW ids \in SUBSET Ids, NEW pks, FailsExpecting(s, ids, pks),
         currentOffset' \in Nat
  PROVE  StateTypeOK'
<1>1. expected' \in [Sides -> SUBSET Ids]
  BY ExpectType DEF LoginTypeOK, FailsExpecting
<1>2. closed' \in [Sides -> BOOLEAN] /\ listen' \in [Sides -> Listening]
  BY DEF LoginTypeOK, FailsExpecting, Ends, CallTypeOK, Listening
<1> QED BY <1>1, <1>2 DEF LoginTypeOK, FailsExpecting, StateTypeOK, FormatTypeOK, CallTypeOK,
           SpawnTypeOK, PackTypeOK,
        formatVars, spawnVars, packVars

LEMMA HandlerFailsType ==
  ASSUME LoginTypeOK, NEW s \in Sides, NEW pks, HandlerFails(s, pks)
  PROVE  StateTypeOK'
<1>1. expected[s] \in SUBSET Ids /\ currentOffset' \in Nat
  BY DEF LoginTypeOK, CallTypeOK, PackTypeOK, HandlerFails, queueVars
<1> QED BY <1>1, FailsType DEF HandlerFails

LEMMA ServerTypes ==
  ASSUME LoginTypeOK, ServerHandler
  PROVE  StateTypeOK'
<1> USE DEF LoginTypeOK, StateTypeOK, Listening
<1>1. "server" \in Sides /\ expected["server"] \in SUBSET Ids
  BY DEF Sides, CallTypeOK
<1>2. ASSUME NEW ids \in SUBSET Ids, WriteFails("server", ids), UNCHANGED queueVars
      PROVE  StateTypeOK'
  BY <1>1, <1>2, FailsType DEF WriteFails, queueVars, PackTypeOK
<1>3. ASSUME NEW ids \in SUBSET Ids, expect("server", ids) PROVE expected' \in [Sides -> SUBSET Ids]
  BY <1>1, <1>3, ExpectType
<1>4. ASSUME OfferPacks PROVE StateTypeOK'
  <2>1. CASE WriteFails("server", {"ResourcePackClientResponse", "ClientCacheStatus"})
        /\ UNCHANGED queueVars
    BY <1>2, <2>1, ExpectedIds
  <2>2. CASE /\ expect("server", {"ResourcePackClientResponse", "ClientCacheStatus"})
             /\ UNCHANGED <<formatVars, listen, spawnVars, closed, packVars, frag, queueVars, callVars>>
    <3>1. expected' \in [Sides -> SUBSET Ids]
      BY <1>3, <2>2, ExpectedIds
    <3> QED BY <2>2, <3>1 DEF FormatTypeOK, CallTypeOK, SpawnTypeOK, PackTypeOK, formatVars, spawnVars,
            packVars, queueVars, callVars
  <2> QED BY <1>4, <2>1, <2>2 DEF OfferPacks
<1>5. CASE handleRequestNetworkSettings
  <2>1. CASE SendNetworkSettings
    <3>1. expected' \in [Sides -> SUBSET Ids]
      BY <1>3, <2>1, ExpectedIds DEF SendNetworkSettings
    <3>2. FormatTypeOK'
      BY <2>1 DEF SendNetworkSettings, FormatTypeOK, Formats
    <3> QED BY <2>1, <3>1, <3>2 DEF SendNetworkSettings, CallTypeOK, SpawnTypeOK, PackTypeOK, spawnVars,
            packVars, queueVars, callVars
  <2>2. CASE WriteFails("server", {"Login"}) /\ UNCHANGED queueVars
    BY <1>2, <2>2, ExpectedIds
  <2>3. CASE HandlerFails("server", <<Status("LoginFailed")>>)
    BY <1>1, <2>3, HandlerFailsType
  <2> QED BY <1>5, <2>1, <2>2, <2>3 DEF handleRequestNetworkSettings
<1>6. CASE handleLogin
  <2>1. CASE EnableEncryption
    <3>1. CASE WriteFails("server", {"ClientToServerHandshake"}) /\ UNCHANGED queueVars
      BY <1>2, <3>1, ExpectedIds
    <3>2. CASE ~(WriteFails("server", {"ClientToServerHandshake"}) /\ UNCHANGED queueVars)
      <4>1. expected' \in [Sides -> SUBSET Ids]
        BY <1>3, <2>1, <3>2, ExpectedIds DEF EnableEncryption
      <4>2. FormatTypeOK'
        BY <2>1, <3>2 DEF EnableEncryption, FormatTypeOK, Formats
      <4> QED BY <2>1, <3>2, <4>1, <4>2 DEF EnableEncryption, CallTypeOK, SpawnTypeOK, PackTypeOK,
              spawnVars, packVars, queueVars, callVars
    <3> QED BY <3>1, <3>2
  <2>2. CASE OfferPacks
    BY <1>4, <2>2
  <2>3. CASE \E pks \in {<<>>, <<Pk("Disconnect")>>} : HandlerFails("server", pks)
    BY <1>1, <2>3, HandlerFailsType
  <2>4. CASE Kick
    <3>1. closed' \in [Sides -> BOOLEAN]
      BY <2>4 DEF Kick, CallTypeOK
    <3> QED BY <2>4, <3>1 DEF Kick, FormatTypeOK, CallTypeOK, SpawnTypeOK, PackTypeOK, formatVars,
            spawnVars, packVars, queueVars, callVars
  <2> QED BY <1>6, <2>1, <2>2, <2>3, <2>4 DEF handleLogin
<1>7. CASE handleClientToServerHandshake
  BY <1>4, <1>7 DEF handleClientToServerHandshake
<1>8. CASE handleClientCacheStatus
  BY <1>8 DEF handleClientCacheStatus, FormatTypeOK, CallTypeOK, SpawnTypeOK, PackTypeOK, formatVars,
     spawnVars, packVars, queueVars, callVars
<1>9. CASE handleSendPacks
  <2>1. currentOffset' \in Nat
    BY <1>9 DEF handleSendPacks, NextPack
  <2>2. CASE WriteFails("server", expected["server"])
    BY <1>1, <2>1, <2>2, FailsType DEF WriteFails
  <2>3. CASE ~WriteFails("server", expected["server"])
    <3>1. expected' \in [Sides -> SUBSET Ids]
      BY <1>3, <1>9, <2>3, ExpectedIds DEF handleSendPacks
    <3> QED BY <1>9, <2>1, <2>3, <3>1 DEF handleSendPacks, FormatTypeOK, CallTypeOK, SpawnTypeOK,
            PackTypeOK, formatVars, spawnVars, packVars, callVars
  <2> QED BY <2>2, <2>3
<1>10. CASE handleAllPacksDownloaded
  <2>1. CASE WriteFails("server", expected["server"]) /\ UNCHANGED queueVars
    BY <1>1, <1>2, <2>1
  <2>2. CASE UNCHANGED <<formatVars, listen, expected, spawnVars, closed, packVars, frag, queueVars,
                         callVars>>
    BY <2>2 DEF FormatTypeOK, CallTypeOK, SpawnTypeOK, PackTypeOK, formatVars,
       spawnVars, packVars, queueVars, callVars
  <2> QED BY <1>10, <2>1, <2>2 DEF handleAllPacksDownloaded
<1>11. CASE handleCompleted
  <2>1. loggedIn' \in [Sides -> BOOLEAN]
    BY <1>11 DEF handleCompleted, SpawnTypeOK
  <2>2. listen' \in [Sides -> Listening]
    BY <1>11 DEF handleCompleted, CallTypeOK
  <2> QED BY <1>11, <2>1, <2>2 DEF handleCompleted, FormatTypeOK, CallTypeOK, SpawnTypeOK, PackTypeOK,
             formatVars,
          packVars, queueVars, callVars
<1>12. CASE handleResourcePackChunkRequest
  <2> DEFINE p == pk("server").pack
  <2>1. currentOffset + 1 \in Nat
    BY DEF PackTypeOK
  <2>2. CASE HandlerFails("server", <<>>)
    BY <1>1, <2>2, HandlerFailsType
  <2>3. CASE WriteFails("server", expected["server"]) /\ currentOffset' = currentOffset + 1
    BY <1>1, <2>1, <2>3, FailsType DEF WriteFails
  <2>4. CASE SendChunk(p) /\ UNCHANGED <<formatVars, listen, spawnVars, closed, packVars, frag,
                                         callVars>>
    <3>1. currentOffset' \in Nat
      BY <2>1, <2>4 DEF SendChunk, NextPack
    <3>2. \E ids \in SUBSET Ids : expect("server", ids)
      BY <1>1, <2>4, ExpectedIds DEF SendChunk
    <3>3. expected' \in [Sides -> SUBSET Ids]
      BY <1>3, <3>2
    <3> QED BY <2>4, <3>1, <3>3 DEF FormatTypeOK, CallTypeOK, SpawnTypeOK,
            PackTypeOK, formatVars, spawnVars, packVars, callVars
  <2> QED BY <1>12, <2>2, <2>3, <2>4 DEF handleResourcePackChunkRequest
<1>13. CASE handleRequestChunkRadius
  <2>1. expected' \in [Sides -> SUBSET Ids]
    BY <1>3, <1>13, ExpectedIds DEF handleRequestChunkRadius
  <2> QED BY <1>13, <2>1 DEF handleRequestChunkRadius, FormatTypeOK, CallTypeOK, SpawnTypeOK, PackTypeOK,
          formatVars, spawnVars, packVars, queueVars, callVars
<1>14. CASE handleSetLocalPlayerAsInitialised
  <2>1. waitingForSpawn' \in [Sides -> BOOLEAN]
    BY <1>14 DEF handleSetLocalPlayerAsInitialised, SpawnTypeOK
  <2>2. spawned' \in [Sides -> Nat]
    <3> DEFINE n == IF waitingForSpawn["server"] THEN spawned["server"] + 1 ELSE spawned["server"]
    <3>1. n \in Nat
      BY <1>1 DEF SpawnTypeOK
    <3>2. spawned' = [spawned EXCEPT !["server"] = n]
      BY <1>14 DEF handleSetLocalPlayerAsInitialised
    <3> QED BY <3>1, <3>2 DEF SpawnTypeOK
  <2> QED BY <1>14, <2>1, <2>2 DEF handleSetLocalPlayerAsInitialised, FormatTypeOK, CallTypeOK,
          SpawnTypeOK, PackTypeOK, formatVars, packVars, queueVars, callVars
<1> QED BY <1>5, <1>6, <1>7, <1>8, <1>9, <1>10, <1>11, <1>12, <1>13, <1>14 DEF ServerHandler

LEMMA TryFinaliseTypes ==
  ASSUME LoginTypeOK, NEW waiting \in BOOLEAN, NEW got \in BOOLEAN, tryFinaliseClientConn(waiting, got)
  PROVE  SpawnTypeOK' /\ listen' \in [Sides -> Listening]
<1> USE DEF LoginTypeOK, Listening
<1>1. "client" \in Sides
  BY DEF Sides
<1>2. CASE waiting /\ got
  <2>1. waitingForSpawn' \in [Sides -> BOOLEAN] /\ loggedIn' \in [Sides -> BOOLEAN]
        /\ gameDataReceived' \in BOOLEAN
    BY <1>2 DEF tryFinaliseClientConn, SpawnTypeOK
  <2>2. spawned["client"] + 1 \in Nat
    BY <1>1 DEF SpawnTypeOK
  <2>3. spawned' \in [Sides -> Nat]
    BY <1>2, <2>2 DEF tryFinaliseClientConn, SpawnTypeOK
  <2>4. listen' \in [Sides -> Listening]
    BY <1>2 DEF tryFinaliseClientConn, CallTypeOK
  <2> QED BY <2>1, <2>3, <2>4 DEF SpawnTypeOK
<1>3. CASE ~(waiting /\ got)
  <2>1. waitingForSpawn' \in [Sides -> BOOLEAN] /\ gameDataReceived' \in BOOLEAN
    BY <1>3 DEF tryFinaliseClientConn, SpawnTypeOK
  <2>2. UNCHANGED <<spawned, loggedIn, listen>>
    BY <1>3 DEF tryFinaliseClientConn
  <2> QED BY <2>1, <2>2 DEF SpawnTypeOK, CallTypeOK
<1> QED BY <1>2, <1>3

LEMMA ClientTypes ==
  ASSUME LoginTypeOK, ClientHandler
  PROVE  StateTypeOK'
<1> USE DEF LoginTypeOK, StateTypeOK, Listening
<1>1. "client" \in Sides /\ expected["client"] \in SUBSET Ids
  BY DEF Sides, CallTypeOK
<1>2. ASSUME NEW pks, HandlerFails("client", pks) PROVE StateTypeOK'
  BY <1>1, <1>2, HandlerFailsType
<1>3. ASSUME NEW ids \in SUBSET Ids, expect("client", ids) PROVE expected' \in [Sides -> SUBSET Ids]
  BY <1>1, <1>3, ExpectType
<1>4. ASSUME NEW id, NEW ids \in SUBSET Ids, NEW pks, Note(id, ids, pks) PROVE StateTypeOK'
  <2>1. expected' \in [Sides -> SUBSET Ids]
    BY <1>3, <1>4 DEF Note
  <2> QED BY <1>4, <2>1 DEF Note, FormatTypeOK, CallTypeOK, SpawnTypeOK, PackTypeOK,
          formatVars, packVars, queueVars, callVars
<1>5. CASE handleNetworkSettings
  <2>1. FormatTypeOK'
    BY <1>5 DEF handleNetworkSettings, FormatTypeOK, Formats
  <2>2. listen' \in [Sides -> Listening]
    BY <1>5 DEF handleNetworkSettings, CallTypeOK
  <2> QED BY <1>5, <2>1, <2>2 DEF handleNetworkSettings, CallTypeOK, SpawnTypeOK, PackTypeOK,
          spawnVars, packVars, queueVars, callVars
<1>6. CASE handleServerToClientHandshake
  <2>1. FormatTypeOK'
    BY <1>6 DEF handleServerToClientHandshake, FormatTypeOK, Formats
  <2> QED BY <1>6, <2>1 DEF handleServerToClientHandshake, CallTypeOK, SpawnTypeOK, PackTypeOK,
          spawnVars, packVars, queueVars, callVars
<1>7. CASE handleLoginSuccess
  <2>1. CASE WriteFails("client", expected["client"]) /\ UNCHANGED queueVars
    BY <1>1, <2>1, FailsType DEF WriteFails, queueVars, PackTypeOK
  <2>2. CASE UNCHANGED <<formatVars, listen, expected, spawnVars, closed, packVars, frag, queueVars,
                         callVars>>
    BY <2>2 DEF FormatTypeOK, CallTypeOK, SpawnTypeOK, PackTypeOK, formatVars,
       spawnVars, packVars, queueVars, callVars
  <2> QED BY <1>7, <2>1, <2>2 DEF handleLoginSuccess
<1>8. CASE handleLoginFailed
  BY <1>8, <1>2 DEF handleLoginFailed
<1>9. CASE handleResourcePacksInfo
  <2>1. PICK declined \in SUBSET Declined : \E cached \in SUBSET (Cached \ declined) :
          /\ PacksInfo(declined, cached)
          /\ \/ expect("client", {"ResourcePackDataInfo", "ResourcePackChunkData", "PlayStatus"})
             \/ expect("client", {"ResourcePackStack", "PlayStatus"})
          /\ announced' \in {announced, announced + 1}
          /\ UNCHANGED <<formatVars, listen, spawnVars, closed, awaiting, dl, dlIndex, dlAmount, frag,
                   queueVars, callVars>>
    BY <1>9 DEF handleResourcePacksInfo
  <2>2. PICK cached \in SUBSET (Cached \ declined) :
          /\ PacksInfo(declined, cached)
          /\ \/ expect("client", {"ResourcePackDataInfo", "ResourcePackChunkData", "PlayStatus"})
             \/ expect("client", {"ResourcePackStack", "PlayStatus"})
          /\ announced' \in {announced, announced + 1}
          /\ UNCHANGED <<formatVars, listen, spawnVars, closed, awaiting, dl, dlIndex, dlAmount, frag,
                   queueVars, callVars>>
    BY <2>1
  <2>3. expected' \in [Sides -> SUBSET Ids]
    BY <1>3, <2>2, ExpectedIds
  <2>4. declined \in SUBSET Packs /\ cached \in SUBSET Packs /\ IsFiniteSet(Packs)
    BY LoginAssumption
  <2>5. Cardinality(Packs) \in Nat /\ Cardinality(declined) \in Nat /\ Cardinality(cached) \in Nat
    BY <2>4, FS_Subset, FS_CardinalityType
  <2>6. PackTypeOK'
    BY <2>2, <2>4, <2>5 DEF PacksInfo, PackTypeOK, queueVars
  <2> QED BY <2>2, <2>3, <2>6 DEF FormatTypeOK, CallTypeOK, SpawnTypeOK, formatVars, spawnVars, callVars
<1>10. CASE handleResourcePackDataInfo
  <2> DEFINE p == pk("client").pack
  <2>1. CASE HandlerFails("client", <<>>)
    BY <1>2, <2>1
  <2>2. CASE ~HandlerFails("client", <<>>)
    <3>1. dl' \in [Packs -> DownloadPCs] /\ downloading' \subseteq Packs
      BY <1>10, <2>2 DEF handleResourcePackDataInfo, PackTypeOK, DownloadPCs
    <3> QED BY <1>10, <2>2, <3>1 DEF handleResourcePackDataInfo, FormatTypeOK, CallTypeOK, SpawnTypeOK,
            PackTypeOK, formatVars, spawnVars, queueVars, callVars
  <2> QED BY <2>1, <2>2
<1>11. CASE handleResourcePackChunkData
  <2>1. CASE HandlerFails("client", <<>>)
    BY <1>2, <2>1
  <2>2. CASE ~HandlerFails("client", <<>>)
    <3>1. listen' \in [Sides -> Listening]
      BY <1>11, <2>2 DEF handleResourcePackChunkData, CallTypeOK
    <3> QED BY <1>11, <2>2, <3>1 DEF handleResourcePackChunkData, FormatTypeOK, CallTypeOK, SpawnTypeOK,
            PackTypeOK, formatVars, spawnVars, queueVars, callVars
  <2> QED BY <2>1, <2>2
<1>12. CASE handleResourcePackStack
  <2>1. CASE HandlerFails("client", <<>>)
    BY <1>2, <2>1
  <2>2. CASE ~HandlerFails("client", <<>>)
    <3>1. expected' \in [Sides -> SUBSET Ids]
      BY <1>3, <1>12, <2>2, ExpectedIds DEF handleResourcePackStack
    <3> QED BY <1>12, <2>2, <3>1 DEF handleResourcePackStack, FormatTypeOK, CallTypeOK, SpawnTypeOK,
            PackTypeOK, formatVars, spawnVars, packVars, queueVars, callVars
  <2> QED BY <2>1, <2>2
<1>13. CASE handleDimensionData \/ handleStartGame \/ handleItemRegistry
  BY <1>1, <1>4, <1>13, ExpectedIds DEF handleDimensionData, handleStartGame, handleItemRegistry
<1>14. CASE handleChunkRadiusUpdated
  <2>1. expected' \in [Sides -> SUBSET Ids]
    BY <1>3, <1>14, ExpectedIds DEF handleChunkRadiusUpdated
  <2>2. waitingForSpawn["client"] \in BOOLEAN
    BY <1>1 DEF SpawnTypeOK
  <2>3. SpawnTypeOK' /\ listen' \in [Sides -> Listening]
    BY <1>14, <2>2, TryFinaliseTypes DEF handleChunkRadiusUpdated
  <2> QED BY <1>14, <2>1, <2>3 DEF handleChunkRadiusUpdated, FormatTypeOK, CallTypeOK, PackTypeOK,
          formatVars, packVars, queueVars, callVars
<1>15. CASE handlePlayerSpawn
  <2>1. gameDataReceived \in BOOLEAN
    BY DEF SpawnTypeOK
  <2>2. SpawnTypeOK' /\ listen' \in [Sides -> Listening]
    BY <1>15, <2>1, TryFinaliseTypes DEF handlePlayerSpawn
  <2> QED BY <1>15, <2>2 DEF handlePlayerSpawn, FormatTypeOK, CallTypeOK, PackTypeOK,
          formatVars, packVars, queueVars, callVars
<1> QED BY <1>5, <1>6, <1>7, <1>8, <1>9, <1>10, <1>11, <1>12, <1>13, <1>14, <1>15 DEF ClientHandler

LEMMA ReceiverTypes ==
  ASSUME LoginTypeOK, NEW s \in Sides,
         \/ DecodeFunc(s) \/ deferPacket(s) \/ receiveDisconnect(s) \/ ReadFails(s)
         \/ Tick(s) \/ Drop(s) \/ DialContextDone
  PROVE  StateTypeOK'
<1> USE DEF LoginTypeOK, StateTypeOK, Listening, FormatTypeOK, CallTypeOK, SpawnTypeOK, PackTypeOK
<1> USE DEF formatVars, spawnVars, packVars, queueVars, callVars
<1>1. CASE DecodeFunc(s) \/ deferPacket(s) \/ Tick(s) \/ DialContextDone
  BY <1>1 DEF DecodeFunc, deferPacket, Tick, DialContextDone
<1>2. CASE receiveDisconnect(s) \/ Drop(s)
  <2>1. closed' \in [Sides -> BOOLEAN]
    BY <1>2 DEF receiveDisconnect, Drop
  <2> QED BY <1>2, <2>1 DEF receiveDisconnect, Drop
<1>3. CASE ReadFails(s)
  <2>1. closed' \in [Sides -> BOOLEAN] /\ listen' \in [Sides -> Listening]
    BY <1>3 DEF ReadFails, Ends
  <2> QED BY <1>3, <2>1 DEF ReadFails
<1> QED BY <1>1, <1>2, <1>3

LEMMA DownloadTypes ==
  ASSUME LoginTypeOK, NEW p \in Packs, Download(p)
  PROVE  StateTypeOK'
<1> USE DEF LoginTypeOK, StateTypeOK, Listening, FormatTypeOK, CallTypeOK, SpawnTypeOK, PackTypeOK,
            DownloadPCs
<1> USE DEF formatVars, spawnVars, queueVars, callVars, downloadVars
<1>1. CASE requestChunk(p)
  BY <1>1 DEF requestChunk
<1>2. CASE receiveFrag(p)
  <2>1. dlIndex[p] + 1 \in Nat
    OBVIOUS
  <2>2. dlIndex' \in [Packs -> Nat]
    BY <1>2, <2>1 DEF receiveFrag
  <2>3. dl' \in [Packs -> DownloadPCs]
    BY <1>2 DEF receiveFrag
  <2>4. listen' \in [Sides -> Listening]
    BY <1>2 DEF receiveFrag
  <2> QED BY <1>2, <2>2, <2>3, <2>4 DEF receiveFrag
<1>3. CASE downloadStops(p)
  BY <1>3 DEF downloadStops
<1>4. CASE parsePack(p)
  BY <1>4 DEF parsePack
<1>5. CASE lastPack(p)
  <2>1. expected' \in [Sides -> SUBSET Ids]
    <3>1. "client" \in Sides
      BY DEF Sides
    <3>2. CASE expect("client", {"ResourcePackStack", "PlayStatus"})
      BY <3>1, <3>2, ExpectType, ExpectedIds
    <3>3. CASE UNCHANGED expected
      BY <3>3
    <3> QED BY <1>5, <3>2, <3>3 DEF lastPack
  <2> QED BY <1>5, <2>1 DEF lastPack
<1>6. CASE announcePacks(p)
  BY <1>6 DEF announcePacks
<1> QED BY <1>1, <1>2, <1>3, <1>4, <1>5, <1>6 DEF Download

LEMMA DialTypes ==
  ASSUME LoginTypeOK, Dial
  PROVE  StateTypeOK'
<1> USE DEF LoginTypeOK, StateTypeOK, Listening
<1>1. FormatTypeOK' /\ SpawnTypeOK' /\ PackTypeOK' /\ closed' = closed /\ start' = start
  BY DEF Dial, dialExpectSettings, dialRequestSettings, dialReady, dialExpectLogin, dialLogin,
         dialConnected, dialFails, dialStep, dialVars, FormatTypeOK, SpawnTypeOK, PackTypeOK,
         formatVars, spawnVars, packVars, queueVars
<1>2. dial' \in DialPCs
  BY DEF Dial, dialExpectSettings, dialRequestSettings, dialReady, dialExpectLogin, dialLogin,
         dialConnected, dialFails, dialStep, DialPCs
<1>3. listen' \in [Sides -> Listening]
  BY DEF Dial, dialExpectSettings, dialRequestSettings, dialReady, dialExpectLogin, dialLogin,
         dialConnected, dialFails, CallTypeOK
<1>4. expected' \in [Sides -> SUBSET Ids]
  <2>1. "client" \in Sides
    BY DEF Sides
  <2>2. CASE \E ids \in SUBSET Ids : expect("client", ids)
    BY <2>1, <2>2, ExpectType
  <2>3. CASE UNCHANGED expected
    BY <2>3 DEF CallTypeOK
  <2>4. UNCHANGED expected \/ \E ids \in SUBSET Ids : expect("client", ids)
    BY ExpectedIds DEF Dial, dialExpectSettings, dialRequestSettings, dialReady, dialExpectLogin,
         dialLogin, dialConnected, dialFails
  <2> QED BY <2>2, <2>3, <2>4
<1> QED BY <1>1, <1>2, <1>3, <1>4 DEF CallTypeOK

LEMMA WriteSteps ==
  ASSUME NEW i \in DOMAIN StartPackets
  PROVE  WritePCs[i + 1] \in StartPCs /\ WritePCs[i] \notin {"accept", "begin"}
         /\ WritePCs[i + 1] \notin {"accept", "begin"}
<1>1. i \in 1 .. 5
  BY DEF StartPackets
<1>2. i = 1 \/ i = 2 \/ i = 3 \/ i = 4 \/ i = 5
  BY <1>1
<1>3. /\ WritePCs[1] = "write 1" /\ WritePCs[2] = "write 2" /\ WritePCs[3] = "write 3"
      /\ WritePCs[4] = "write 4" /\ WritePCs[5] = "write 5" /\ WritePCs[6] = "flush"
  BY DEF WritePCs
<1>4. i + 1 = 2 \/ i + 1 = 3 \/ i + 1 = 4 \/ i + 1 = 5 \/ i + 1 = 6
  BY <1>1
<1>5. WritePCs[i] \in {"write 1", "write 2", "write 3", "write 4", "write 5"}
  BY <1>2, <1>3
<1>6. WritePCs[i + 1] \in {"write 2", "write 3", "write 4", "write 5", "flush"}
  BY <1>3, <1>4
<1> QED BY <1>5, <1>6 DEF StartPCs

LEMMA ApplicationTypes ==
  ASSUME LoginTypeOK, Application
  PROVE  StateTypeOK'
<1> USE DEF LoginTypeOK, StateTypeOK, Listening, FormatTypeOK, CallTypeOK, SpawnTypeOK, PackTypeOK,
            StartPCs
<1> USE DEF formatVars, spawnVars, packVars, queueVars, startVars
<1>1. CASE Accept
  BY <1>1 DEF Accept
<1>2. CASE StartGame
  <2>1. waitingForSpawn' \in [Sides -> BOOLEAN]
    BY <1>2 DEF StartGame
  <2> QED BY <1>2, <2>1 DEF StartGame
<1>3. CASE startGame
  <2>1. "server" \in Sides /\ {"RequestChunkRadius", "SetLocalPlayerAsInitialised"} \in SUBSET Ids
    BY ExpectedIds DEF Sides
  <2>2. expected' \in [Sides -> SUBSET Ids]
    BY <1>3, <2>1, ExpectType DEF startGame
  <2> QED BY <1>3, <2>2 DEF startGame
<1>4. CASE startGameWrite
  <2>1. start' \in StartPCs /\ startVars' = startVars /\ expected' = expected
    BY <1>4, WriteSteps DEF startGameWrite
  <2> QED BY <2>1
<1>5. CASE startGameFlush \/ startGameSpawned \/ startGameFails
  BY <1>5 DEF startGameFlush, startGameSpawned, startGameFails
<1> QED BY <1>1, <1>2, <1>3, <1>4, <1>5 DEF Application

LEMMA NextTypes ==
  ASSUME LoginTypeOK, Next
  PROVE  LoginTypeOK'
<1>1. StateTypeOK'
  BY ReceiverTypes, DownloadTypes, ApplicationTypes, DialTypes, ServerTypes, ClientTypes DEF Next, Sides
<1>2. StreamTypeOK'
  BY NextTraffic DEF HasTraffic, Traffic, Adds
<1> QED BY <1>1, <1>2 DEF LoginTypeOK, StateTypeOK

------------------------------------------------------------------------------
(* Resource packs. *)

countVars == <<packAmount, downloading, resourcePacks, ignored, dl, dlAmount, announced>>

LEMMA PacksUnchanged ==
  ASSUME PackInv, UNCHANGED countVars
  PROVE  PackInv'
BY DEF PackInv, NoPacks, Counted, IsLast, countVars

(* The packs are offered before anything of them is downloaded. *)
LEMMA OfferedFirst ==
  ASSUME StreamTypeOK, StageInv, Handle("client", "ResourcePacksInfo")
  PROVE  NoPacks
<1>1. pk("client") \in OnTheWay("client") /\ pk("client").id = "ResourcePacksInfo"
  BY Handled DEF Sides
<1> QED BY <1>1 DEF StageInv, Early, Late, Offered, NoOffer

LEMMA PacksInfoCounts ==
  ASSUME LoginTypeOK, StageInv, handleResourcePacksInfo
  PROVE  Counted'
<1> USE DEF LoginTypeOK, PackTypeOK
<1>1. PICK declined \in SUBSET Declined : \E cached \in SUBSET (Cached \ declined) :
        /\ PacksInfo(declined, cached)
        /\ IF Packs \ (declined \cup cached) # {} THEN announced' = announced
                                                  ELSE announced' = announced + 1
        /\ Handle("client", "ResourcePacksInfo") /\ dl' = dl /\ dlAmount' = dlAmount
  BY DEF handleResourcePacksInfo
<1>2. PICK cached \in SUBSET (Cached \ declined) :
        /\ PacksInfo(declined, cached)
        /\ IF Packs \ (declined \cup cached) # {} THEN announced' = announced
                                                  ELSE announced' = announced + 1
        /\ Handle("client", "ResourcePacksInfo") /\ dl' = dl /\ dlAmount' = dlAmount
  BY <1>1
<1>3. NoPacks
  BY <1>2, OfferedFirst
<1>4. declined \in SUBSET Packs /\ cached \in SUBSET Packs /\ IsFiniteSet(Packs)
      /\ declined \cap cached = {}
  BY LoginAssumption
<1>5. IsFiniteSet(declined) /\ IsFiniteSet(cached) /\ IsFiniteSet(declined \cup cached)
      /\ Cardinality(declined \cup cached) =
           Cardinality(declined) + Cardinality(cached) - Cardinality(declined \cap cached)
  BY <1>4, FS_Subset, FS_Union
<1> DEFINE rest == Packs \ (declined \cup cached)
<1>6. IsFiniteSet(rest) /\ rest \cap (declined \cup cached) = {}
      /\ Packs = rest \cup (declined \cup cached)
  BY <1>4, FS_Subset
<1> HIDE DEF rest
<1>7. Cardinality(Packs) =
        Cardinality(rest) + Cardinality(declined \cup cached)
          - Cardinality(rest \cap (declined \cup cached))
  BY <1>5, <1>6, FS_Union
<1>8. /\ Cardinality(Packs) \in Nat /\ Cardinality(rest) \in Nat /\ Cardinality(declined) \in Nat
      /\ Cardinality(cached) \in Nat /\ Cardinality({}) = 0 /\ Cardinality(declined \cup cached) \in Nat
      /\ Cardinality(rest) = 0 <=> rest = {}
  BY <1>4, <1>5, <1>6, FS_CardinalityType, FS_EmptySet
<1>9. Cardinality(rest) = Cardinality(Packs) - Cardinality(declined) - Cardinality(cached)
  <2>1. Cardinality(declined \cap cached) = 0 /\ Cardinality(rest \cap (declined \cup cached)) = 0
    BY <1>4, <1>6, <1>8
  <2>2. Cardinality(declined \cup cached) = Cardinality(declined) + Cardinality(cached)
    BY <1>5, <1>8, <2>1
  <2>3. Cardinality(Packs) = Cardinality(rest) + Cardinality(declined \cup cached)
    BY <1>7, <1>8, <2>1
  <2> QED BY <1>8, <2>2, <2>3
<1>10. /\ packAmount' = Cardinality(rest) /\ ignored' = declined /\ resourcePacks' = cached
       /\ downloading' = rest /\ dl' = dl /\ announced = 0 /\ \A p \in Packs : dl[p] = "none"
  BY <1>2, <1>3, <1>9 DEF PacksInfo, NoPacks, rest
<1>11. rest = Packs \ (resourcePacks' \cup ignored')
  BY <1>10 DEF rest
<1>12. (packAmount = Cardinality(Packs \ (resourcePacks \cup ignored)))'
  BY <1>10, <1>11
<1>13. announced' = IF rest # {} THEN 0 ELSE 1
  BY <1>2, <1>10 DEF rest
<1>14. \A p \in Packs : dl'[p] = "none"
  BY <1>10
<1>15. (\A p \in downloading : p \notin resourcePacks \cup ignored /\ dl[p] = "none")'
  BY <1>10, <1>11, <1>14
<1>16. announced' <= 1 /\ (announced' = 1 => packAmount' = 0)
  BY <1>8, <1>10, <1>13
<1> QED BY <1>12, <1>14, <1>15, <1>16 DEF Counted, IsLast

LEMMA DataInfoCounts ==
  ASSUME LoginTypeOK, PackInv, NEW p, p \in downloading,
         downloading' = downloading \ {p}, dl' = [dl EXCEPT ![p] = "request"],
         UNCHANGED <<packAmount, resourcePacks, ignored, dlAmount, announced>>
  PROVE  Counted'
<1> USE DEF LoginTypeOK, PackTypeOK
<1>1. Counted /\ p \in Packs
  BY DEF PackInv, NoPacks
<1>2. \A q \in Packs : dl'[q] = IF q = p THEN "request" ELSE dl[q]
  BY <1>1
<1>3. \A q \in Packs : IsLast(q)' => IsLast(q)
  BY <1>2 DEF IsLast
<1>4. p \notin resourcePacks \cup ignored
  BY <1>1 DEF Counted
<1> QED BY <1>1, <1>2, <1>3, <1>4 DEF Counted

(* A goroutine moves on without counting its pack. *)
LEMMA DownloadMoves ==
  ASSUME LoginTypeOK, Counted, NEW p \in Packs, NEW to, dl' = [dl EXCEPT ![p] = to],
         \/ dl[p] \in {"request", "wait", "parse"} /\ to \in {"request", "wait", "parse", "done"}
         \/ dl[p] = "last" /\ dlAmount[p] = 0 /\ to = "announce"
         \/ dl[p] = "last" /\ to = "done",
         UNCHANGED <<packAmount, downloading, resourcePacks, ignored, dlAmount, announced>>
  PROVE  Counted'
<1> USE DEF LoginTypeOK, PackTypeOK
<1>1. \A q \in Packs : dl'[q] = IF q = p THEN to ELSE dl[q]
  OBVIOUS
<1>2. \A q \in Packs : IsLast(q)' => IsLast(q)
  BY <1>1 DEF IsLast
<1>3. p \notin downloading
  BY DEF Counted
<1>4. \A q \in Packs : dl'[q] \in {"request", "wait", "parse"} => dl[q] \in {"request", "wait", "parse"}
  BY <1>1
<1>5. \A q \in downloading : dl'[q] = "none"
  BY <1>1, <1>3 DEF Counted
<1> QED BY <1>2, <1>4, <1>5 DEF Counted

LEMMA ParseCounts ==
  ASSUME LoginTypeOK, Counted, NEW p \in Packs, dl[p] = "parse",
         packAmount' = packAmount - 1, resourcePacks' = resourcePacks \cup {p},
         dlAmount' = [dlAmount EXCEPT ![p] = packAmount - 1], dl' = [dl EXCEPT ![p] = "last"],
         UNCHANGED <<downloading, ignored, announced>>
  PROVE  Counted'
<1> USE DEF LoginTypeOK, PackTypeOK
<1> DEFINE rest == Packs \ (resourcePacks \cup ignored)
<1>1. p \in rest /\ packAmount = Cardinality(rest) /\ p \notin downloading
  BY DEF Counted
<1>2. IsFiniteSet(rest)
  BY LoginAssumption, FS_Subset
<1>3. rest \ {p} = Packs \ (resourcePacks' \cup ignored')
  OBVIOUS
<1>4. IsFiniteSet(rest \ {p}) /\ Cardinality(rest \ {p}) = Cardinality(rest) - 1
  BY <1>1, <1>2, FS_RemoveElement
<1>5. Cardinality(rest) \in Nat /\ Cardinality(rest) # 0
  BY <1>1, <1>2, FS_CardinalityType, FS_EmptySet
<1>6. packAmount' = Cardinality(Packs \ (resourcePacks' \cup ignored')) /\ packAmount # 0
  BY <1>1, <1>3, <1>4, <1>5
<1> HIDE DEF rest
<1>7. \A q \in Packs : /\ dl'[q] = (IF q = p THEN "last" ELSE dl[q])
                       /\ dlAmount'[q] = (IF q = p THEN packAmount - 1 ELSE dlAmount[q])
  OBVIOUS
<1>8. announced = 0 /\ \A q \in Packs : ~IsLast(q)
  <2>1. announced \in Nat /\ announced <= 1 /\ announced # 1
    BY <1>6 DEF Counted
  <2>2. \A q \in Packs : ~IsLast(q)
    BY <1>6, Zenon DEF Counted
  <2>3. announced = 0
    BY <2>1
  <2> QED BY <2>2, <2>3
<1>9. \A q \in Packs : IsLast(q)' => q = p /\ packAmount' = 0
  BY <1>7, <1>8 DEF IsLast
<1>10. \A q \in Packs : dl'[q] \in {"request", "wait", "parse"} =>
         q # p /\ dl[q] \in {"request", "wait", "parse"}
  BY <1>7
<1>11. \A q \in downloading : q # p /\ dl'[q] = "none"
  BY <1>1, <1>7 DEF Counted
<1> QED BY <1>6, <1>8, <1>9, <1>10, <1>11 DEF Counted

LEMMA AnnounceCounts ==
  ASSUME LoginTypeOK, Counted, NEW p \in Packs, dl[p] = "announce",
         announced' = announced + 1, dl' = [dl EXCEPT ![p] = "done"],
         UNCHANGED <<packAmount, downloading, resourcePacks, ignored, dlAmount>>
  PROVE  Counted'
<1> USE DEF LoginTypeOK, PackTypeOK
<1>1. \A q \in Packs : dl'[q] = IF q = p THEN "done" ELSE dl[q]
  OBVIOUS
<1>2. packAmount = 0 /\ announced = 0 /\ \A q \in Packs : IsLast(q) => q = p
  BY DEF Counted, IsLast
<1>3. \A q \in Packs : ~IsLast(q)'
  BY <1>1, <1>2 DEF IsLast
<1>4. announced' = 1 /\ packAmount' = 0
  BY <1>2
<1>5. \A q \in downloading : dl'[q] = "none"
  BY <1>1 DEF Counted
<1>6. \A q \in Packs : dl'[q] \in {"request", "wait", "parse"} => dl[q] \in {"request", "wait", "parse"}
  BY <1>1
<1> QED BY <1>3, <1>4, <1>5, <1>6 DEF Counted

LEMMA DownloadPacks ==
  ASSUME LoginTypeOK, PackInv, NEW p \in Packs, Download(p)
  PROVE  PackInv'
<1>1. CASE NoPacks
  BY <1>1 DEF NoPacks, Download, requestChunk, receiveFrag, downloadStops, parsePack, lastPack,
     announcePacks
<1>2. CASE Counted
  <2> USE <1>2 DEF downloadVars
  <2>1. CASE requestChunk(p)
    BY <2>1, DownloadMoves DEF requestChunk, PackInv
  <2>2. CASE receiveFrag(p)
    BY <2>2, DownloadMoves DEF receiveFrag, PackInv
  <2>3. CASE downloadStops(p)
    BY <2>3, DownloadMoves DEF downloadStops, PackInv
  <2>4. CASE parsePack(p)
    BY <2>4, DownloadMoves, ParseCounts DEF parsePack, PackInv
  <2>5. CASE lastPack(p)
    BY <2>5, DownloadMoves DEF lastPack, PackInv
  <2>6. CASE announcePacks(p)
    BY <2>6, AnnounceCounts DEF announcePacks, PackInv
  <2> QED BY <2>1, <2>2, <2>3, <2>4, <2>5, <2>6 DEF Download
<1> QED BY <1>1, <1>2 DEF PackInv

LEMMA NextPacks ==
  ASSUME LoginTypeOK, StageInv, PackInv, Next
  PROVE  PackInv'
<1> USE DEF countVars, packVars
<1>1. ASSUME NEW s, NEW pks, HandlerFails(s, pks) PROVE PackInv'
  BY <1>1, PacksUnchanged DEF HandlerFails, FailsExpecting
<1>2. ASSUME NEW s, NEW ids, WriteFails(s, ids) PROVE PackInv'
  BY <1>2, PacksUnchanged DEF WriteFails, FailsExpecting
<1>3. CASE \E s \in Sides : \/ DecodeFunc(s) \/ deferPacket(s) \/ receiveDisconnect(s) \/ ReadFails(s)
                            \/ Tick(s) \/ Drop(s)
  BY <1>3, PacksUnchanged DEF DecodeFunc, deferPacket, receiveDisconnect, ReadFails, Tick, Drop
<1>4. CASE ServerHandler
  <2>1. CASE OfferPacks
    BY <1>2, <2>1, PacksUnchanged DEF OfferPacks
  <2>2. CASE handleRequestNetworkSettings
    BY <1>1, <1>2, <2>2, PacksUnchanged DEF handleRequestNetworkSettings, SendNetworkSettings
  <2>3. CASE handleLogin
    BY <1>1, <1>2, <2>1, <2>3, PacksUnchanged DEF handleLogin, EnableEncryption, Kick
  <2>4. CASE handleClientToServerHandshake
    BY <2>1, <2>4 DEF handleClientToServerHandshake
  <2>5. CASE handleSendPacks \/ handleAllPacksDownloaded
    BY <1>2, <2>5, PacksUnchanged DEF handleSendPacks, handleAllPacksDownloaded
  <2>6. CASE handleResourcePackChunkRequest
    BY <1>1, <1>2, <2>6, PacksUnchanged DEF handleResourcePackChunkRequest
  <2>7. CASE handleClientCacheStatus \/ handleCompleted \/ handleRequestChunkRadius
             \/ handleSetLocalPlayerAsInitialised
    BY <2>7, PacksUnchanged DEF handleClientCacheStatus, handleCompleted, handleRequestChunkRadius,
       handleSetLocalPlayerAsInitialised
  <2> QED BY <1>4, <2>2, <2>3, <2>4, <2>5, <2>6, <2>7 DEF ServerHandler
<1>5. CASE ClientHandler
  <2>1. CASE handleResourcePacksInfo
    BY <2>1, PacksInfoCounts DEF PackInv
  <2>2. CASE handleResourcePackDataInfo
    <3>1. CASE HandlerFails("client", <<>>)
      BY <1>1, <3>1
    <3>2. CASE ~HandlerFails("client", <<>>)
      <4> DEFINE p == pk("client").pack
      <4>1. /\ p \in downloading /\ downloading' = downloading \ {p}
            /\ dl' = [dl EXCEPT ![p] = "request"]
            /\ UNCHANGED <<packAmount, resourcePacks, ignored, dlAmount, announced>>
        BY <2>2, <3>2 DEF handleResourcePackDataInfo
      <4> HIDE DEF p
      <4> QED BY <4>1, DataInfoCounts DEF PackInv
    <3> QED BY <3>1, <3>2
  <2>3. CASE handleResourcePackChunkData
    BY <1>1, <2>3, PacksUnchanged DEF handleResourcePackChunkData
  <2>4. CASE handleLoginSuccess \/ handleLoginFailed \/ handleResourcePackStack
    BY <1>1, <1>2, <2>4, PacksUnchanged DEF handleLoginSuccess, handleLoginFailed,
       handleResourcePackStack
  <2>5. CASE \/ handleNetworkSettings \/ handleServerToClientHandshake \/ handleDimensionData
             \/ handleStartGame \/ handleItemRegistry \/ handleChunkRadiusUpdated \/ handlePlayerSpawn
    BY <2>5, PacksUnchanged DEF handleNetworkSettings, handleServerToClientHandshake,
       handleDimensionData, handleStartGame, handleItemRegistry, Note, handleChunkRadiusUpdated,
       handlePlayerSpawn
  <2> QED BY <1>5, <2>1, <2>2, <2>3, <2>4, <2>5 DEF ClientHandler
<1>6. CASE \E p \in Packs : Download(p)
  BY <1>6, DownloadPacks
<1>7. CASE Dial
  BY <1>7, PacksUnchanged DEF Dial, dialExpectSettings, dialRequestSettings, dialReady, dialExpectLogin,
     dialLogin, dialConnected, dialFails, dialStep, dialVars
<1>8. CASE DialContextDone
  BY <1>8, PacksUnchanged DEF DialContextDone
<1>9. CASE Application
  BY <1>9, PacksUnchanged DEF Application, Accept, StartGame, startGame, startGameWrite, startGameFlush,
     startGameSpawned, startGameFails, startVars
<1> QED BY <1>3, <1>4, <1>5, <1>6, <1>7, <1>8, <1>9 DEF Next

------------------------------------------------------------------------------
(* The spawn. *)

(* The part of the invariant that speaks of the streams follows from what  *)
(* a step may write.                                                       *)
LEMMA SpawnStreams ==
  ASSUME LoginTypeOK, SpawnInv, HasTraffic, \A s \in Sides : loggedIn[s] => loggedIn'[s]
  PROVE  /\ (\A m \in OnTheWay("client") : AnnouncesSpawn(m) => loggedIn["server"])'
         /\ (\A m \in OnTheWay("server") : m.id = "SetLocalPlayerAsInitialised" => loggedIn["client"])'
<1>1. PICK s \in Sides, f \in Formats, new \in SUBSET Message : Traffic(s, f, new)
  BY DEF HasTraffic
<1>2. /\ OnTheWay(Other(s))' \subseteq OnTheWay(Other(s)) \cup new /\ OnTheWay(s)' \subseteq OnTheWay(s)
      /\ \A m \in new : m.id = "SetLocalPlayerAsInitialised" => s = "client" /\ loggedIn'["client"]
      /\ \A m \in new : AnnouncesSpawn(m) => s = "server" /\ "RequestChunkRadius" \in expected["server"]
  BY <1>1 DEF Traffic, Adds
<1>3. /\ "RequestChunkRadius" \in expected["server"] => loggedIn["server"]
      /\ \A m \in OnTheWay("client") : AnnouncesSpawn(m) => loggedIn["server"]
      /\ \A m \in OnTheWay("server") : m.id = "SetLocalPlayerAsInitialised" => loggedIn["client"]
      /\ loggedIn["server"] => loggedIn'["server"]
      /\ loggedIn["client"] => loggedIn'["client"]
  BY DEF SpawnInv, ServerSpawnInv, ClientSpawnInv, Sides
<1>4. CASE s = "client"
  <2>1. /\ OnTheWay("server")' \subseteq OnTheWay("server") \cup new
        /\ OnTheWay("client")' \subseteq OnTheWay("client")
    BY <1>2, <1>4 DEF Other
  <2> QED BY <1>2, <1>3, <1>4, <2>1 DEF AnnouncesSpawn
<1>5. CASE s = "server"
  <2>1. /\ OnTheWay("client")' \subseteq OnTheWay("client") \cup new
        /\ OnTheWay("server")' \subseteq OnTheWay("server")
    BY <1>2, <1>5 DEF Other
  <2> QED BY <1>2, <1>3, <1>5, <2>1 DEF AnnouncesSpawn
<1> QED BY <1>4, <1>5 DEF Sides

(* The steps that have no part in it. *)
Spawning == {"RequestChunkRadius", "ItemRegistry", "ChunkRadiusUpdated"}
ExpectsLess == \A s \in Sides : expected'[s] \cap Spawning \subseteq expected[s]
Apart ==
  /\ UNCHANGED spawnVars /\ start' = start /\ ExpectsLess
  /\ listen'["server"] = "deliver" => listen["server"] = "deliver"

LEMMA SpawnApart ==
  ASSUME LoginTypeOK, SpawnInv, HasTraffic, Apart
  PROVE  SpawnInv'
<1>1. /\ (\A m \in OnTheWay("client") : AnnouncesSpawn(m) => loggedIn["server"])'
      /\ (\A m \in OnTheWay("server") : m.id = "SetLocalPlayerAsInitialised" => loggedIn["client"])'
  BY SpawnStreams DEF Apart, spawnVars
<1>2. /\ "RequestChunkRadius" \in expected'["server"] => "RequestChunkRadius" \in expected["server"]
      /\ "ItemRegistry" \in expected'["client"] => "ItemRegistry" \in expected["client"]
      /\ "ChunkRadiusUpdated" \in expected'["client"] => "ChunkRadiusUpdated" \in expected["client"]
  BY DEF Apart, ExpectsLess, Spawning, Sides
<1>3. ServerSpawnInv'
  BY <1>1, <1>2 DEF Apart, spawnVars, SpawnInv, ServerSpawnInv
<1>4. ClientSpawnInv'
  BY <1>1, <1>2 DEF Apart, spawnVars, SpawnInv, ClientSpawnInv
<1> QED BY <1>3, <1>4 DEF SpawnInv

LEMMA ExpectLess ==
  ASSUME CallTypeOK, NEW s \in Sides, NEW ids, expect(s, ids),
         ids = expected[s] \/ ids \cap Spawning = {}
  PROVE  ExpectsLess
BY DEF CallTypeOK, expect, ExpectsLess

LEMMA ExpectSame == expected' = expected => ExpectsLess
BY DEF ExpectsLess

LEMMA FailsApart ==
  ASSUME LoginTypeOK, NEW s \in Sides, NEW ids, NEW pks, FailsExpecting(s, ids, pks),
         ids = expected[s] \/ ids \cap Spawning = {}
  PROVE  Apart
<1>1. ExpectsLess
  BY ExpectLess DEF LoginTypeOK, FailsExpecting
<1>2. listen'["server"] = "deliver" => listen["server"] = "deliver"
  BY DEF LoginTypeOK, CallTypeOK, FailsExpecting, Ends, Sides
<1> QED BY <1>1, <1>2 DEF Apart, FailsExpecting

LEMMA HandlerFailsApart ==
  ASSUME LoginTypeOK, NEW s \in Sides, NEW pks, HandlerFails(s, pks)
  PROVE  Apart
BY FailsApart DEF HandlerFails

LEMMA ReceiverApart ==
  ASSUME LoginTypeOK, NEW s \in Sides,
         \/ DecodeFunc(s) \/ deferPacket(s) \/ receiveDisconnect(s) \/ ReadFails(s)
         \/ Tick(s) \/ Drop(s) \/ DialContextDone
  PROVE  Apart
<1>1. ExpectsLess
  BY ExpectSame DEF DecodeFunc, deferPacket, receiveDisconnect, ReadFails, Tick, Drop, DialContextDone
<1>2. listen'["server"] = "deliver" => listen["server"] = "deliver"
  BY DEF LoginTypeOK, CallTypeOK, Sides, DecodeFunc, deferPacket, receiveDisconnect, ReadFails, Ends,
     Tick,
     Drop, DialContextDone
<1>3. UNCHANGED spawnVars /\ start' = start
  BY DEF DecodeFunc, deferPacket, receiveDisconnect, ReadFails, Tick, Drop, DialContextDone, callVars
<1> QED BY <1>1, <1>2, <1>3 DEF Apart

LEMMA DownloadApart ==
  ASSUME LoginTypeOK, NEW p \in Packs, Download(p)
  PROVE  Apart
<1>1. UNCHANGED spawnVars /\ start' = start
  BY DEF Download, requestChunk, receiveFrag, downloadStops, parsePack, lastPack, announcePacks,
     downloadVars, callVars
<1>2. listen'["server"] = "deliver" => listen["server"] = "deliver"
  BY DEF Download, requestChunk, receiveFrag, downloadStops, parsePack, lastPack, announcePacks,
     LoginTypeOK, CallTypeOK, Sides
<1>3. expected' = expected \/ expect("client", {"ResourcePackStack", "PlayStatus"})
  BY DEF Download, requestChunk, receiveFrag, downloadStops, parsePack, lastPack, announcePacks
<1>4. ExpectsLess
  BY <1>3, ExpectSame, ExpectLess DEF LoginTypeOK, Sides, Spawning
<1> QED BY <1>1, <1>2, <1>4 DEF Apart

LEMMA DialApart ==
  ASSUME LoginTypeOK, Dial
  PROVE  Apart
<1>1. UNCHANGED spawnVars /\ start' = start
  BY DEF Dial, dialExpectSettings, dialRequestSettings, dialReady, dialExpectLogin, dialLogin,
         dialConnected, dialFails, dialStep, dialVars
<1>2. listen'["server"] = "deliver" => listen["server"] = "deliver"
  BY DEF Dial, dialExpectSettings, dialRequestSettings, dialReady, dialExpectLogin, dialLogin,
         dialConnected, dialFails, LoginTypeOK, CallTypeOK, Sides
<1>3. \/ expected' = expected \/ expect("client", {"NetworkSettings", "PlayStatus"})
      \/ expect("client", {"ServerToClientHandshake", "PlayStatus", "ResourcePacksInfo"})
  BY DEF Dial, dialExpectSettings, dialRequestSettings, dialReady, dialExpectLogin, dialLogin,
         dialConnected, dialFails
<1>4. ExpectsLess
  BY <1>3, ExpectSame, ExpectLess DEF LoginTypeOK, Sides, Spawning
<1> QED BY <1>1, <1>2, <1>4 DEF Apart

LEMMA ApplicationSpawn ==
  ASSUME LoginTypeOK, SpawnInv, Application
  PROVE  SpawnInv'
<1> USE DEF LoginTypeOK
<1>1. HasTraffic
  BY ApplicationTraffic
<1>2. "server" \in Sides /\ "client" \in Sides
  BY DEF Sides
<1>3. CASE start' # "accept" /\ start' # "begin" /\ loggedIn["server"] /\ UNCHANGED <<spawnVars, listen>>
           /\ start # "accept" /\ start # "begin"
           /\ \/ expected' = expected
              \/ expect("server", {"RequestChunkRadius", "SetLocalPlayerAsInitialised"})
  <2>1. /\ (\A m \in OnTheWay("client") : AnnouncesSpawn(m) => loggedIn["server"])'
        /\ (\A m \in OnTheWay("server") : m.id = "SetLocalPlayerAsInitialised" => loggedIn["client"])'
    BY <1>3, <1>1, SpawnStreams DEF spawnVars
  <2>2. expected'["client"] = expected["client"]
    BY <1>3, <1>2 DEF CallTypeOK, expect
  <2>3. ServerSpawnInv'
    BY <1>3, <2>1 DEF SpawnInv, ServerSpawnInv, spawnVars
  <2>4. ClientSpawnInv'
    BY <1>3, <2>1, <2>2 DEF SpawnInv, ClientSpawnInv, spawnVars
  <2> QED BY <2>3, <2>4 DEF SpawnInv
<1>4. CASE Accept
  <2>1. /\ (\A m \in OnTheWay("client") : AnnouncesSpawn(m) => loggedIn["server"])'
        /\ (\A m \in OnTheWay("server") : m.id = "SetLocalPlayerAsInitialised" => loggedIn["client"])'
    BY <1>4, <1>1, SpawnStreams DEF Accept, spawnVars
  <2>2. UNCHANGED <<spawnVars, expected>> /\ start = "accept" /\ start' = "begin" /\ loggedIn["server"]
    BY <1>4 DEF Accept, SpawnInv, ServerSpawnInv
  <2> QED BY <2>1, <2>2 DEF SpawnInv, ServerSpawnInv, ClientSpawnInv, spawnVars
<1>5. CASE StartGame
  <2>1. /\ (\A m \in OnTheWay("client") : AnnouncesSpawn(m) => loggedIn["server"])'
        /\ (\A m \in OnTheWay("server") : m.id = "SetLocalPlayerAsInitialised" => loggedIn["client"])'
    BY <1>5, <1>1, SpawnStreams DEF StartGame
  <2>2. /\ UNCHANGED <<loggedIn, spawned, gameDataReceived, received, expected, listen>>
        /\ start = "begin" /\ start' = "expect" /\ waitingForSpawn'["client"] = waitingForSpawn["client"]
    BY <1>5, <1>2 DEF StartGame, SpawnTypeOK
  <2>3. loggedIn["server"] /\ spawned["server"] = 0
    BY <2>2 DEF SpawnInv, ServerSpawnInv
  <2> QED BY <2>1, <2>2, <2>3 DEF SpawnInv, ServerSpawnInv, ClientSpawnInv
<1>6. CASE startGame \/ startGameFlush \/ startGameSpawned \/ startGameFails
  BY <1>6, <1>3 DEF startGame, startGameFlush, startGameSpawned, startGameFails, startVars, SpawnInv,
     ServerSpawnInv
<1>7. CASE startGameWrite
  <2>1. PICK i \in DOMAIN StartPackets :
          start = WritePCs[i] /\ start' = WritePCs[i + 1] /\ UNCHANGED <<startVars, expected>>
    BY <1>7 DEF startGameWrite
  <2>2. start \notin {"accept", "begin"} /\ start' \notin {"accept", "begin"}
    BY <2>1, WriteSteps
  <2>3. loggedIn["server"]
    BY <2>2 DEF SpawnInv, ServerSpawnInv
  <2> QED BY <1>3, <2>1, <2>2, <2>3 DEF startVars
<1> QED BY <1>4, <1>5, <1>6, <1>7 DEF Application

LEMMA ServerSpawn ==
  ASSUME LoginTypeOK, SpawnInv, ServerHandler
  PROVE  SpawnInv'
<1>1. HasTraffic
  BY ServerTraffic
<1>2. "server" \in Sides /\ "client" \in Sides
  BY DEF Sides
<1>3. Apart => SpawnInv'
  BY <1>1, SpawnApart
<1>4. ASSUME NEW pks, HandlerFails("server", pks) PROVE Apart
  BY <1>4, <1>2, HandlerFailsApart
<1>5. ASSUME NEW ids, WriteFails("server", ids), ids = expected["server"] \/ ids \cap Spawning = {}
      PROVE  Apart
  BY <1>2, <1>5, FailsApart DEF WriteFails
<1>6. ASSUME NEW ids, expect("server", ids), ids = expected["server"] \/ ids \cap Spawning = {},
             UNCHANGED <<spawnVars, listen, callVars>>
      PROVE  Apart
  <2>1. ExpectsLess
    BY <1>2, <1>6, ExpectLess DEF LoginTypeOK
  <2> QED BY <1>6, <2>1 DEF Apart, callVars
<1>7. ASSUME UNCHANGED <<spawnVars, listen, expected, callVars>> PROVE Apart
  BY <1>7, ExpectSame DEF Apart, callVars
<1>8. ASSUME OfferPacks PROVE Apart
  BY <1>8, <1>6, <1>5 DEF OfferPacks, Spawning
<1>9. CASE handleRequestNetworkSettings
  <2>1. Apart
    BY <1>9, <1>6, <1>4, <1>5 DEF handleRequestNetworkSettings, SendNetworkSettings, Spawning
  <2> QED BY <1>3, <2>1
<1>10. CASE handleLogin
  <2>1. ASSUME EnableEncryption PROVE Apart
    BY <2>1, <1>6, <1>5 DEF EnableEncryption, Spawning
  <2>2. ASSUME Kick PROVE Apart
    BY <2>2, <1>7 DEF Kick
  <2>3. Apart
    BY <1>10, <1>4, <1>8, <2>1, <2>2 DEF handleLogin
  <2> QED BY <1>3, <2>3
<1>11. CASE handleClientToServerHandshake
  BY <1>3, <1>8, <1>11 DEF handleClientToServerHandshake
<1>12. CASE handleClientCacheStatus
  BY <1>3, <1>7, <1>12 DEF handleClientCacheStatus
<1>13. CASE handleSendPacks
  <2>1. Apart
    BY <1>13, <1>6, <1>5 DEF handleSendPacks, Spawning
  <2> QED BY <1>3, <2>1
<1>14. CASE handleAllPacksDownloaded
  <2>1. Apart
    BY <1>14, <1>7, <1>5 DEF handleAllPacksDownloaded
  <2> QED BY <1>3, <2>1
<1>15. CASE handleCompleted
  <2>1. /\ UNCHANGED <<expected, waitingForSpawn, spawned, gameDataReceived, received, callVars>>
        /\ loggedIn' = [loggedIn EXCEPT !["server"] = TRUE]
    BY <1>15 DEF handleCompleted
  <2>2. loggedIn'["server"] /\ loggedIn'["client"] = loggedIn["client"]
    BY <1>2, <2>1 DEF LoginTypeOK, SpawnTypeOK
  <2>3. \A s \in Sides : loggedIn[s] => loggedIn'[s]
    BY <2>2 DEF Sides
  <2>4. /\ (\A m \in OnTheWay("client") : AnnouncesSpawn(m) => loggedIn["server"])'
        /\ (\A m \in OnTheWay("server") : m.id = "SetLocalPlayerAsInitialised" => loggedIn["client"])'
    BY <1>1, <2>3, SpawnStreams
  <2>5. ServerSpawnInv'
    BY <2>1, <2>2, <2>4 DEF SpawnInv, ServerSpawnInv, callVars
  <2>6. ClientSpawnInv'
    BY <2>1, <2>2, <2>4 DEF SpawnInv, ClientSpawnInv
  <2> QED BY <2>5, <2>6 DEF SpawnInv
<1>16. CASE handleResourcePackChunkRequest
  <2>1. CASE HandlerFails("server", <<>>)
    BY <1>3, <1>4, <2>1
  <2>2. CASE WriteFails("server", expected["server"])
    BY <1>3, <1>5, <2>2
  <2>3. CASE SendChunk(pk("server").pack) /\ UNCHANGED <<listen, spawnVars, callVars>>
    <3>1. \E ids : expect("server", ids) /\ (ids = expected["server"] \/ ids \cap Spawning = {})
      BY <2>3 DEF SendChunk, Spawning
    <3> QED BY <1>3, <1>6, <2>3, <3>1
  <2> QED BY <1>16, <2>1, <2>2, <2>3 DEF handleResourcePackChunkRequest
<1>17. CASE handleRequestChunkRadius
  BY <1>3, <1>6, <1>17 DEF handleRequestChunkRadius, Spawning
<1>18. CASE handleSetLocalPlayerAsInitialised
  <2>1. /\ UNCHANGED <<expected, loggedIn, gameDataReceived, received, listen, callVars>>
        /\ waitingForSpawn' = [waitingForSpawn EXCEPT !["server"] = FALSE]
        /\ spawned' = [spawned EXCEPT !["server"] =
                         IF waitingForSpawn["server"] THEN spawned["server"] + 1 ELSE spawned["server"]]
    BY <1>18 DEF handleSetLocalPlayerAsInitialised
  <2>2. /\ (\A m \in OnTheWay("client") : AnnouncesSpawn(m) => loggedIn["server"])'
        /\ (\A m \in OnTheWay("server") : m.id = "SetLocalPlayerAsInitialised" => loggedIn["client"])'
    BY <1>1, <2>1, SpawnStreams
  <2>3. pk("server") \in OnTheWay("server") /\ pk("server").id = "SetLocalPlayerAsInitialised"
    BY <1>2, <1>18, Handled DEF handleSetLocalPlayerAsInitialised, LoginTypeOK
  <2>4. loggedIn["client"]
    BY <2>3 DEF SpawnInv, ClientSpawnInv
  <2>5. /\ ~waitingForSpawn'["server"] /\ waitingForSpawn'["client"] = waitingForSpawn["client"]
        /\ spawned'["client"] = spawned["client"]
        /\ waitingForSpawn["server"] => spawned'["server"] = spawned["server"] + 1
        /\ ~waitingForSpawn["server"] => spawned'["server"] = spawned["server"]
    BY <1>2, <2>1 DEF LoginTypeOK, SpawnTypeOK
  <2>6. /\ waitingForSpawn["server"] => spawned["server"] = 0 /\ start \notin {"accept", "begin"}
        /\ spawned["server"] # 0 => spawned["server"] = 1
        /\ start \in {"accept", "begin"} => spawned["server"] = 0
    BY DEF SpawnInv, ServerSpawnInv
  <2>7. /\ spawned'["server"] # 0 => spawned'["server"] = 1
        /\ start \in {"accept", "begin"} => spawned'["server"] = 0
    BY <2>5, <2>6
  <2>8. ServerSpawnInv'
    BY <2>1, <2>2, <2>4, <2>5, <2>7 DEF SpawnInv, ServerSpawnInv, callVars
  <2>9. ClientSpawnInv'
    BY <2>1, <2>2, <2>5 DEF SpawnInv, ClientSpawnInv
  <2> QED BY <2>8, <2>9 DEF SpawnInv
<1> QED BY <1>9, <1>10, <1>11, <1>12, <1>13, <1>14, <1>15, <1>16, <1>17, <1>18 DEF ServerHandler

(* The client is logged in, with all it needs, or notes what it got. *)
LEMMA TryFinaliseSpawn ==
  ASSUME LoginTypeOK, SpawnInv, HasTraffic, NEW waiting \in BOOLEAN, NEW got \in BOOLEAN,
         tryFinaliseClientConn(waiting, got), ~(loggedIn["client"] /\ ~waitingForSpawn["client"]),
         received \subseteq received', start' = start,
         "RequestChunkRadius" \in expected'["server"] => "RequestChunkRadius" \in expected["server"],
         "ItemRegistry" \in expected'["client"] => "ItemRegistry" \in expected["client"],
         "ChunkRadiusUpdated" \in expected'["client"] => "ChunkRadiusUpdated" \in expected["client"],
         waiting => "PlayerSpawn" \in received' /\ loggedIn["server"],
         got => GameData \cup {"ChunkRadiusUpdated"} \subseteq received' /\ loggedIn["server"]
  PROVE  SpawnInv'
<1> USE DEF LoginTypeOK
<1>1. "server" \in Sides /\ "client" \in Sides
  BY DEF Sides
<1>2. ~loggedIn["client"] /\ spawned["client"] = 0
  BY DEF SpawnInv, ClientSpawnInv
<1>3. spawned["server"] = 0
  BY <1>2 DEF SpawnInv, ServerSpawnInv
<1>4. CASE waiting /\ got
  <2>1. /\ waitingForSpawn' = [waitingForSpawn EXCEPT !["client"] = FALSE] /\ gameDataReceived' = FALSE
        /\ spawned' = [spawned EXCEPT !["client"] = spawned["client"] + 1]
        /\ loggedIn' = [loggedIn EXCEPT !["client"] = TRUE]
        /\ listen' = [listen EXCEPT !["client"] = "connected"]
    BY <1>4 DEF tryFinaliseClientConn
  <2>2. /\ ~waitingForSpawn'["client"] /\ waitingForSpawn'["server"] = waitingForSpawn["server"]
        /\ loggedIn'["client"] /\ loggedIn'["server"] = loggedIn["server"] /\ ~gameDataReceived'
    BY <1>1, <2>1 DEF SpawnTypeOK
  <2>3. spawned'["client"] = 1 /\ spawned'["server"] = 0
    BY <1>1, <1>2, <1>3, <2>1 DEF SpawnTypeOK
  <2>4. listen'["server"] = listen["server"]
    BY <1>1, <2>1 DEF CallTypeOK
  <2>5. \A s \in Sides : loggedIn[s] => loggedIn'[s]
    BY <2>2 DEF Sides
  <2>6. /\ (\A m \in OnTheWay("client") : AnnouncesSpawn(m) => loggedIn["server"])'
        /\ (\A m \in OnTheWay("server") : m.id = "SetLocalPlayerAsInitialised" => loggedIn["client"])'
    BY <2>5, SpawnStreams
  <2>7. ServerSpawnInv'
    BY <2>2, <2>3, <2>4, <2>6 DEF SpawnInv, ServerSpawnInv
  <2>8. ClientSpawnInv'
    BY <1>4, <2>2, <2>3, <2>6 DEF SpawnInv, ClientSpawnInv, GameData
  <2> QED BY <2>7, <2>8 DEF SpawnInv
<1>5. CASE ~(waiting /\ got)
  <2>1. /\ waitingForSpawn' = [waitingForSpawn EXCEPT !["client"] = waiting] /\ gameDataReceived' = got
        /\ UNCHANGED <<spawned, loggedIn, listen>>
    BY <1>5 DEF tryFinaliseClientConn
  <2>2. (waitingForSpawn'["client"] <=> waiting)
        /\ waitingForSpawn'["server"] = waitingForSpawn["server"]
    BY <1>1, <2>1 DEF SpawnTypeOK
  <2>3. /\ (\A m \in OnTheWay("client") : AnnouncesSpawn(m) => loggedIn["server"])'
        /\ (\A m \in OnTheWay("server") : m.id = "SetLocalPlayerAsInitialised" => loggedIn["client"])'
    BY <2>1, SpawnStreams
  <2>4. ServerSpawnInv'
    BY <2>1, <2>2, <2>3 DEF SpawnInv, ServerSpawnInv
  <2>5. ClientSpawnInv'
    BY <1>2, <2>1, <2>2, <2>3 DEF SpawnInv, ClientSpawnInv, GameData
  <2> QED BY <2>4, <2>5 DEF SpawnInv
<1> QED BY <1>4, <1>5

LEMMA NoteSpawn ==
  ASSUME LoginTypeOK, SpawnInv, HasTraffic, NEW id, NEW ids, NEW pks, Note(id, ids, pks),
         "ItemRegistry" \in ids => "ItemRegistry" \in expected["client"] \/ id = "StartGame",
         "ChunkRadiusUpdated" \in ids =>
           "ChunkRadiusUpdated" \in expected["client"]
             \/ (id = "ItemRegistry" /\ id \in expected["client"])
  PROVE  SpawnInv'
<1> USE DEF LoginTypeOK
<1>1. "server" \in Sides /\ "client" \in Sides
  BY DEF Sides
<1>2. /\ received' = received \cup {id} /\ expected' = [expected EXCEPT !["client"] = ids]
      /\ UNCHANGED <<listen, loggedIn, waitingForSpawn, spawned, gameDataReceived, callVars>>
  BY DEF Note, expect
<1>3. expected'["client"] = ids /\ expected'["server"] = expected["server"]
  BY <1>1, <1>2 DEF CallTypeOK
<1>4. /\ (\A m \in OnTheWay("client") : AnnouncesSpawn(m) => loggedIn["server"])'
      /\ (\A m \in OnTheWay("server") : m.id = "SetLocalPlayerAsInitialised" => loggedIn["client"])'
  BY <1>2, SpawnStreams
<1>5. ServerSpawnInv'
  BY <1>2, <1>3, <1>4 DEF SpawnInv, ServerSpawnInv, callVars
<1>6. ClientSpawnInv'
  BY <1>2, <1>3, <1>4 DEF SpawnInv, ClientSpawnInv, GameData
<1> QED BY <1>5, <1>6 DEF SpawnInv

LEMMA ClientSpawn ==
  ASSUME LoginTypeOK, SpawnInv, ClientHandler
  PROVE  SpawnInv'
<1>1. HasTraffic
  BY ClientTraffic
<1>2. "server" \in Sides /\ "client" \in Sides
  BY DEF Sides
<1>3. Apart => SpawnInv'
  BY <1>1, SpawnApart
<1>4. ASSUME NEW pks, HandlerFails("client", pks) PROVE Apart
  BY <1>4, <1>2, HandlerFailsApart
<1>5. ASSUME WriteFails("client", expected["client"]) PROVE Apart
  BY <1>2, <1>5, FailsApart DEF WriteFails
<1>6. ASSUME NEW ids, expect("client", ids), ids \cap Spawning = {},
             UNCHANGED <<spawnVars, listen, callVars>>
      PROVE  Apart
  <2>1. ExpectsLess
    BY <1>2, <1>6, ExpectLess DEF LoginTypeOK
  <2> QED BY <1>6, <2>1 DEF Apart, callVars
<1>7. ASSUME UNCHANGED <<spawnVars, expected, callVars>>, listen'["server"] = listen["server"]
      PROVE  Apart
  BY <1>7, ExpectSame DEF Apart, callVars
<1>8. ASSUME NEW to, listen' = [listen EXCEPT !["client"] = to]
      PROVE  listen'["server"] = listen["server"]
  BY <1>8, <1>2 DEF LoginTypeOK, CallTypeOK
<1>9. CASE handleNetworkSettings
  BY <1>3, <1>8, <1>7, <1>9 DEF handleNetworkSettings
<1>10. CASE handleServerToClientHandshake
  BY <1>3, <1>7, <1>10 DEF handleServerToClientHandshake
<1>11. CASE handleLoginSuccess
  BY <1>3, <1>7, <1>5, <1>11 DEF handleLoginSuccess
<1>12. CASE handleLoginFailed
  BY <1>3, <1>4, <1>12 DEF handleLoginFailed
<1>13. CASE handleResourcePacksInfo
  <2>1. \/ expect("client", {"ResourcePackDataInfo", "ResourcePackChunkData", "PlayStatus"})
        \/ expect("client", {"ResourcePackStack", "PlayStatus"})
    BY <1>13 DEF handleResourcePacksInfo
  <2>2. UNCHANGED <<spawnVars, listen, callVars>>
    BY <1>13 DEF handleResourcePacksInfo
  <2>3. Apart
    BY <1>6, <2>1, <2>2 DEF Spawning
  <2> QED BY <1>3, <2>3
<1>14. CASE handleResourcePackDataInfo
  BY <1>3, <1>4, <1>7, <1>14 DEF handleResourcePackDataInfo
<1>15. CASE handleResourcePackChunkData
  BY <1>3, <1>4, <1>8, <1>7, <1>15 DEF handleResourcePackChunkData
<1>16. CASE handleResourcePackStack
  BY <1>3, <1>6, <1>4, <1>16 DEF handleResourcePackStack, Spawning
<1>17. CASE handleDimensionData
  BY <1>1, <1>17, NoteSpawn DEF handleDimensionData
<1>18. CASE handleStartGame
  BY <1>1, <1>18, NoteSpawn DEF handleStartGame
<1>19. CASE handleItemRegistry
  <2>1. "ItemRegistry" \in expected["client"]
    BY <1>19 DEF handleItemRegistry, Note, Handle
  <2> QED BY <1>1, <1>19, <2>1, NoteSpawn DEF handleItemRegistry
<1>20. CASE handleChunkRadiusUpdated
  <2> DEFINE waiting == waitingForSpawn["client"]
  <2>1. /\ pk("client") \in OnTheWay("client") /\ pk("client").id = "ChunkRadiusUpdated"
        /\ "ChunkRadiusUpdated" \in expected["client"]
        /\ ~(loggedIn["client"] /\ ~waitingForSpawn["client"])
    BY <1>2, <1>20, Handled DEF handleChunkRadiusUpdated, LoginTypeOK
  <2>2. loggedIn["server"] /\ GameData \subseteq received
    BY <2>1 DEF SpawnInv, ServerSpawnInv, ClientSpawnInv, AnnouncesSpawn
  <2>3. waiting \in BOOLEAN
    BY <1>2 DEF LoginTypeOK, SpawnTypeOK
  <2>4. waiting => "PlayerSpawn" \in received
    BY DEF SpawnInv, ClientSpawnInv
  <2>5. /\ received' = received \cup {"ChunkRadiusUpdated"} /\ UNCHANGED callVars
        /\ tryFinaliseClientConn(waiting, TRUE)
        /\ expected' = [expected EXCEPT !["client"] = {"PlayStatus", "ResourcePacksInfo"}]
    BY <1>20 DEF handleChunkRadiusUpdated, expect
  <2>6. expected'["client"] = {"PlayStatus", "ResourcePacksInfo"}
        /\ expected'["server"] = expected["server"]
    BY <1>2, <2>5 DEF LoginTypeOK, CallTypeOK
  <2> HIDE DEF waiting
  <2> QED BY <1>1, <2>1, <2>2, <2>3, <2>4, <2>5, <2>6, TryFinaliseSpawn DEF callVars
<1>21. CASE handlePlayerSpawn
  <2>1. /\ pk("client") \in OnTheWay("client") /\ pk("client").id = "PlayStatus"
        /\ ~(loggedIn["client"] /\ ~waitingForSpawn["client"])
    BY <1>2, <1>21, Handled DEF handlePlayerSpawn, LoginTypeOK
  <2>2. AnnouncesSpawn(pk("client"))
    BY <1>21, <2>1 DEF handlePlayerSpawn, AnnouncesSpawn
  <2>3. loggedIn["server"]
    BY <2>1, <2>2 DEF SpawnInv, ServerSpawnInv
  <2>4. gameDataReceived \in BOOLEAN
    BY DEF LoginTypeOK, SpawnTypeOK
  <2>5. gameDataReceived => GameData \cup {"ChunkRadiusUpdated"} \subseteq received
    BY DEF SpawnInv, ClientSpawnInv
  <2>6. /\ received' = received \cup {"PlayerSpawn"} /\ UNCHANGED callVars
        /\ tryFinaliseClientConn(TRUE, gameDataReceived) /\ expected' = expected
    BY <1>21 DEF handlePlayerSpawn
  <2>7. TRUE \in BOOLEAN /\ start' = start /\ "PlayerSpawn" \in received' /\ received \subseteq received'
    BY <2>6 DEF callVars
  <2> QED BY <1>1, <2>1, <2>3, <2>4, <2>5, <2>6, <2>7, TryFinaliseSpawn
<1> QED BY <1>9, <1>10, <1>11, <1>12, <1>13, <1>14, <1>15, <1>16, <1>17, <1>18, <1>19, <1>20,
           <1>21 DEF ClientHandler

LEMMA NextSpawn ==
  ASSUME LoginTypeOK, SpawnInv, Next
  PROVE  SpawnInv'
<1>1. HasTraffic
  BY NextTraffic
<1>2. CASE Apart
  BY <1>1, <1>2, SpawnApart
<1> QED BY <1>2, ReceiverApart, DownloadApart, DialApart, ApplicationSpawn, ServerSpawn, ClientSpawn
        DEF Next, Sides

------------------------------------------------------------------------------
(* The stages. *)

(* A side reads a batch or takes a packet, and nothing is sent to it. *)
Drained(s) ==
  \/ net'[s] = net[s] /\ inbox'[s] = inbox[s]
  \/ net'[s] = net[s] /\ inbox[s] # <<>> /\ inbox'[s] = Tail(inbox[s])
  \/ /\ inbox[s] = <<>> /\ net[s] # <<>>
     /\ inbox'[s] = Head(net[s]).packets /\ net'[s] = Tail(net[s])

LEMMA DrainsDecode ==
  ASSUME StreamTypeOK, NEW s \in Sides, DecodeFunc(s)
  PROVE  buffered' = buffered /\ \A t \in Sides : Drained(t)
<1>1. /\ inbox' = [inbox EXCEPT ![s] = Head(net[s]).packets] /\ net' = [net EXCEPT ![s] = Tail(net[s])]
      /\ inbox[s] = <<>> /\ net[s] # <<>> /\ buffered' = buffered
  BY DEF DecodeFunc
<1>2. /\ inbox'[s] = Head(net[s]).packets /\ net'[s] = Tail(net[s])
      /\ \A t \in Sides : t # s => inbox'[t] = inbox[t] /\ net'[t] = net[t]
  BY <1>1 DEF StreamTypeOK
<1> QED BY <1>1, <1>2 DEF Drained

LEMMA DrainsTakes ==
  ASSUME StreamTypeOK, Takes, \A t \in Sides : net'[t] = net[t]
  PROVE  \A t \in Sides : Drained(t)
BY DEF StreamTypeOK, Takes, Drained

LEMMA QuietDrained ==
  ASSUME NEW s, Quiet(s), buffered'[Other(s)] = <<>>, Drained(s)
  PROVE  Quiet(s)'
BY DEF Quiet, Drained

LEMMA OnlyDrained ==
  ASSUME NEW s, NEW f, NEW m, Only(s, f, m), buffered'[Other(s)] = <<>>, Drained(s)
  PROVE  Only(s, f, m)'
<1> DEFINE b == [format |-> f, packets |-> <<m>>]
<1>1. Head(<<b>>) = b /\ b.packets = <<m>> /\ Tail(<<b>>) = <<>> /\ Tail(<<m>>) = <<>>
  OBVIOUS
<1>2. CASE net[s] = <<>> /\ inbox[s] \in {<<>>, <<m>>}
  BY <1>1, <1>2 DEF Only, Drained
<1>3. CASE net[s] = <<b>> /\ inbox[s] = <<>>
  <2>1. \/ net'[s] = <<b>> /\ inbox'[s] = <<>>
        \/ net'[s] = <<>> /\ inbox'[s] = <<m>>
    BY <1>1, <1>3 DEF Drained
  <2> QED BY <2>1 DEF Only
<1> QED BY <1>2, <1>3 DEF Only

LEMMA QuietIsOnly ==
  ASSUME NEW s, Quiet(s)
  PROVE  \A f, m : Only(s, f, m)
BY DEF Quiet, Only

(* What a side with an empty buffer sends. *)
LEMMA SendNone ==
  ASSUME StreamTypeOK, NEW s \in Sides, NEW f, buffered[s] = <<>>, SendAs(s, f, <<>>, <<>>)
  PROVE  \A t \in Sides : net'[t] = net[t] /\ buffered'[t] = buffered[t]
<1> DEFINE o == Other(s)
<1>1. o \in Sides /\ o # s
  BY OtherSide
<1>2. net[o] \in Seq(Batches)
  BY <1>1 DEF StreamTypeOK
<1>3. Batch(f, <<>> \o <<>>) = <<>> /\ Batch(f, <<>>) = <<>>
  <2>1. <<>> \in Seq(Message)
    OBVIOUS
  <2>2. <<>> \o <<>> = <<>>
    BY <2>1, ConcatEmptySeq
  <2> QED BY <2>2 DEF Batch
<1>4. net[o] \o <<>> = net[o]
  BY <1>2, ConcatEmptySeq
<1>5. CASE closed[s]
  BY <1>5 DEF SendAs, sendVars
<1>6. CASE ~closed[s]
  <2>1. /\ net' = [net EXCEPT ![o] = net[o] \o Batch(f, <<>> \o <<>>) \o Batch(f, <<>>)]
        /\ buffered' = [buffered EXCEPT ![s] = <<>>]
    BY <1>6 DEF SendAs
  <2>2. net' = [net EXCEPT ![o] = net[o]]
    BY <1>3, <1>4, <2>1
  <2> HIDE DEF o
  <2> QED BY <1>1, <2>1, <2>2 DEF StreamTypeOK
<1> QED BY <1>5, <1>6

LEMMA SendFresh ==
  ASSUME StreamTypeOK, NEW s \in Sides, NEW f, NEW pks \in Seq(Message), pks # <<>>, ~closed[s],
         buffered[s] = <<>>, net[Other(s)] = <<>>, SendAs(s, f, pks, <<>>)
  PROVE  /\ net'[Other(s)] = <<[format |-> f, packets |-> pks]>> /\ net'[s] = net[s]
         /\ buffered'[s] = <<>> /\ buffered'[Other(s)] = buffered[Other(s)]
<1> DEFINE o == Other(s)
           b == [format |-> f, packets |-> pks]
<1>1. o \in Sides /\ o # s
  BY OtherSide
<1>2. <<>> \o pks = pks
  BY ConcatEmptySeq
<1>3. Batch(f, <<>> \o pks) = <<b>> /\ Batch(f, <<>>) = <<>>
  BY <1>2 DEF Batch
<1> HIDE DEF b
<1>4. <<b>> \in Seq({b})
  OBVIOUS
<1>5. <<>> \o <<b>> = <<b>> /\ <<b>> \o <<>> = <<b>>
  BY <1>4, ConcatEmptySeq
<1>6. /\ net' = [net EXCEPT ![o] = net[o] \o Batch(f, <<>> \o pks) \o Batch(f, <<>>)]
      /\ buffered' = [buffered EXCEPT ![s] = <<>>]
  BY DEF SendAs
<1>7. net[o] \o Batch(f, <<>> \o pks) \o Batch(f, <<>>) = <<b>>
  BY <1>3, <1>5
<1>8. net' = [net EXCEPT ![o] = <<b>>]
  BY <1>6, <1>7
<1> HIDE DEF o
<1>9. net'[o] = <<b>> /\ net'[s] = net[s] /\ buffered'[s] = <<>> /\ buffered'[o] = buffered[o]
  BY <1>1, <1>6, <1>8 DEF StreamTypeOK
<1> QED BY <1>9 DEF o, b

LEMMA SendClosed ==
  ASSUME NEW s, NEW f, NEW pks, NEW more, closed[s], SendAs(s, f, pks, more)
  PROVE  net' = net /\ buffered' = buffered
BY DEF SendAs, sendVars

(* Early in the login, whatever only ends, takes or reads keeps the stage. *)
LEMMA EarlyMoves ==
  ASSUME Early, UNCHANGED <<enc, dec, start, countVars>>, dial' \in {dial, "failed"},
         \A s \in Sides : buffered'[s] = <<>> /\ Drained(s) /\ listen'[s] \in {listen[s], "done"}
  PROVE  Early'
<1>1. /\ buffered'[Other("client")] = <<>> /\ buffered'[Other("server")] = <<>>
      /\ Drained("client") /\ Drained("server")
      /\ listen'["client"] \in {listen["client"], "done"}
      /\ listen'["server"] \in {listen["server"], "done"}
  BY DEF Sides, Other
<1>2. (Quiet("client") => Quiet("client")') /\ (Quiet("server") => Quiet("server")')
  BY <1>1, QuietDrained
<1>3. ASSUME NEW f, NEW m, Only("client", f, m) PROVE Only("client", f, m)'
  BY <1>1, <1>3, OnlyDrained
<1>4. ASSUME NEW f, NEW m, Only("server", f, m) PROVE Only("server", f, m)'
  BY <1>1, <1>4, OnlyDrained
<1>5. NotAccepted' /\ NoPacks'
  BY <1>1 DEF Early, NotAccepted, NoPacks, countVars
<1>6. ASSUME NEW c, NEW s, Uses(c, s) PROVE Uses(c, s)'
  BY <1>6 DEF Uses
<1>7. CASE Dialling
  BY <1>1, <1>2, <1>5, <1>6, <1>7 DEF Early, Dialling
<1>8. CASE Requested
  BY <1>1, <1>2, <1>3, <1>4, <1>5, <1>6, <1>8 DEF Early, Requested
<1>9. CASE SettingsSent
  BY <1>1, <1>2, <1>3, <1>5, <1>6, <1>9 DEF Early, SettingsSent
<1>10. CASE Ready
  BY <1>1, <1>2, <1>5, <1>6, <1>10 DEF Early, Ready
<1>11. CASE LoginSent
  BY <1>1, <1>2, <1>3, <1>4, <1>5, <1>6, <1>11 DEF Early, LoginSent
<1>12. CASE HandshakeSent
  BY <1>1, <1>2, <1>3, <1>5, <1>6, <1>12 DEF Early, HandshakeSent
<1>13. CASE Secured
  BY <1>1, <1>2, <1>4, <1>5, <1>6, <1>13 DEF Early, Secured
<1> QED BY <1>7, <1>8, <1>9, <1>10, <1>11, <1>12, <1>13 DEF Early

LEMMA EarlyBuffers ==
  ASSUME Early
  PROVE  \A s \in Sides : buffered[s] = <<>>
BY DEF Early, Dialling, Requested, SettingsSent, Ready, LoginSent, HandshakeSent, Secured, Quiet, Only,
   Other, Sides

(* The one packet a side can have to handle tells the stage. *)
LEMMA EarlyServer ==
  ASSUME Early, inbox["server"] # <<>>
  PROVE  /\ inbox["server"] = <<pk("server")>> /\ net["server"] = <<>>
         /\ \/ pk("server") = Pk("RequestNetworkSettings") /\ Requested /\ Quiet("client")
            \/ pk("server") = Pk("Login") /\ LoginSent /\ Quiet("client")
            \/ pk("server") = Pk("ClientToServerHandshake") /\ Secured
<1>1. ~Quiet("server")
  BY DEF Quiet
<1>2. ASSUME NEW f, NEW m, Only("server", f, m)
      PROVE  inbox["server"] = <<m>> /\ net["server"] = <<>> /\ pk("server") = m
  BY <1>2 DEF Only, pk
<1>3. CASE Requested
  BY <1>1, <1>2, <1>3 DEF Requested
<1>4. CASE LoginSent
  BY <1>1, <1>2, <1>4 DEF LoginSent
<1>5. CASE Secured
  BY <1>1, <1>2, <1>5 DEF Secured
<1> QED BY <1>1, <1>3, <1>4, <1>5 DEF Early, Dialling, SettingsSent, Ready, HandshakeSent

LEMMA EarlyClient ==
  ASSUME Early, inbox["client"] # <<>>
  PROVE  /\ inbox["client"] = <<pk("client")>> /\ net["client"] = <<>>
         /\ \/ pk("client") = Status("LoginFailed")
            \/ pk("client") = Pk("NetworkSettings") /\ SettingsSent
            \/ pk("client") = Pk("Disconnect")
            \/ pk("client") = Pk("ServerToClientHandshake") /\ HandshakeSent
<1>1. ~Quiet("client")
  BY DEF Quiet
<1>2. ASSUME NEW f, NEW m, Only("client", f, m)
      PROVE  inbox["client"] = <<m>> /\ net["client"] = <<>> /\ pk("client") = m
  BY <1>2 DEF Only, pk
<1>3. CASE Requested
  BY <1>1, <1>2, <1>3 DEF Requested
<1>4. CASE LoginSent
  BY <1>1, <1>2, <1>4 DEF LoginSent
<1>5. CASE SettingsSent
  BY <1>1, <1>2, <1>5 DEF SettingsSent
<1>6. CASE HandshakeSent
  BY <1>1, <1>2, <1>6 DEF HandshakeSent
<1> QED BY <1>1, <1>3, <1>4, <1>5, <1>6 DEF Early, Dialling, Ready, Secured

LEMMA EarlyKeeps ==
  ASSUME LoginTypeOK, Early, Takes, UNCHANGED <<enc, dec, start, countVars>>, dial' \in {dial, "failed"},
         \A s \in Sides : listen'[s] \in {listen[s], "done"},
         \/ UNCHANGED sendVars
         \/ \E s \in Sides : Send(s, <<>>)
         \/ \E s \in Sides, pks \in Seq(Message) : closed[s] /\ Send(s, pks)
  PROVE  Early'
<1> USE DEF LoginTypeOK
<1>1. \A t \in Sides : net'[t] = net[t] /\ buffered'[t] = buffered[t]
  <2>1. CASE UNCHANGED sendVars
    BY <2>1 DEF sendVars
  <2>2. CASE \E s \in Sides : Send(s, <<>>)
    BY <2>2, EarlyBuffers, SendNone DEF Send
  <2>3. CASE \E s \in Sides, pks \in Seq(Message) : closed[s] /\ Send(s, pks)
    BY <2>3, SendClosed DEF Send
  <2> QED BY <2>1, <2>2, <2>3
<1>2. \A t \in Sides : buffered'[t] = <<>> /\ Drained(t)
  BY <1>1, EarlyBuffers, DrainsTakes
<1> QED BY <1>2, EarlyMoves

LEMMA EarlyFails ==
  ASSUME LoginTypeOK, Early, Takes, NEW s \in Sides, NEW ids, NEW pks \in Seq(Message),
         FailsExpecting(s, ids, pks), pks = <<>> \/ closed[s]
  PROVE  Early'
<1>1. UNCHANGED <<enc, dec, start, countVars>> /\ dial' = dial /\ Send(s, pks)
  BY DEF FailsExpecting, formatVars, packVars, countVars
<1>2. \A t \in Sides : listen'[t] \in {listen[t], "done"}
  BY DEF LoginTypeOK, CallTypeOK, FailsExpecting, Ends
<1> QED BY <1>1, <1>2, EarlyKeeps

LEMMA EarlyReceiver ==
  ASSUME LoginTypeOK, Early, NEW s \in Sides,
         \/ DecodeFunc(s) \/ deferPacket(s) \/ receiveDisconnect(s) \/ ReadFails(s)
         \/ Tick(s) \/ Drop(s) \/ DialContextDone
  PROVE  Early'
<1> USE DEF formatVars, packVars, countVars, callVars
<1>1. CASE DecodeFunc(s)
  <2>1. \A t \in Sides : buffered'[t] = <<>> /\ Drained(t)
    BY <1>1, DrainsDecode, EarlyBuffers DEF LoginTypeOK
  <2>2. UNCHANGED <<enc, dec, start, countVars, listen, dial>>
    BY <1>1 DEF DecodeFunc
  <2> QED BY <2>1, <2>2, EarlyMoves
<1>2. CASE deferPacket(s)
  <2>1. Takes /\ UNCHANGED <<enc, dec, start, countVars, listen, dial>> /\ UNCHANGED sendVars
    BY <1>2 DEF deferPacket, Takes, Received
  <2> QED BY <2>1, EarlyKeeps
<1>3. CASE receiveDisconnect(s)
  <2>1. Takes /\ UNCHANGED <<enc, dec, start, countVars, listen, dial>> /\ Send(s, <<>>)
    BY <1>3 DEF receiveDisconnect, Takes, Received
  <2> QED BY <2>1, EarlyKeeps
<1>4. CASE ReadFails(s)
  <2>1. Takes /\ UNCHANGED <<enc, dec, start, countVars, dial>> /\ Send(s, <<>>)
    BY <1>4 DEF ReadFails, Takes
  <2>2. \A t \in Sides : listen'[t] \in {listen[t], "done"}
    BY <1>4 DEF LoginTypeOK, CallTypeOK, ReadFails, Ends
  <2> QED BY <2>1, <2>2, EarlyKeeps
<1>5. CASE Tick(s)
  BY <1>5, EarlyBuffers DEF Tick
<1>6. CASE Drop(s)
  <2>1. Takes /\ UNCHANGED <<enc, dec, start, countVars, listen, dial>> /\ UNCHANGED sendVars
    BY <1>6 DEF Drop, Takes
  <2> QED BY <2>1, EarlyKeeps
<1>7. CASE DialContextDone
  <2>1. Takes /\ UNCHANGED <<enc, dec, start, countVars, listen, dial>> /\ UNCHANGED sendVars
    BY <1>7 DEF DialContextDone, Takes
  <2> QED BY <2>1, EarlyKeeps
<1> QED BY <1>1, <1>2, <1>3, <1>4, <1>5, <1>6, <1>7

LEMMA EarlyDial ==
  ASSUME LoginTypeOK, Early, Dial
  PROVE  Early'
<1> USE DEF LoginTypeOK
<1>1. "client" \in Sides /\ "server" \in Sides /\ Other("client") = "server"
      /\ Other("server") = "client"
  BY DEF Sides, Other
<1>2. dialVars' = dialVars =>
        /\ Takes /\ UNCHANGED <<enc, dec, start, inbox>> /\ UNCHANGED countVars
  BY DEF dialVars, formatVars, packVars, countVars, Takes
<1>3. ASSUME dialVars' = dialVars, listen'["server"] = listen["server"] PROVE NotAccepted' /\ NoPacks'
  BY <1>2, <1>3 DEF Early, NotAccepted, NoPacks, countVars
<1>4. ASSUME NEW to, listen' = [listen EXCEPT !["client"] = to]
      PROVE  listen'["server"] = listen["server"] /\ listen'["client"] = to
  BY <1>1, <1>4 DEF CallTypeOK
<1>5. ASSUME NEW c, NEW s, Uses(c, s), dialVars' = dialVars PROVE Uses(c, s)'
  BY <1>2, <1>5 DEF Uses
<1>6. ASSUME NEW s \in Sides, Quiet(s), dialVars' = dialVars, UNCHANGED sendVars PROVE Quiet(s)'
  BY <1>2, <1>6 DEF Quiet, sendVars
<1>7. ASSUME NEW s \in Sides, NEW f, NEW m, Only(s, f, m), dialVars' = dialVars, UNCHANGED sendVars
      PROVE  Only(s, f, m)'
  BY <1>2, <1>7 DEF Only, sendVars
<1>8. CASE dialExpectSettings
  <2>1. /\ dial = "expect" /\ dial' = "request" /\ dialVars' = dialVars /\ UNCHANGED <<sendVars, listen>>
    BY <1>8 DEF dialExpectSettings, dialStep
  <2>2. Dialling
    BY <2>1 DEF Early, Requested, SettingsSent, Ready, LoginSent, HandshakeSent, Secured
  <2>3. Dialling'
    BY <1>1, <1>6, <1>5, <2>1, <2>2 DEF Dialling
  <2> QED BY <1>3, <2>1, <2>3 DEF Early
<1>9. CASE dialRequestSettings
  <2>1. /\ dial = "request" /\ dialVars' = dialVars /\ UNCHANGED listen
        /\ dial' = IF closed["client"] THEN "failed" ELSE "settings"
        /\ SendAs("client", enc["client"], <<Pk("RequestNetworkSettings")>>, <<>>)
    BY <1>9 DEF dialRequestSettings, dialStep, Send
  <2>2. Dialling
    BY <2>1 DEF Early, Requested, SettingsSent, Ready, LoginSent, HandshakeSent, Secured
  <2>3. CASE closed["client"]
    <3>1. UNCHANGED sendVars
      BY <2>1, <2>3, SendClosed DEF sendVars
    <3>2. Dialling'
      BY <1>1, <1>6, <1>5, <2>1, <2>2, <2>3, <3>1 DEF Dialling
    <3> QED BY <1>3, <2>1, <3>2 DEF Early
  <2>4. CASE ~closed["client"]
    <3> DEFINE m == Pk("RequestNetworkSettings")
    <3>1. m \in Message
      BY Messages DEF Ids, ServerHandled
    <3>2. /\ enc["client"] = "raw" /\ buffered["client"] = <<>> /\ net["server"] = <<>>
          /\ buffered["server"] = <<>> /\ net["client"] = <<>> /\ inbox["client"] = <<>>
          /\ inbox["server"] = <<>>
      BY <1>1, <2>2 DEF Dialling, Uses, Quiet
    <3>3. SendAs("client", "raw", <<m>>, <<>>)
      BY <2>1, <3>2
    <3> HIDE DEF m
    <3>4. <<m>> \in Seq(Message) /\ <<m>> # <<>>
      BY <3>1
    <3>5. /\ net'["server"] = <<[format |-> "raw", packets |-> <<m>>]>> /\ net'["client"] = <<>>
          /\ buffered'["client"] = <<>> /\ buffered'["server"] = <<>> /\ inbox' = inbox
      BY <1>1, <1>2, <2>1, <2>4, <3>2, <3>3, <3>4, SendFresh
    <3>6. Only("server", "raw", m)' /\ Quiet("client")'
      BY <1>1, <3>2, <3>5 DEF Only, Quiet
    <3>7. Only("client", "raw", Status("LoginFailed"))'
      BY <1>1, <3>2, <3>5 DEF Only
    <3>8. Requested'
      BY <1>5, <2>1, <2>2, <2>4, <3>6, <3>7 DEF Dialling, Requested, m
    <3> QED BY <1>3, <2>1, <3>8 DEF Early
  <2> QED BY <2>3, <2>4
<1>10. CASE dialReady
  <2>1. /\ dial = "settings" /\ dial' = "login" /\ dialVars' = dialVars /\ UNCHANGED sendVars
        /\ listen["client"] = "ready" /\ listen' = [listen EXCEPT !["client"] = "run"]
    BY <1>10 DEF dialReady, dialStep
  <2>2. Ready
    BY <2>1 DEF Early, Dialling, Requested, SettingsSent, LoginSent, HandshakeSent, Secured
  <2>3. Ready'
    BY <1>1, <1>6, <1>5, <2>1, <2>2 DEF Ready
  <2> QED BY <1>3, <1>4, <2>1, <2>3 DEF Early
<1>11. CASE dialExpectLogin
  <2>1. /\ dial = "login" /\ dial' = "send login" /\ dialVars' = dialVars
        /\ UNCHANGED <<sendVars, listen>>
    BY <1>11 DEF dialExpectLogin, dialStep
  <2>2. Ready
    BY <2>1 DEF Early, Dialling, Requested, SettingsSent, LoginSent, HandshakeSent, Secured
  <2>3. Ready'
    BY <1>1, <1>6, <1>5, <2>1, <2>2 DEF Ready
  <2> QED BY <1>3, <2>1, <2>3 DEF Early
<1>12. CASE dialLogin
  <2>1. /\ dial = "send login" /\ dialVars' = dialVars /\ UNCHANGED listen
        /\ dial' = IF closed["client"] THEN "failed" ELSE "connecting"
        /\ SendAs("client", enc["client"], <<Pk("Login")>>, <<>>)
    BY <1>12 DEF dialLogin, dialStep, Send
  <2>2. Ready
    BY <2>1 DEF Early, Dialling, Requested, SettingsSent, LoginSent, HandshakeSent, Secured
  <2>3. CASE closed["client"]
    <3>1. UNCHANGED sendVars
      BY <2>1, <2>3, SendClosed DEF sendVars
    <3>2. Ready'
      BY <1>1, <1>6, <1>5, <2>1, <2>2, <2>3, <3>1 DEF Ready
    <3> QED BY <1>3, <2>1, <3>2 DEF Early
  <2>4. CASE ~closed["client"]
    <3> DEFINE m == Pk("Login")
    <3>1. m \in Message
      BY Messages DEF Ids, ServerHandled
    <3>2. /\ enc["client"] = "compressed" /\ buffered["client"] = <<>> /\ net["server"] = <<>>
          /\ buffered["server"] = <<>> /\ net["client"] = <<>> /\ inbox["client"] = <<>>
          /\ inbox["server"] = <<>>
      BY <1>1, <2>2 DEF Ready, Uses, Quiet
    <3>3. SendAs("client", "compressed", <<m>>, <<>>)
      BY <2>1, <3>2
    <3> HIDE DEF m
    <3>4. <<m>> \in Seq(Message) /\ <<m>> # <<>>
      BY <3>1
    <3>5. /\ net'["server"] = <<[format |-> "compressed", packets |-> <<m>>]>> /\ net'["client"] = <<>>
          /\ buffered'["client"] = <<>> /\ buffered'["server"] = <<>> /\ inbox' = inbox
      BY <1>1, <1>2, <2>1, <2>4, <3>2, <3>3, <3>4, SendFresh
    <3>6. Only("server", "compressed", m)' /\ Quiet("client")'
      BY <1>1, <3>2, <3>5 DEF Only, Quiet
    <3>7. Only("client", "compressed", Pk("Disconnect"))'
      BY <1>1, <3>2, <3>5 DEF Only
    <3>8. LoginSent'
      BY <1>5, <2>1, <2>2, <2>4, <3>6, <3>7 DEF Ready, LoginSent, m
    <3> QED BY <1>3, <2>1, <3>8 DEF Early
  <2> QED BY <2>3, <2>4
<1>13. CASE dialConnected
  <2>1. /\ dial = "connecting" /\ dial' = "connected" /\ dialVars' = dialVars /\ UNCHANGED sendVars
        /\ listen' = [listen EXCEPT !["client"] = "run"]
    BY <1>13 DEF dialConnected, dialStep
  <2>2. LoginSent \/ HandshakeSent \/ Secured
    BY <2>1 DEF Early, Dialling, Requested, SettingsSent, Ready
  <2>3. LoginSent' \/ HandshakeSent' \/ Secured'
    BY <1>1, <1>6, <1>5, <1>7, <2>1, <2>2 DEF LoginSent, HandshakeSent, Secured
  <2> QED BY <1>3, <1>4, <2>1, <2>3 DEF Early
<1>14. CASE dialFails
  <2>1. dial' = "failed" /\ dialVars' = dialVars /\ UNCHANGED <<sendVars, listen>>
    BY <1>14 DEF dialFails, dialStep
  <2> QED BY <1>2, <2>1, EarlyKeeps
<1> QED BY <1>8, <1>9, <1>10, <1>11, <1>12, <1>13, <1>14 DEF Dial

(* The server answers the one packet it has, and the client has none. *)
LEMMA EarlyAnswer ==
  ASSUME LoginTypeOK, Early, NEW id, Handle("server", id), Quiet("client"), ~closed["server"],
         NEW f, NEW pks \in Seq(Message), pks # <<>>, SendAs("server", f, pks, <<>>)
  PROVE  /\ Quiet("server")' /\ buffered'["server"] = <<>> /\ inbox'["client"] = <<>>
         /\ net'["client"] = <<[format |-> f, packets |-> pks]>>
<1> USE DEF LoginTypeOK
<1>1. "client" \in Sides /\ "server" \in Sides /\ Other("client") = "server"
      /\ Other("server") = "client"
  BY DEF Sides, Other
<1>2. inbox["server"] # <<>> /\ inbox' = [inbox EXCEPT !["server"] = Tail(inbox["server"])]
  BY DEF Handle, Received
<1>3. inbox["server"] = <<pk("server")>> /\ net["server"] = <<>>
  BY <1>2, EarlyServer
<1>4. Tail(<<pk("server")>>) = <<>>
  OBVIOUS
<1>5. inbox'["server"] = <<>> /\ inbox'["client"] = inbox["client"]
  BY <1>1, <1>2, <1>3, <1>4 DEF StreamTypeOK
<1>6. net["client"] = <<>> /\ inbox["client"] = <<>> /\ buffered["server"] = <<>>
      /\ buffered["client"] = <<>>
  BY <1>1, EarlyBuffers DEF Quiet
<1>7. /\ net'["client"] = <<[format |-> f, packets |-> pks]>> /\ net'["server"] = net["server"]
      /\ buffered'["server"] = <<>> /\ buffered'["client"] = buffered["client"]
  BY <1>1, <1>6, SendFresh
<1> QED BY <1>1, <1>3, <1>5, <1>6, <1>7 DEF Quiet

(* The offer ends the early stages. *)
LEMMA OfferSent ==
  ASSUME NEW f \in Formats, Uses(f, f)', dial' \in {"connecting", "connected", "failed"},
         NotAccepted', NoPacks', Quiet("server")', buffered'["server"] = <<>>, inbox'["client"] = <<>>,
         net'["client"] = <<[format |-> f, packets |-> Offer]>>
  PROVE  Late'
<1>1. "client" \in Sides /\ "server" \in Sides /\ Other("client") = "server"
      /\ Other("server") = "client"
      /\ Sides = {"client", "server"}
  BY DEF Sides, Other
<1>2. inbox'["server"] = <<>> /\ net'["server"] = <<>> /\ buffered'["client"] = <<>>
  BY <1>1 DEF Quiet
<1> DEFINE b == [format |-> f, packets |-> Offer]
<1>3. b.format = f /\ b.packets = Offer
  OBVIOUS
<1> HIDE DEF b
<1>4. DOMAIN <<b>> = {1} /\ <<b>>[1] = b
  OBVIOUS
<1>5. FormatsOf(<<b>>) \subseteq {f} /\ InNet(<<b>>) = Of(Offer)
  BY <1>3, <1>4 DEF FormatsOf, InNet
<1>6. FormatsOf(<<>>) = {} /\ InNet(<<>>) = {} /\ Of(<<>>) = {}
  BY DEF FormatsOf, InNet, Of
<1>7. net'["client"] = <<b>>
  BY DEF b
<1>8. OnTheWay("client")' = Of(Offer) /\ OnTheWay("server")' = {}
  BY <1>1, <1>2, <1>5, <1>6, <1>7 DEF OnTheWay
<1>9. \A m \in Of(Offer) : m.id \notin Changes
  <2>1. Status("LoginSuccess").id = "PlayStatus" /\ Pk("ResourcePacksInfo").id = "ResourcePacksInfo"
    BY Messages DEF Args, Ids, ClientHandled
  <2> QED BY <2>1, OfOffer DEF Changes
<1>10. \A s \in Sides : (FormatsOf(net[s]) \subseteq {f})'
  BY <1>1, <1>2, <1>5, <1>6, <1>7
<1>11. \A s \in Sides : (\A m \in OnTheWay(s) : m.id \notin Changes)'
  BY <1>1, <1>8, <1>9
<1>12. Settled(f)'
  BY <1>10, <1>11 DEF Settled
<1>13. Offered(f)'
  BY <1>7, <1>8 DEF Offered, b
<1> QED BY <1>12, <1>13 DEF Late

LEMMA EarlyOffer ==
  ASSUME LoginTypeOK, Early, NEW id, Handle("server", id), NEW f \in Formats, Uses(f, f),
         dial \in {"connecting", "connected", "failed"}, Quiet("client"), OfferPacks
  PROVE  StageInv'
<1>1. CASE WriteFails("server", {"ResourcePackClientResponse", "ClientCacheStatus"})
  <2>1. Takes /\ "server" \in Sides /\ <<>> \in Seq(Message)
    BY Handled DEF LoginTypeOK, Sides
  <2> QED BY <1>1, <2>1, EarlyFails DEF WriteFails, StageInv
<1>2. CASE /\ ~closed["server"] /\ Send("server", Offer)
           /\ UNCHANGED <<formatVars, listen, spawnVars, closed, packVars, frag, queueVars, callVars>>
  <2>1. UNCHANGED <<enc, dec, listen, dial, start>> /\ UNCHANGED countVars
    BY <1>2 DEF formatVars, packVars, countVars, callVars
  <2>2. Uses(f, f)' /\ NotAccepted' /\ NoPacks' /\ dial' \in {"connecting", "connected", "failed"}
    BY <2>1 DEF Early, Uses, NotAccepted, NoPacks, countVars
  <2>3. SendAs("server", f, Offer, <<>>)
    BY <1>2 DEF Send, Uses
  <2>4. Offer \in Seq(Message) /\ Offer # <<>>
    BY OfOffer DEF Offer
  <2>5. /\ Quiet("server")' /\ buffered'["server"] = <<>> /\ inbox'["client"] = <<>>
        /\ net'["client"] = <<[format |-> f, packets |-> Offer]>>
    BY <1>2, <2>3, <2>4, EarlyAnswer
  <2> QED BY <2>2, <2>5, OfferSent DEF StageInv
<1> QED BY <1>1, <1>2 DEF OfferPacks, Offer

LEMMA EarlyServerStep ==
  ASSUME LoginTypeOK, Early, ServerHandler
  PROVE  StageInv'
<1> USE DEF LoginTypeOK
<1>1. "client" \in Sides /\ "server" \in Sides /\ Other("client") = "server"
      /\ Other("server") = "client"
  BY DEF Sides, Other
<1>2. /\ Pk("RequestNetworkSettings").id = "RequestNetworkSettings" /\ Pk("Login").id = "Login"
      /\ Pk("ClientToServerHandshake").id = "ClientToServerHandshake"
  BY Messages DEF Ids, ServerHandled
<1>3. ASSUME NEW id, Handle("server", id)
      PROVE  /\ Takes /\ pk("server").id = id
             /\ \/ id = "RequestNetworkSettings" /\ Requested /\ Quiet("client")
                \/ id = "Login" /\ LoginSent /\ Quiet("client")
                \/ id = "ClientToServerHandshake" /\ Secured /\ Quiet("client")
  <2>1. inbox["server"] # <<>> /\ pk("server").id = id /\ Takes
    BY <1>1, <1>3, Handled
  <2> QED BY <1>2, <2>1, EarlyServer DEF Secured
<1>4. ASSUME NEW ids, NEW pks \in Seq(Message), Takes, FailsExpecting("server", ids, pks),
             pks = <<>> \/ closed["server"]
      PROVE  StageInv'
  BY <1>1, <1>4, EarlyFails DEF StageInv
<1>5. <<>> \in Seq(Message)
  BY OfNone
<1>6. ASSUME UNCHANGED countVars, start' = start, listen'["server"] \in {listen["server"], "done"}
      PROVE  NotAccepted' /\ NoPacks'
  BY <1>6 DEF Early, NotAccepted, NoPacks, countVars
<1>7. ASSUME NEW s, NEW f, NEW m, Quiet(s)' PROVE Only(s, f, m)'
  BY <1>7 DEF Quiet, Only
<1>8. ASSUME NEW id, Handle("server", id), ~closed["server"], NEW f, NEW m \in Message,
             SendAs("server", f, <<m>>, <<>>)
      PROVE  Quiet("server")' /\ Only("client", f, m)'
  <2>1. <<m>> \in Seq(Message) /\ <<m>> # <<>> /\ Quiet("client")
    BY <1>8, <1>3
  <2>2. /\ Quiet("server")' /\ buffered'["server"] = <<>> /\ inbox'["client"] = <<>>
        /\ net'["client"] = <<[format |-> f, packets |-> <<m>>]>>
    BY <1>8, <2>1, EarlyAnswer
  <2> QED BY <1>1, <2>2 DEF Only
<1>9. FailsExpecting("server", expected["server"], <<Status("LoginFailed")>>)
      \/ FailsExpecting("server", expected["server"], <<Pk("Disconnect")>>) =>
        /\ UNCHANGED <<enc, dec, dial, start>> /\ UNCHANGED countVars
        /\ listen'["server"] = "done" /\ listen'["client"] = listen["client"]
  BY <1>1 DEF FailsExpecting, Ends, formatVars, packVars, countVars, CallTypeOK
<1>10. CASE handleRequestNetworkSettings
  <2>1. Handle("server", "RequestNetworkSettings") /\ Requested /\ Takes
    BY <1>10, <1>3 DEF handleRequestNetworkSettings
  <2>2. CASE SendNetworkSettings
    <3>1. /\ enc' = [enc EXCEPT !["server"] = "compressed"]
          /\ dec' = [dec EXCEPT !["server"] = "compressed"]
          /\ UNCHANGED <<listen, dial, start>> /\ UNCHANGED countVars /\ ~closed["server"]
          /\ Send("server", <<Pk("NetworkSettings")>>)
      BY <2>2 DEF SendNetworkSettings, packVars, countVars, callVars
    <3>2. Uses("raw", "compressed")' /\ enc["server"] = "raw"
      BY <1>1, <2>1, <3>1 DEF Requested, Uses, FormatTypeOK
    <3>3. Pk("NetworkSettings") \in Message
      BY Messages DEF Ids, ClientHandled
    <3>4. Quiet("server")' /\ Only("client", "raw", Pk("NetworkSettings"))'
      BY <1>8, <2>1, <3>1, <3>2, <3>3 DEF Send
    <3>5. SettingsSent'
      BY <2>1, <3>1, <3>2, <3>4 DEF Requested, SettingsSent
    <3> QED BY <1>6, <3>1, <3>5 DEF StageInv, Early
  <2>3. CASE WriteFails("server", {"Login"})
    BY <1>4, <1>5, <2>1, <2>3 DEF WriteFails
  <2>4. CASE HandlerFails("server", <<Status("LoginFailed")>>)
    <3>1. FailsExpecting("server", expected["server"], <<Status("LoginFailed")>>)
          /\ Send("server", <<Status("LoginFailed")>>)
      BY <2>4 DEF HandlerFails, FailsExpecting
    <3>2. Status("LoginFailed") \in Message /\ <<Status("LoginFailed")>> \in Seq(Message)
      BY PlainPackets, OfOne
    <3>3. CASE closed["server"]
      BY <1>4, <2>1, <3>1, <3>2, <3>3
    <3>4. CASE ~closed["server"]
      <4>1. enc["server"] = "raw" /\ Uses("raw", "raw")'
        BY <1>9, <2>1, <3>1 DEF Requested, Uses
      <4>2. Quiet("server")' /\ Only("client", "raw", Status("LoginFailed"))'
        BY <1>8, <2>1, <3>1, <3>2, <3>4, <4>1 DEF Send
      <4>3. Requested'
        BY <1>9, <1>7, <2>1, <3>1, <4>1, <4>2 DEF Requested
      <4> QED BY <1>9, <1>6, <3>1, <4>3 DEF StageInv, Early
    <3> QED BY <3>3, <3>4
  <2> QED BY <1>10, <2>2, <2>3, <2>4 DEF handleRequestNetworkSettings
<1>11. CASE handleLogin
  <2>1. Handle("server", "Login") /\ LoginSent /\ Takes /\ Quiet("client")
    BY <1>11, <1>3 DEF handleLogin
  <2>2. /\ enc["server"] = "compressed" /\ Uses("compressed", "compressed")
        /\ dial \in {"connecting", "connected", "failed"} /\ "compressed" \in Formats
    BY <2>1 DEF LoginSent, Uses, Formats
  <2>3. ASSUME ~closed["server"], Send("server", <<Pk("Disconnect")>>),
               UNCHANGED <<enc, dec, dial, start>>,
               UNCHANGED countVars, listen'["server"] \in {listen["server"], "done"}
        PROVE  StageInv'
    <3>1. Pk("Disconnect") \in Message
      BY PlainPackets
    <3>2. Quiet("server")' /\ Only("client", "compressed", Pk("Disconnect"))'
      BY <1>8, <2>1, <2>3, <2>2, <3>1 DEF Send
    <3>3. LoginSent'
      BY <1>7, <2>3, <2>2, <3>2 DEF LoginSent, Uses
    <3> QED BY <1>6, <2>3, <3>3 DEF StageInv, Early
  <2>4. CASE EnableEncryption
    <3>1. CASE WriteFails("server", {"ClientToServerHandshake"})
      BY <1>4, <1>5, <2>1, <3>1 DEF WriteFails
    <3>2. CASE ~WriteFails("server", {"ClientToServerHandshake"})
      <4>1. /\ enc' = [enc EXCEPT !["server"] = "encrypted"]
            /\ dec' = [dec EXCEPT !["server"] = "encrypted"]
            /\ UNCHANGED <<listen, dial, start>> /\ UNCHANGED countVars /\ ~closed["server"]
            /\ Send("server", <<Pk("ServerToClientHandshake")>>)
        BY <2>4, <3>2 DEF EnableEncryption, packVars, countVars, callVars
      <4>2. Uses("compressed", "encrypted")'
        BY <1>1, <2>2, <4>1 DEF Uses, FormatTypeOK
      <4>3. Pk("ServerToClientHandshake") \in Message
        BY Messages DEF Ids, ClientHandled
      <4>4. Quiet("server")' /\ Only("client", "compressed", Pk("ServerToClientHandshake"))'
        BY <1>8, <2>1, <2>2, <4>1, <4>3 DEF Send
      <4>5. HandshakeSent'
        BY <2>2, <4>1, <4>2, <4>4 DEF HandshakeSent
      <4> QED BY <1>6, <4>1, <4>5 DEF StageInv, Early
    <3> QED BY <3>1, <3>2
  <2>5. CASE OfferPacks
    BY <2>1, <2>5, <2>2, EarlyOffer
  <2>6. CASE HandlerFails("server", <<>>)
    BY <1>4, <1>5, <2>1, <2>6 DEF HandlerFails
  <2>7. CASE HandlerFails("server", <<Pk("Disconnect")>>)
    <3>1. FailsExpecting("server", expected["server"], <<Pk("Disconnect")>>)
          /\ Send("server", <<Pk("Disconnect")>>)
      BY <2>7 DEF HandlerFails, FailsExpecting
    <3>2. <<Pk("Disconnect")>> \in Seq(Message)
      BY PlainPackets, OfOne
    <3>3. CASE closed["server"]
      BY <1>4, <2>1, <3>1, <3>2, <3>3
    <3>4. CASE ~closed["server"]
      BY <1>9, <2>3, <3>1, <3>4
    <3> QED BY <3>3, <3>4
  <2>8. CASE Kick
    <3>1. /\ Send("server", <<Pk("Disconnect")>>) /\ UNCHANGED <<enc, dec, dial, start, listen>>
          /\ UNCHANGED countVars
      BY <2>8 DEF Kick, formatVars, packVars, countVars, callVars
    <3>2. <<Pk("Disconnect")>> \in Seq(Message)
      BY PlainPackets, OfOne
    <3>3. CASE closed["server"]
      <4>1. Early'
        BY <1>1, <2>1, <3>1, <3>2, <3>3, EarlyKeeps
      <4> QED BY <4>1 DEF StageInv
    <3>4. CASE ~closed["server"]
      BY <2>3, <3>1, <3>4
    <3> QED BY <3>3, <3>4
  <2> QED BY <1>11, <2>4, <2>5, <2>6, <2>7, <2>8 DEF handleLogin
<1>12. CASE handleClientToServerHandshake
  <2>1. Handle("server", "ClientToServerHandshake") /\ Secured /\ Quiet("client") /\ OfferPacks
    BY <1>12, <1>3 DEF handleClientToServerHandshake
  <2>2. Uses("encrypted", "encrypted") /\ dial \in {"connecting", "connected", "failed"}
        /\ "encrypted" \in Formats
    BY <2>1 DEF Secured, Formats
  <2> QED BY <2>1, <2>2, EarlyOffer
<1>13. ASSUME NEW id \in {"ClientCacheStatus", "ResourcePackClientResponse", "ResourcePackChunkRequest",
                         "RequestChunkRadius", "SetLocalPlayerAsInitialised"}, Handle("server", id)
      PROVE  FALSE
  BY <1>13, <1>3
<1> QED BY <1>10, <1>11, <1>12, <1>13 DEF ServerHandler, handleClientCacheStatus, handleSendPacks,
        handleAllPacksDownloaded, handleCompleted, handleResourcePackChunkRequest,
        handleRequestChunkRadius, handleSetLocalPlayerAsInitialised

LEMMA EarlyClientStep ==
  ASSUME LoginTypeOK, Early, ClientHandler
  PROVE  Early'
<1> USE DEF LoginTypeOK
<1>1. "client" \in Sides /\ "server" \in Sides /\ Other("client") = "server"
      /\ Other("server") = "client"
  BY DEF Sides, Other
<1>2. /\ Status("LoginFailed").id = "PlayStatus" /\ Status("LoginFailed").arg = "LoginFailed"
      /\ Pk("NetworkSettings").id = "NetworkSettings" /\ Pk("Disconnect").id = "Disconnect"
      /\ Pk("ServerToClientHandshake").id = "ServerToClientHandshake"
  BY Messages DEF Ids, Args, ClientHandled
<1>3. ASSUME NEW id, Handle("client", id)
      PROVE  /\ Takes /\ inbox["client"] = <<pk("client")>> /\ net["client"] = <<>>
             /\ inbox' = [inbox EXCEPT !["client"] = Tail(inbox["client"])]
             /\ \/ id = "PlayStatus" /\ pk("client").arg = "LoginFailed"
                \/ id = "NetworkSettings" /\ SettingsSent
                \/ id = "ServerToClientHandshake" /\ HandshakeSent
                \/ id = "Disconnect"
  <2>1. inbox["client"] # <<>> /\ pk("client").id = id /\ Takes
        /\ inbox' = [inbox EXCEPT !["client"] = Tail(inbox["client"])]
    BY <1>1, <1>3, Handled DEF Handle
  <2> QED BY <1>2, <2>1, EarlyClient
<1>4. ASSUME NEW id, Handle("client", id)
      PROVE  inbox'["client"] = <<>> /\ inbox'["server"] = inbox["server"]
  <2>1. inbox' = [inbox EXCEPT !["client"] = Tail(<<pk("client")>>)]
    BY <1>3, <1>4
  <2>2. Tail(<<pk("client")>>) = <<>>
    OBVIOUS
  <2> QED BY <1>1, <2>1, <2>2 DEF StreamTypeOK
<1>5. ASSUME UNCHANGED countVars, start' = start, listen'["server"] = listen["server"]
      PROVE  NotAccepted' /\ NoPacks'
  BY <1>5 DEF Early, NotAccepted, NoPacks, countVars
<1>6. CASE handleNetworkSettings
  <2>1. Handle("client", "NetworkSettings") /\ SettingsSent /\ net["client"] = <<>>
    BY <1>6, <1>3 DEF handleNetworkSettings
  <2>2. /\ enc' = [enc EXCEPT !["client"] = "compressed"]
        /\ dec' = [dec EXCEPT !["client"] = "compressed"]
        /\ listen' = [listen EXCEPT !["client"] = "ready"] /\ UNCHANGED <<dial, start>>
        /\ UNCHANGED countVars
        /\ SendAs("client", "compressed", <<>>, <<>>)
    BY <1>6 DEF handleNetworkSettings, packVars, countVars, callVars
  <2>3. Uses("compressed", "compressed")'
    BY <1>1, <2>1, <2>2 DEF SettingsSent, Uses, FormatTypeOK
  <2>4. listen'["server"] = listen["server"]
    BY <1>1, <2>2 DEF CallTypeOK
  <2>5. buffered["client"] = <<>> /\ buffered["server"] = <<>>
    BY <1>1, EarlyBuffers
  <2>6. \A t \in Sides : net'[t] = net[t] /\ buffered'[t] = buffered[t]
    BY <1>1, <2>2, <2>5, SendNone
  <2>7. inbox'["client"] = <<>> /\ inbox'["server"] = inbox["server"]
    BY <1>4, <2>1
  <2>8. Quiet("client")' /\ Quiet("server")'
    BY <1>1, <2>1, <2>5, <2>6, <2>7 DEF SettingsSent, Quiet
  <2>9. Ready'
    BY <2>1, <2>2, <2>3, <2>8 DEF SettingsSent, Ready
  <2> QED BY <1>5, <2>2, <2>4, <2>9 DEF Early
<1>7. CASE handleServerToClientHandshake
  <2>1. Handle("client", "ServerToClientHandshake") /\ HandshakeSent /\ net["client"] = <<>>
    BY <1>7, <1>3 DEF handleServerToClientHandshake
  <2> DEFINE m == Pk("ClientToServerHandshake")
  <2>2. /\ enc' = [enc EXCEPT !["client"] = "encrypted"] /\ dec' = [dec EXCEPT !["client"] = "encrypted"]
        /\ UNCHANGED <<dial, start, listen>> /\ UNCHANGED countVars
        /\ SendAs("client", "encrypted", <<m>>, <<>>)
    BY <1>7 DEF handleServerToClientHandshake, packVars, countVars, callVars
  <2>3. Uses("encrypted", "encrypted")'
    BY <1>1, <2>1, <2>2 DEF HandshakeSent, Uses, FormatTypeOK
  <2>4. m \in Message
    BY Messages DEF Ids, ServerHandled
  <2> HIDE DEF m
  <2>5. /\ buffered["client"] = <<>> /\ buffered["server"] = <<>> /\ net["server"] = <<>>
        /\ inbox["server"] = <<>>
    BY <1>1, <2>1, EarlyBuffers DEF HandshakeSent, Quiet
  <2>6. /\ buffered'["client"] = <<>> /\ buffered'["server"] = <<>> /\ net'["client"] = <<>>
        /\ net'["server"] = <<>> \/ net'["server"] = <<[format |-> "encrypted", packets |-> <<m>>]>>
    <3>1. CASE closed["client"]
      BY <2>1, <2>2, <2>5, <3>1, SendClosed
    <3>2. CASE ~closed["client"]
      <4>1. <<m>> \in Seq(Message) /\ <<m>> # <<>>
        BY <2>4
      <4> QED BY <1>1, <2>1, <2>2, <2>5, <3>2, <4>1, SendFresh
    <3> QED BY <3>1, <3>2
  <2>7. inbox'["client"] = <<>> /\ inbox'["server"] = <<>>
    BY <1>4, <2>1, <2>5
  <2>8. Quiet("client")' /\ Only("server", "encrypted", m)'
    BY <1>1, <2>6, <2>7 DEF Quiet, Only
  <2>9. Secured'
    BY <2>1, <2>2, <2>3, <2>8 DEF HandshakeSent, Secured, m
  <2> QED BY <1>5, <2>2, <2>9 DEF Early
<1>8. CASE handleLoginFailed
  <2>1. Takes /\ FailsExpecting("client", expected["client"], <<>>) /\ <<>> \in Seq(Message)
    BY <1>8, <1>3, OfNone DEF handleLoginFailed, HandlerFails
  <2> QED BY <1>1, <2>1, EarlyFails
<1>9. CASE handleLoginSuccess \/ handlePlayerSpawn
  <2>1. Handle("client", "PlayStatus") /\ pk("client").arg \in {"LoginSuccess", "PlayerSpawn"}
    BY <1>9 DEF handleLoginSuccess, handlePlayerSpawn
  <2>2. pk("client").arg = "LoginFailed"
    BY <1>3, <2>1
  <2> QED BY <2>1, <2>2
<1>10. ASSUME NEW id \in {"ResourcePacksInfo", "ResourcePackDataInfo", "ResourcePackChunkData",
                         "ResourcePackStack", "DimensionData", "StartGame", "ItemRegistry",
                         "ChunkRadiusUpdated"}, Handle("client", id)
      PROVE  FALSE
  BY <1>10, <1>3
<1>11. CASE handleResourcePacksInfo
  BY <1>10, <1>11 DEF handleResourcePacksInfo
<1>12. CASE handleResourcePackDataInfo \/ handleResourcePackChunkData \/ handleResourcePackStack
  BY <1>10, <1>12 DEF handleResourcePackDataInfo, handleResourcePackChunkData, handleResourcePackStack
<1>13. CASE handleDimensionData \/ handleStartGame \/ handleItemRegistry \/ handleChunkRadiusUpdated
  BY <1>10, <1>13 DEF handleDimensionData, handleStartGame, handleItemRegistry, Note,
     handleChunkRadiusUpdated
<1> QED BY <1>6, <1>7, <1>8, <1>9, <1>11, <1>12, <1>13 DEF ClientHandler

(* Nothing is downloaded and no game is started before the offer. *)
LEMMA NothingStarted ==
  ASSUME NotAccepted, NoPacks
  PROVE  ~Application /\ \A p \in Packs : ~Download(p)
<1>1. ASSUME NEW p \in Packs PROVE ~Download(p)
  <2>1. dl[p] = "none"
    BY DEF NoPacks
  <2> QED BY <2>1 DEF Download, requestChunk, receiveFrag, downloadStops, parsePack, lastPack,
             announcePacks
<1>2. ~startGameWrite
  <2>1. \A i \in DOMAIN StartPackets : WritePCs[i] # "accept"
    BY WriteSteps
  <2> QED BY <2>1 DEF startGameWrite, NotAccepted
<1>3. ~Accept /\ ~StartGame /\ ~startGame /\ ~startGameFlush /\ ~startGameSpawned /\ ~startGameFails
  BY DEF NotAccepted, Accept, StartGame, startGame, startGameFlush, startGameSpawned, startGameFails
<1> QED BY <1>1, <1>2, <1>3 DEF Application

LEMMA EarlyStep ==
  ASSUME LoginTypeOK, Early, Next
  PROVE  StageInv'
<1>1. ~Application /\ \A p \in Packs : ~Download(p)
  BY NothingStarted DEF Early
<1>2. CASE Early'
  BY <1>2 DEF StageInv
<1>3. "client" \in Sides
  BY DEF Sides
<1> QED BY <1>1, <1>2, <1>3, EarlyReceiver, EarlyDial, EarlyServerStep, EarlyClientStep DEF Next

(* After the offer the formats stay what they are. *)
LEMMA SettledStep ==
  ASSUME NEW f \in Formats, Settled(f), HasTraffic
  PROVE  Settled(f)' /\ (NoOffer => NoOffer')
<1>1. PICK s \in Sides, g \in Formats, new \in SUBSET Message : Traffic(s, g, new)
  BY DEF HasTraffic
<1>2. ~Opens
  BY DEF Settled, Opens
<1>3. /\ g = enc[s] /\ UNCHANGED <<enc, dec>> /\ dial' \in {dial, "connected", "failed"}
      /\ \A m \in new : m.id \notin Opening
  BY <1>1, <1>2 DEF Traffic, Regular
<1>4. /\ OnTheWay(Other(s))' \subseteq OnTheWay(Other(s)) \cup new /\ OnTheWay(s)' \subseteq OnTheWay(s)
      /\ \A t \in Sides : FormatsOf(net[t])' \subseteq FormatsOf(net[t]) \cup {g}
  BY <1>1 DEF Traffic, Adds
<1>5. g = f /\ Uses(f, f)'
  BY <1>3 DEF Settled, Uses, Sides
<1>6. \A t \in Sides : (FormatsOf(net[t]) \subseteq {f})'
  BY <1>4, <1>5 DEF Settled
<1>7. \A t \in Sides : OnTheWay(t)' \subseteq OnTheWay(t) \cup new
  BY <1>4, OtherSide
<1>8. \A t \in Sides : (\A m \in OnTheWay(t) : m.id \notin Changes)'
  <2>1. \A m \in new : m.id \notin Changes
    BY <1>3 DEF Opening
  <2> QED BY <1>7, <2>1 DEF Settled
<1>9. Settled(f)'
  BY <1>3, <1>5, <1>6, <1>8 DEF Settled
<1>10. NoOffer => NoOffer'
  <2>1. \A m \in new : m.id # "ResourcePacksInfo"
    BY <1>3 DEF Opening
  <2>2. "client" \in Sides
    BY DEF Sides
  <2>3. OnTheWay("client")' \subseteq OnTheWay("client") \cup new
    BY <1>7, <2>2
  <2> QED BY <2>1, <2>3 DEF NoOffer
<1> QED BY <1>9, <1>10

(* While the offer is on its way nothing else is sent to the client. *)
LEMMA OfferedMoves ==
  ASSUME NEW f, Offered(f), UNCHANGED <<start, countVars>>,
         listen'["server"] \in {listen["server"], "done"},
         buffered'["server"] = <<>>, Drained("client"),
         OnTheWay("server")' \subseteq OnTheWay("server") \cup {Pk("ClientCacheStatus")}
  PROVE  Offered(f)' \/ NoOffer'
<1>1. NotAccepted' /\ NoPacks' /\ \A m \in OnTheWay("server")' : m = Pk("ClientCacheStatus")
  BY DEF Offered, NotAccepted, NoPacks, countVars
<1> DEFINE a == Status("LoginSuccess")
           i == Pk("ResourcePacksInfo")
           b == [format |-> f, packets |-> Offer]
<1>2. Offer = <<a, i>> /\ b.packets = Offer
  BY DEF Offer
<1> HIDE DEF a, i, b
<1>3. Tail(Offer) = <<i>> /\ Tail(<<i>>) = <<>> /\ Offer # <<>> /\ <<i>> # <<>>
  BY <1>2
<1>4. Head(<<b>>) = b /\ Tail(<<b>>) = <<>> /\ <<b>> # <<>>
  OBVIOUS
<1>5. \/ net["client"] = <<>> /\ inbox["client"] = Offer
      \/ net["client"] = <<>> /\ inbox["client"] = <<i>>
      \/ net["client"] = <<b>> /\ inbox["client"] = <<>>
  BY <1>3 DEF Offered, b
<1>6. \/ net'["client"] = <<>> /\ inbox'["client"] = Offer
      \/ net'["client"] = <<>> /\ inbox'["client"] = Tail(Offer)
      \/ net'["client"] = <<b>> /\ inbox'["client"] = <<>>
      \/ net'["client"] = <<>> /\ inbox'["client"] = <<>>
  BY <1>2, <1>3, <1>4, <1>5 DEF Drained
<1>7. CASE net'["client"] = <<>> /\ inbox'["client"] = <<>>
  <2>1. InNet(<<>>) = {} /\ Of(<<>>) = {}
    BY DEF InNet, Of
  <2>2. Other("client") = "server"
    BY DEF Other
  <2>3. OnTheWay("client")' = {}
    BY <1>7, <2>1, <2>2 DEF OnTheWay
  <2> QED BY <2>3 DEF NoOffer
<1>8. CASE ~(net'["client"] = <<>> /\ inbox'["client"] = <<>>)
  BY <1>1, <1>6, <1>8 DEF Offered, b
<1> QED BY <1>7, <1>8

LEMMA SendKeeps ==
  ASSUME StreamTypeOK, NEW s \in Sides, NEW f, NEW pks, NEW more, SendAs(s, f, pks, more)
  PROVE  net'[s] = net[s] /\ buffered'[Other(s)] = buffered[Other(s)]
<1>1. Other(s) \in Sides /\ Other(s) # s
  BY OtherSide
<1>2. CASE closed[s]
  BY <1>2, SendClosed
<1>3. CASE ~closed[s]
  <2> DEFINE o == Other(s)
             q == net[o] \o Batch(f, buffered[s] \o pks) \o Batch(f, more)
  <2>1. net' = [net EXCEPT ![o] = q] /\ buffered' = [buffered EXCEPT ![s] = <<>>]
    BY <1>3 DEF SendAs
  <2> HIDE DEF o, q
  <2>2. o \in Sides /\ o # s
    BY <1>1 DEF o
  <2>3. net'[s] = net[s] /\ buffered'[o] = buffered[o]
    BY <2>1, <2>2 DEF StreamTypeOK
  <2> QED BY <2>3 DEF o
<1> QED BY <1>2, <1>3

LEMMA OfferedKeeps ==
  ASSUME LoginTypeOK, NEW f, Offered(f), Takes, UNCHANGED <<start, countVars>>,
         listen'["server"] \in {listen["server"], "done"},
         \/ UNCHANGED sendVars
         \/ Send("server", <<>>)
         \/ Send("client", <<>>)
         \/ Send("client", <<Pk("ClientCacheStatus")>>)
  PROVE  Offered(f)' \/ NoOffer'
<1> USE DEF LoginTypeOK
<1> DEFINE m == Pk("ClientCacheStatus")
<1>1. /\ "client" \in Sides /\ "server" \in Sides /\ Other("client") = "server"
      /\ Other("server") = "client"
      /\ enc["client"] \in Formats /\ enc["server"] \in Formats /\ buffered["server"] = <<>>
  BY DEF Sides, Other, FormatTypeOK, Offered
<1>2. m \in Message
  BY Messages DEF Ids, ServerHandled
<1> HIDE DEF m
<1>3. /\ <<m>> \in Seq(Message) /\ Of(<<m>>) = {m} /\ <<>> \in Seq(Message) /\ Of(<<>>) = {}
  BY <1>2, OfOne, OfNone
<1>4. ASSUME net'["client"] = net["client"] PROVE Drained("client")
  BY <1>1, <1>4 DEF StreamTypeOK, Takes, Drained
<1>5. CASE UNCHANGED sendVars
  <2>1. OnTheWay("server")' \subseteq OnTheWay("server")
    <3>1. Adds("server", enc["server"], {})
      BY <1>1, <1>5, AddsNothing
    <3> QED BY <1>1, <3>1 DEF Adds
  <2>2. buffered'["server"] = <<>> /\ Drained("client")
    BY <1>1, <1>5, <1>4 DEF sendVars
  <2> QED BY <2>1, <2>2, OfferedMoves
<1>6. CASE Send("server", <<>>)
  <2>1. SendAs("server", enc["server"], <<>>, <<>>)
    BY <1>6 DEF Send
  <2>2. OnTheWay("server")' \subseteq OnTheWay("server")
    <3>1. Adds("server", enc["server"], Of(<<>>) \cup Of(<<>>))
      BY <1>1, <1>3, <2>1, AddsSend
    <3> QED BY <1>1, <3>1 DEF Adds
  <2>3. buffered'["server"] = <<>> /\ net'["client"] = net["client"]
    BY <1>1, <2>1, SendNone
  <2> QED BY <1>4, <2>2, <2>3, OfferedMoves
<1>7. ASSUME NEW pks \in {<<>>, <<m>>}, Send("client", pks)
      PROVE  Offered(f)' \/ NoOffer'
  <2>1. SendAs("client", enc["client"], pks, <<>>) /\ pks \in Seq(Message) /\ Of(pks) \subseteq {m}
    BY <1>3, <1>7 DEF Send
  <2>2. OnTheWay("server")' \subseteq OnTheWay("server") \cup {m}
    <3>1. Adds("client", enc["client"], Of(pks) \cup Of(<<>>))
      BY <1>1, <1>3, <2>1, AddsSend
    <3>2. OnTheWay("server")' \subseteq OnTheWay("server") \cup (Of(pks) \cup Of(<<>>))
      BY <1>1, <3>1 DEF Adds
    <3> QED BY <1>3, <2>1, <3>2
  <2>3. buffered'["server"] = <<>> /\ net'["client"] = net["client"]
    BY <1>1, <2>1, SendKeeps
  <2> QED BY <1>4, <2>2, <2>3, OfferedMoves DEF m
<1>8. CASE Send("client", <<>>) \/ Send("client", <<Pk("ClientCacheStatus")>>)
  BY <1>7, <1>8 DEF m
<1> QED BY <1>5, <1>6, <1>8

LEMMA OfferedReceiver ==
  ASSUME LoginTypeOK, NEW f, Offered(f), NEW s \in Sides,
         \/ DecodeFunc(s) \/ deferPacket(s) \/ receiveDisconnect(s) \/ ReadFails(s)
         \/ Tick(s) \/ Drop(s) \/ DialContextDone
  PROVE  Offered(f)' \/ NoOffer'
<1> USE DEF formatVars, packVars, countVars, callVars
<1>1. s = "client" \/ s = "server"
  BY DEF Sides
<1>2. CASE DecodeFunc(s)
  <2>1. buffered' = buffered /\ Drained("client")
    BY <1>2, DrainsDecode DEF LoginTypeOK, Sides
  <2>2. OnTheWay("server")' \subseteq OnTheWay("server")
    <3>1. Adds(s, "raw", {})
      BY <1>2, AddsDecode DEF LoginTypeOK
    <3> QED BY <1>1, <3>1 DEF Adds, Other
  <2>3. UNCHANGED <<start, countVars>> /\ listen' = listen /\ buffered'["server"] = <<>>
    BY <1>2, <2>1 DEF DecodeFunc, Offered
  <2> QED BY <2>1, <2>2, <2>3, OfferedMoves
<1>3. CASE deferPacket(s)
  <2>1. Takes /\ UNCHANGED <<start, countVars>> /\ UNCHANGED <<listen, sendVars>>
    BY <1>3 DEF deferPacket, Takes, Received
  <2> QED BY <2>1, OfferedKeeps
<1>4. CASE receiveDisconnect(s)
  <2>1. Takes /\ UNCHANGED <<start, countVars>> /\ UNCHANGED listen /\ Send(s, <<>>)
    BY <1>4 DEF receiveDisconnect, Takes, Received
  <2> QED BY <1>1, <2>1, OfferedKeeps
<1>5. CASE ReadFails(s)
  <2>1. Takes /\ UNCHANGED <<start, countVars>> /\ Send(s, <<>>)
    BY <1>5 DEF ReadFails, Takes
  <2>2. listen'["server"] \in {listen["server"], "done"}
    BY <1>1, <1>5 DEF LoginTypeOK, CallTypeOK, ReadFails, Ends, Sides
  <2> QED BY <1>1, <2>1, <2>2, OfferedKeeps
<1>6. CASE Tick(s)
  <2>1. Takes /\ UNCHANGED <<start, countVars>> /\ UNCHANGED listen /\ Send(s, <<>>)
    BY <1>6 DEF Tick, Takes
  <2> QED BY <1>1, <2>1, OfferedKeeps
<1>7. CASE Drop(s) \/ DialContextDone
  <2>1. Takes /\ UNCHANGED <<start, countVars>> /\ UNCHANGED <<listen, sendVars>>
    BY <1>7 DEF Drop, DialContextDone, Takes
  <2> QED BY <2>1, OfferedKeeps
<1> QED BY <1>2, <1>3, <1>4, <1>5, <1>6, <1>7

LEMMA OfferedServer ==
  ASSUME LoginTypeOK, NEW f, Offered(f), ServerHandler
  PROVE  Offered(f)' \/ NoOffer'
<1>1. "server" \in Sides /\ Pk("ClientCacheStatus").id = "ClientCacheStatus"
  BY Messages DEF Sides, Ids, ServerHandled
<1>2. ASSUME NEW id, Handle("server", id) PROVE Takes /\ id = "ClientCacheStatus"
  <2>1. Takes /\ pk("server") \in OnTheWay("server") /\ pk("server").id = id
    BY <1>1, <1>2, Handled DEF LoginTypeOK
  <2>2. pk("server") = Pk("ClientCacheStatus")
    BY <2>1 DEF Offered
  <2> QED BY <1>1, <2>1, <2>2
<1>3. CASE handleClientCacheStatus
  <2>1. Takes
    BY <1>2, <1>3 DEF handleClientCacheStatus
  <2>2. UNCHANGED <<start, countVars>> /\ UNCHANGED listen /\ Send("server", <<>>)
    BY <1>3 DEF handleClientCacheStatus, packVars, countVars, callVars
  <2> QED BY <2>1, <2>2, OfferedKeeps
<1>4. ASSUME NEW id \in ServerHandled \ {"ClientCacheStatus"}, Handle("server", id) PROVE FALSE
  BY <1>2, <1>4
<1>5. CASE handleRequestNetworkSettings \/ handleLogin \/ handleClientToServerHandshake
  BY <1>4, <1>5 DEF handleRequestNetworkSettings, handleLogin, handleClientToServerHandshake,
     ServerHandled
<1>6. CASE \/ handleSendPacks \/ handleAllPacksDownloaded \/ handleCompleted
           \/ handleResourcePackChunkRequest
  BY <1>4, <1>6 DEF handleSendPacks, handleAllPacksDownloaded, handleCompleted,
     handleResourcePackChunkRequest, ServerHandled
<1>7. CASE handleRequestChunkRadius \/ handleSetLocalPlayerAsInitialised
  BY <1>4, <1>7 DEF handleRequestChunkRadius, handleSetLocalPlayerAsInitialised, ServerHandled
<1> QED BY <1>3, <1>5, <1>6, <1>7 DEF ServerHandler

LEMMA OfferedClient ==
  ASSUME LoginTypeOK, NEW f, Offered(f), ClientHandler
  PROVE  Offered(f)' \/ NoOffer'
<1>1. /\ "client" \in Sides /\ Other("client") = "server"
      /\ Status("LoginSuccess").id = "PlayStatus" /\ Status("LoginSuccess").arg = "LoginSuccess"
      /\ Pk("ResourcePacksInfo").id = "ResourcePacksInfo"
  BY Messages DEF Sides, Other, Ids, Args, ClientHandled
<1>2. Head(Offer) = Status("LoginSuccess") /\ Head(Tail(Offer)) = Pk("ResourcePacksInfo")
      /\ Tail(Tail(Offer)) = <<>>
  BY DEF Offer
<1>3. ASSUME NEW id, Handle("client", id)
      PROVE  /\ Takes /\ net["client"] = <<>>
             /\ \/ id = "PlayStatus" /\ pk("client").arg = "LoginSuccess"
                \/ id = "ResourcePacksInfo" /\ inbox["client"] = Tail(Offer)
  <2>1. Takes /\ inbox["client"] # <<>> /\ pk("client").id = id
    BY <1>1, <1>3, Handled DEF LoginTypeOK
  <2>2. net["client"] = <<>> /\ inbox["client"] \in {Offer, Tail(Offer)}
    BY <2>1 DEF Offered
  <2> QED BY <1>1, <1>2, <2>1, <2>2 DEF pk
<1>4. CASE handleLoginSuccess
  <2>1. Takes
    BY <1>3, <1>4 DEF handleLoginSuccess
  <2>2. CASE Send("client", <<Pk("ClientCacheStatus")>>) /\ UNCHANGED <<start, listen, countVars>>
    BY <2>1, <2>2, OfferedKeeps
  <2>3. CASE WriteFails("client", expected["client"])
    <3>1. UNCHANGED <<start, countVars>> /\ Send("client", <<>>)
      BY <2>3 DEF WriteFails, FailsExpecting, packVars, countVars
    <3>2. listen'["server"] \in {listen["server"], "done"}
      BY <1>1, <2>3 DEF WriteFails, FailsExpecting, Ends, LoginTypeOK, CallTypeOK, Sides
    <3> QED BY <2>1, <3>1, <3>2, OfferedKeeps
  <2> QED BY <1>4, <2>2, <2>3 DEF handleLoginSuccess, packVars, countVars, callVars
<1>5. CASE handleResourcePacksInfo
  <2>1. /\ Handle("client", "ResourcePacksInfo")
        /\ \E pks : SendAs("client", enc["client"], pks, <<>>)
    BY <1>5 DEF handleResourcePacksInfo, Send
  <2>2. net["client"] = <<>> /\ inbox["client"] = Tail(Offer)
        /\ inbox' = [inbox EXCEPT !["client"] = Tail(inbox["client"])]
    BY <1>3, <2>1 DEF Handle
  <2>3. inbox'["client"] = <<>>
    BY <1>1, <1>2, <2>2 DEF LoginTypeOK, StreamTypeOK
  <2>4. net'["client"] = <<>> /\ buffered'["server"] = <<>>
    BY <1>1, <2>1, <2>2, SendKeeps DEF LoginTypeOK, Offered
  <2>5. InNet(<<>>) = {} /\ Of(<<>>) = {}
    BY DEF InNet, Of
  <2>6. OnTheWay("client")' = {}
    BY <1>1, <2>3, <2>4, <2>5 DEF OnTheWay
  <2> QED BY <2>6 DEF NoOffer
<1>6. CASE handleLoginFailed \/ handlePlayerSpawn
  <2>1. Handle("client", "PlayStatus") /\ pk("client").arg \in {"LoginFailed", "PlayerSpawn"}
    BY <1>6 DEF handleLoginFailed, handlePlayerSpawn
  <2>2. pk("client").arg = "LoginSuccess"
    BY <1>3, <2>1
  <2> QED BY <2>1, <2>2
<1>7. ASSUME NEW id \in ClientHandled \ {"PlayStatus", "ResourcePacksInfo"}, Handle("client", id)
      PROVE  FALSE
  BY <1>3, <1>7
<1>8. CASE handleNetworkSettings \/ handleServerToClientHandshake
  BY <1>7, <1>8 DEF handleNetworkSettings, handleServerToClientHandshake, ClientHandled
<1>9. CASE handleResourcePackDataInfo \/ handleResourcePackChunkData \/ handleResourcePackStack
  BY <1>7, <1>9 DEF handleResourcePackDataInfo, handleResourcePackChunkData, handleResourcePackStack,
     ClientHandled
<1>10. CASE handleDimensionData \/ handleStartGame \/ handleItemRegistry \/ handleChunkRadiusUpdated
  BY <1>7, <1>10 DEF handleDimensionData, handleStartGame, handleItemRegistry, Note,
     handleChunkRadiusUpdated, ClientHandled
<1> QED BY <1>4, <1>5, <1>6, <1>8, <1>9, <1>10 DEF ClientHandler

LEMMA OfferedDial ==
  ASSUME LoginTypeOK, NEW f, Settled(f), Offered(f), Dial
  PROVE  Offered(f)' \/ NoOffer'
<1>1. dial \notin {"expect", "request", "settings", "login", "send login"}
  BY DEF Settled
<1>2. dialConnected \/ dialFails
  BY <1>1 DEF Dial, dialExpectSettings, dialRequestSettings, dialReady, dialExpectLogin, dialLogin,
     dialStep
<1>3. UNCHANGED dialVars /\ UNCHANGED sendVars
  BY <1>2 DEF dialConnected, dialFails, dialStep
<1>4. Takes /\ UNCHANGED <<start, countVars>>
  BY <1>3 DEF dialVars, packVars, countVars, Takes
<1>5. listen'["server"] = listen["server"]
  BY <1>2 DEF dialConnected, dialFails, LoginTypeOK, CallTypeOK, Sides
<1> QED BY <1>3, <1>4, <1>5, OfferedKeeps

LEMMA LateStep ==
  ASSUME LoginTypeOK, Late, Next
  PROVE  Late'
<1>1. PICK f \in Formats : Settled(f) /\ (Offered(f) \/ NoOffer)
  BY DEF Late
<1>2. Settled(f)' /\ (NoOffer => NoOffer')
  BY <1>1, NextTraffic, SettledStep
<1>3. CASE Offered(f)
  <2>1. ~Application /\ \A p \in Packs : ~Download(p)
    BY <1>3, NothingStarted DEF Offered
  <2>2. "client" \in Sides
    BY DEF Sides
  <2>3. Offered(f)' \/ NoOffer'
    BY <1>1, <1>3, <2>1, <2>2, OfferedReceiver, OfferedServer, OfferedClient, OfferedDial DEF Next
  <2> QED BY <1>2, <2>3 DEF Late
<1>4. CASE NoOffer
  BY <1>2, <1>4 DEF Late
<1> QED BY <1>1, <1>3, <1>4

LEMMA NextStage ==
  ASSUME LoginTypeOK, StageInv, Next
  PROVE  StageInv'
BY EarlyStep, LateStep DEF StageInv

------------------------------------------------------------------------------
(* The inductive invariant and the theorems. *)

LEMMA LoginInit ==
  ASSUME Init
  PROVE  LoginInv
<1>1. Sides = {"client", "server"} /\ Other("client") = "server" /\ Other("server") = "client"
  BY DEF Sides, Other
<1>2. StreamTypeOK
  BY DEF Init, StreamTypeOK
<1>3. FormatTypeOK /\ SpawnTypeOK /\ PackTypeOK
  <2>1. FormatTypeOK
    BY DEF Init, FormatTypeOK, Formats
  <2>2. SpawnTypeOK
    BY DEF Init, SpawnTypeOK
  <2>3. PackTypeOK
    BY DEF Init, PackTypeOK, DownloadPCs
  <2> QED BY <2>1, <2>2, <2>3
<1>4. CallTypeOK
  <2>1. expected \in [Sides -> SUBSET Ids]
    BY ExpectedIds DEF Init
  <2> QED BY <2>1 DEF Init, CallTypeOK, Listening, DialPCs, StartPCs
<1>5. LoginTypeOK
  BY <1>2, <1>3, <1>4 DEF LoginTypeOK
<1>6. NoPacks /\ NotAccepted
  BY <1>1 DEF Init, NoPacks, NotAccepted
<1>7. Quiet("client") /\ Quiet("server") /\ Uses("raw", "raw")
  BY <1>1 DEF Init, Quiet, Uses
<1>8. StageInv
  BY <1>1, <1>6, <1>7 DEF Init, Dialling, Early, StageInv
<1>9. OnTheWay("client") = {} /\ OnTheWay("server") = {}
  <2>1. Of(<<>>) = {} /\ InNet(<<>>) = {}
    BY DEF Of, InNet
  <2> QED BY <1>1, <1>7, <2>1 DEF Quiet, OnTheWay
<1>10. ServerSpawnInv
  BY <1>1, <1>9 DEF Init, ServerSpawnInv
<1>11. ClientSpawnInv
  BY <1>1, <1>9 DEF Init, ClientSpawnInv
<1> QED BY <1>5, <1>6, <1>8, <1>10, <1>11 DEF LoginInv, PackInv, SpawnInv

LEMMA LoginStutters ==
  ASSUME LoginInv, UNCHANGED vars
  PROVE  LoginInv'
<1> USE DEF vars, sendVars, formatVars, spawnVars, packVars, queueVars, callVars
<1>1. LoginTypeOK'
  BY DEF LoginInv, LoginTypeOK, StreamTypeOK, FormatTypeOK, CallTypeOK, SpawnTypeOK, PackTypeOK
<1>2. NoPacks' = NoPacks /\ NotAccepted' = NotAccepted
  BY DEF NoPacks, NotAccepted
<1>3. \A c, s : Uses(c, s)' = Uses(c, s)
  BY DEF Uses
<1>4. \A s : Quiet(s)' = Quiet(s) /\ OnTheWay(s)' = OnTheWay(s)
  BY DEF Quiet, OnTheWay
<1>5. \A s, f, m : Only(s, f, m)' = Only(s, f, m)
  BY DEF Only
<1>6. Early' = Early
  BY <1>2, <1>3, <1>4, <1>5 DEF Early, Dialling, Requested, SettingsSent, Ready, LoginSent,
     HandshakeSent,
     Secured
<1>7. Late' = Late
  BY <1>2, <1>3, <1>4 DEF Late, Settled, Offered, NoOffer
<1>8. PackInv'
  BY PacksUnchanged DEF LoginInv, countVars
<1>9. SpawnInv'
  BY <1>4 DEF LoginInv, SpawnInv, ServerSpawnInv, ClientSpawnInv
<1> QED BY <1>1, <1>6, <1>7, <1>8, <1>9 DEF LoginInv, StageInv

LEMMA LoginStep ==
  ASSUME LoginInv, [Next]_vars
  PROVE  LoginInv'
<1>1. CASE Next
  BY <1>1, NextTypes, NextStage, NextPacks, NextSpawn DEF LoginInv
<1>2. CASE UNCHANGED vars
  BY <1>2, LoginStutters
<1> QED BY <1>1, <1>2

(* The invariant of the login: whatever is rejected, expires or drops, the *)
(* login is in one of the stages above, the packs are counted as they      *)
(* arrive, and the marks of the spawn are consistent.                      *)
THEOREM LoginInvariant == Spec => []LoginInv
<1>1. Init => LoginInv
  BY LoginInit
<1>2. LoginInv /\ [Next]_vars => LoginInv'
  BY LoginStep
<1> QED BY <1>1, <1>2, PTL DEF Spec

(* In no stage is a batch read in another format than it was written in:   *)
(* EnableCompression and EnableEncryption, which each side calls when its  *)
(* own goroutine gets there, never race with a batch on its way.           *)
THEOREM FormatsNeverMixed == Spec => []FormatsAgree
<1>1. LoginInv => FormatsAgree
  <2> SUFFICES ASSUME LoginInv, NEW s \in Sides, net[s] # <<>>
               PROVE  Head(net[s]).format = dec[s]
    BY DEF FormatsAgree
  <2>1. ~Quiet(s)
    BY DEF Quiet
  <2>2. ASSUME NEW f, NEW m, Only(s, f, m) PROVE Head(net[s]).format = f
    <3> DEFINE b == [format |-> f, packets |-> <<m>>]
    <3>1. b.format = f /\ net[s] = <<b>>
      BY <2>2 DEF Only
    <3> HIDE DEF b
    <3> QED BY <3>1
  <2>3. s = "client" \/ s = "server"
    BY DEF Sides
  <2>4. CASE Requested
    BY <2>2, <2>3, <2>4 DEF Requested, Uses
  <2>5. CASE SettingsSent
    BY <2>2, <2>1, <2>3, <2>5 DEF SettingsSent, Uses
  <2>6. CASE LoginSent
    BY <2>2, <2>3, <2>6 DEF LoginSent, Uses
  <2>7. CASE HandshakeSent
    BY <2>2, <2>1, <2>3, <2>7 DEF HandshakeSent, Uses
  <2>8. CASE Secured
    BY <2>2, <2>1, <2>3, <2>8 DEF Secured, Uses
  <2>9. CASE Late
    <3>1. PICK f \in Formats : Settled(f)
      BY <2>9 DEF Late
    <3>2. net[s] \in Seq(Batches)
      BY DEF LoginInv, LoginTypeOK, StreamTypeOK
    <3>3. Head(net[s]).format \in FormatsOf(net[s])
      BY <3>2, NetParts
    <3> QED BY <2>3, <3>1, <3>3 DEF Settled, Uses
  <2> QED BY <2>1, <2>3, <2>4, <2>5, <2>6, <2>7, <2>8, <2>9 DEF LoginInv, StageInv, Early, Dialling,
             Ready
<1> QED BY <1>1, LoginInvariant, PTL

(* The client announces AllPacksDownloaded at most once, and then every    *)
(* pack of the server was downloaded, cached or declined, in whichever     *)
(* order the goroutines that download them end and whichever fail.         *)
THEOREM PacksAnnouncedOnce == Spec => []AnnouncedOnce
<1>1. LoginInv => AnnouncedOnce
  <2> SUFFICES ASSUME LoginInv PROVE AnnouncedOnce
    OBVIOUS
  <2>1. CASE NoPacks
    BY <2>1 DEF NoPacks, AnnouncedOnce
  <2>2. CASE Counted
    <3>1. announced <= 1
      BY <2>2 DEF Counted
    <3>2. ASSUME announced = 1 PROVE Packs = resourcePacks \cup ignored
      <4> DEFINE missing == Packs \ (resourcePacks \cup ignored)
      <4>1. Cardinality(missing) = 0
        BY <2>2, <3>2 DEF Counted
      <4>2. IsFiniteSet(missing)
        BY LoginAssumption, FS_Subset
      <4>3. missing = {}
        BY <4>1, <4>2, FS_EmptySet
      <4>4. resourcePacks \subseteq Packs /\ ignored \subseteq Packs
        BY DEF LoginInv, LoginTypeOK, PackTypeOK
      <4> QED BY <4>3, <4>4
    <3> QED BY <3>1, <3>2 DEF AnnouncedOnce
  <2> QED BY <2>1, <2>2 DEF LoginInv, PackInv
<1> QED BY <1>1, LoginInvariant, PTL

(* Both ends agree that the player spawned: neither channel is closed      *)
(* twice, StartGame returns on the server only after the client is logged  *)
(* in, and the client only after all of the game data and PlayerSpawn.     *)
THEOREM SpawnAgreed == Spec => []SpawnsAgree
<1>1. LoginInv => SpawnsAgree
  <2> SUFFICES ASSUME LoginInv PROVE SpawnsAgree
    OBVIOUS
  <2>1. /\ spawned["client"] = (IF loggedIn["client"] THEN 1 ELSE 0)
        /\ loggedIn["client"] => GameData \cup {"ChunkRadiusUpdated", "PlayerSpawn"} \subseteq received
        /\ loggedIn["client"] => loggedIn["server"]
        /\ spawned["server"] # 0 => spawned["server"] = 1 /\ loggedIn["client"]
    BY DEF LoginInv, SpawnInv, ServerSpawnInv, ClientSpawnInv
  <2>2. \A s \in Sides : spawned[s] <= 1
    BY <2>1 DEF Sides
  <2> QED BY <2>1, <2>2 DEF SpawnsAgree, GameData
<1> QED BY <1>1, LoginInvariant, PTL

(* What a packet means in the handshake, and the packets that mean         *)
(* nothing to it.                                                          *)
Statuses == {"LoginSuccess", "LoginFailed", "PlayerSpawn"}
Responses == {"SendPacks", "AllPacksDownloaded", "Completed"}
Kind(m) ==
  IF \/ m.id = "PlayStatus" /\ m.arg \in Statuses
     \/ m.id = "ResourcePackClientResponse" /\ m.arg \in Responses
  THEN m.arg ELSE m.id
Idle(m) == m.id \in {"Disconnect", "JigsawStructureData", "VoxelShapes", "CreativeContent"}

(* Packets of the handshake that may be on their way together travel in    *)
(* this order, and no two of a kind do.                                    *)
Precedes(j, k) ==
  \/ j = "LoginSuccess" /\ k = "ResourcePacksInfo"
  \/ j = "ClientCacheStatus" /\ k \in {"SendPacks", "AllPacksDownloaded"}
  \/ j = "ResourcePackChunkData" /\ k = "ResourcePackDataInfo"
  \/ j = "DimensionData" /\ k \in {"StartGame", "ItemRegistry"}
  \/ j = "StartGame" /\ k = "ItemRegistry"
  \/ j = "ChunkRadiusUpdated" /\ k = "PlayerSpawn"
Follows(a, b) == Idle(a) \/ Idle(b) \/ Precedes(Kind(a), Kind(b))
AllFollow(A, B) == \A a \in A, b \in B : Follows(a, b)
Rising(q) == \A i, j \in DOMAIN q : i < j => Follows(q[i], q[j])
RisingNet(q) ==
  /\ \A b \in DOMAIN q : Rising(q[b].packets)
  /\ \A b, c \in DOMAIN q : b < c => AllFollow(Of(q[b].packets), Of(q[c].packets))
InOrder(s) ==
  /\ Rising(inbox[s]) /\ RisingNet(net[s]) /\ Rising(buffered[Other(s)])
  /\ AllFollow(Of(inbox[s]), InNet(net[s])) /\ AllFollow(Of(inbox[s]), Of(buffered[Other(s)]))
  /\ AllFollow(InNet(net[s]), Of(buffered[Other(s)]))

(* What may be on its way to a side, and what a side expects unless its    *)
(* receiving goroutine has ended.                                          *)
Comes(s, kinds) == \A m \in OnTheWay(s) : Idle(m) \/ Kind(m) \in kinds
Coming(s, kind) == \E m \in OnTheWay(s) : ~Idle(m) /\ Kind(m) = kind
Expects(s, ids) == listen[s] = "done" \/ expected[s] = ids

(* The phases of the handshake.  Until the packs are chosen: *)
Fresh == ~loggedIn["server"] /\ frag = NoPack /\ \A p \in Packs : dl[p] = "none" /\ dlIndex[p] = 0
Connecting == dial \in {"connecting", "connected", "failed"}
ExpectsLogin == Expects("client", {"ServerToClientHandshake", "PlayStatus", "ResourcePacksInfo"})

Calling ==
  /\ Fresh /\ dial \in {"expect", "request", "failed"}
  /\ Comes("client", {}) /\ Comes("server", {})
  /\ Expects("server", {"RequestNetworkSettings", "Login"})
  /\ dial = "request" => Expects("client", {"NetworkSettings", "PlayStatus"})
Requesting ==
  /\ Fresh /\ dial \in {"settings", "failed"} /\ listen["client"] # "ready"
  /\ Comes("client", {"LoginFailed"}) /\ Comes("server", {"RequestNetworkSettings"})
  /\ Coming("client", "LoginFailed") => Comes("server", {})
  /\ Expects("server", {"RequestNetworkSettings", "Login"})
  /\ Expects("client", {"NetworkSettings", "PlayStatus"})
Switching ==
  /\ Fresh /\ dial \in {"settings", "failed"} /\ listen["client"] # "ready"
  /\ Comes("client", {"NetworkSettings"}) /\ Comes("server", {})
  /\ Expects("server", {"Login"}) /\ Expects("client", {"NetworkSettings", "PlayStatus"})
Prepared ==
  /\ Fresh /\ dial \in {"settings", "login", "send login", "failed"}
  /\ Comes("client", {}) /\ Comes("server", {})
  /\ Expects("server", {"Login"}) /\ (dial = "send login" => ExpectsLogin)
LoggingIn ==
  /\ Fresh /\ Connecting
  /\ Comes("client", {}) /\ Comes("server", {"Login"})
  /\ Expects("server", {"Login"}) /\ ExpectsLogin
Shaking ==
  /\ Fresh /\ Connecting
  /\ Comes("client", {"ServerToClientHandshake"}) /\ Comes("server", {})
  /\ Expects("server", {"ClientToServerHandshake"}) /\ ExpectsLogin
Answering ==
  /\ Fresh /\ Connecting
  /\ Comes("client", {}) /\ Comes("server", {"ClientToServerHandshake"})
  /\ Expects("server", {"ClientToServerHandshake"}) /\ ExpectsLogin
ExpectsChoice == Expects("server", {"ResourcePackClientResponse", "ClientCacheStatus"})
Offering ==
  /\ Fresh /\ Connecting
  /\ Comes("client", {"LoginSuccess", "ResourcePacksInfo"}) /\ Comes("server", {"ClientCacheStatus"})
  /\ Coming("client", "LoginSuccess") => Comes("server", {})
  /\ ExpectsChoice /\ ExpectsLogin
ExpectsPacks ==
  Expects("client", {"ResourcePackDataInfo", "ResourcePackChunkData", "PlayStatus"})
Choosing ==
  /\ Fresh /\ Connecting /\ announced = 0
  /\ Comes("client", {}) /\ Comes("server", {"ClientCacheStatus", "SendPacks"})
  /\ \A m \in OnTheWay("server") : Kind(m) = "SendPacks" => m.packs = downloading
  /\ ExpectsChoice /\ ExpectsPacks

(* While the packs are downloaded, one at a time and each chunk on         *)
(* request, what the client has and asks for is what the server serves.    *)
Missing(p) == p \in Packs /\ p \notin resourcePacks \cup ignored
Expecting(p) ==
  /\ Missing(p) /\ dl[p] \in {"wait", "done"}
  /\ p # currentPack => dlIndex[p] + 1 = ChunkCount
Silent == Comes("client", {}) /\ Comes("server", {}) /\ frag = NoPack
Downloading ==
  /\ \A p \in Packs : dl[p] = "none" => dlIndex[p] = 0
  /\ \A p \in Packs : dl[p] = "request" => p = currentPack /\ Silent
  /\ \A m \in OnTheWay("client") :
       /\ Kind(m) = "ResourcePackDataInfo" =>
            m.pack = currentPack /\ dl[currentPack] = "none" /\ Missing(currentPack)
       /\ Kind(m) = "ResourcePackChunkData" => Expecting(m.pack) /\ frag = NoPack
  /\ Coming("server", "ResourcePackChunkRequest") =>
       Expecting(currentPack) /\ Comes("client", {}) /\ frag = NoPack
  /\ frag # NoPack => Expecting(frag) /\ listen["client"] = "frag"
ChunkComing ==
  \/ frag = currentPack
  \/ \E m \in OnTheWay("client") : Kind(m) = "ResourcePackChunkData" /\ m.pack = currentPack
Uploading ==
  /\ \/ currentOffset = ChunkCount /\ expected["server"] = {"ResourcePackClientResponse"}
     \/ /\ currentOffset < ChunkCount /\ expected["server"] = {"ResourcePackChunkRequest"}
        /\ Missing(currentPack) /\ dl[currentPack] \in {"none", "request", "wait", "done"}
  /\ dl[currentPack] = "none" => currentOffset = 0
  /\ dl[currentPack] = "request" \/ Coming("server", "ResourcePackChunkRequest") =>
       dlIndex[currentPack] = currentOffset /\ currentOffset < ChunkCount
  /\ ChunkComing => dlIndex[currentPack] + 1 = currentOffset
Serving ==
  /\ ~loggedIn["server"] /\ Connecting /\ announced = 0 /\ \A p \in Packs : dl[p] # "announce"
  /\ Comes("client", {"ResourcePackDataInfo", "ResourcePackChunkData"})
  /\ Comes("server", {"ResourcePackChunkRequest"})
  /\ currentPack \in Packs \ toDownload /\ toDownload \subseteq downloading
  /\ ExpectsPacks /\ Downloading
  /\ listen["server"] = "done" \/ Uploading

(* The packs are there... *)
ExpectsResponse ==
  \/ listen["server"] = "done"
  \/ expected["server"] = {"ResourcePackClientResponse"}
  \/ expected["server"] = {"ResourcePackClientResponse", "ClientCacheStatus"}
Announcing ==
  /\ ~loggedIn["server"] /\ Connecting /\ packAmount = 0
  /\ Comes("client", {}) /\ Comes("server", {"ClientCacheStatus", "AllPacksDownloaded"})
  /\ Coming("server", "AllPacksDownloaded") => announced = 1
  /\ Coming("server", "ClientCacheStatus") => ExpectsChoice
  /\ ExpectsResponse /\ Expects("client", {"ResourcePackStack", "PlayStatus"})
Stacking ==
  /\ ~loggedIn["server"] /\ Connecting /\ announced = 1
  /\ Comes("client", {"ResourcePackStack"}) /\ Comes("server", {})
  /\ ExpectsResponse /\ Expects("client", {"ResourcePackStack", "PlayStatus"})
Completing ==
  /\ ~loggedIn["server"] /\ Connecting /\ announced = 1
  /\ Comes("client", {}) /\ Comes("server", {"Completed"})
  /\ ExpectsResponse /\ Expects("client", {"DimensionData", "StartGame"})

(* ...and the server's application has the Conn. *)
Started == loggedIn["server"] /\ Connecting /\ announced = 1
NotSpawned == Started /\ ~loggedIn["client"] /\ ~waitingForSpawn["client"] /\ ~gameDataReceived
Entered ==
  /\ NotSpawned
  /\ start \in {"accept", "begin", "expect"} /\ (start = "expect" => waitingForSpawn["server"])
  /\ Comes("client", {}) /\ Comes("server", {}) /\ Expects("client", {"DimensionData", "StartGame"})
Writing == {"write 1", "write 2", "write 3", "write 4"}
Written == {"flush", "wait", "spawned", "failed"}
ExpectsSpawn ==
  /\ waitingForSpawn["server"]
  /\ Expects("server", {"RequestChunkRadius", "SetLocalPlayerAsInitialised"})
Starting ==
  /\ NotSpawned /\ ExpectsSpawn
  /\ start \in Writing \cup {"write 5"} \cup Written
  /\ Comes("client", {"DimensionData", "StartGame", "ItemRegistry"}) /\ Comes("server", {})
  /\ start \in Writing => Comes("client", {"DimensionData"})
  /\ start = "write 1" => Comes("client", {})
  /\ start = "write 5" => Comes("client", {"DimensionData", "StartGame"})
  /\ (start = "write 5" /\ ~closed["server"]) \/ Coming("client", "ItemRegistry") =>
       Coming("client", "StartGame")
  /\ Expects("client", {"DimensionData", "StartGame"})
Registering ==
  /\ NotSpawned /\ ExpectsSpawn
  /\ start \in {"write 5"} \cup Written
  /\ Comes("client", {"ItemRegistry"}) /\ Comes("server", {})
  /\ start = "write 5" => Comes("client", {})
  /\ Expects("client", {"ItemRegistry"})
Chunking ==
  /\ NotSpawned /\ ExpectsSpawn /\ start \in Written
  /\ Comes("client", {}) /\ Comes("server", {"RequestChunkRadius"})
  /\ Expects("client", {"ChunkRadiusUpdated", "PlayStatus"})
Finishing ==
  /\ Started /\ ~loggedIn["client"] /\ start \in Written
  /\ waitingForSpawn["server"] /\ Expects("server", {"SetLocalPlayerAsInitialised"})
  /\ Comes("client", {"ChunkRadiusUpdated", "PlayerSpawn"}) /\ Comes("server", {})
  /\ waitingForSpawn["client"] => Comes("client", {})
  /\ \/ ~gameDataReceived /\ Expects("client", {"ChunkRadiusUpdated", "PlayStatus"})
     \/ /\ gameDataReceived /\ Expects("client", {"PlayStatus", "ResourcePacksInfo"})
        /\ Comes("client", {"PlayerSpawn"})
Joined ==
  /\ Started /\ loggedIn["client"] /\ start \in Written
  /\ Comes("client", {}) /\ Comes("server", {"SetLocalPlayerAsInitialised"})
  /\ Coming("server", "SetLocalPlayerAsInitialised") =>
       waitingForSpawn["server"] /\ Expects("server", {"SetLocalPlayerAsInitialised"})

PhaseInv ==
  \/ Calling \/ Requesting \/ Switching \/ Prepared \/ LoggingIn \/ Shaking \/ Answering \/ Offering
  \/ Choosing \/ Serving \/ Announcing \/ Stacking \/ Completing
  \/ Entered \/ Starting \/ Registering \/ Chunking \/ Finishing \/ Joined
Flow == InOrder("client") /\ InOrder("server") /\ PhaseInv

------------------------------------------------------------------------------
(* The order of the packets on their way. *)

LEMMA ConcatAt ==
  ASSUME NEW S, NEW q \in Seq(S), NEW r \in Seq(S)
  PROVE  /\ \A i \in DOMAIN q : i \in DOMAIN (q \o r) /\ (q \o r)[i] = q[i]
         /\ \A i \in DOMAIN r : i + Len(q) \in DOMAIN (q \o r) /\ (q \o r)[i + Len(q)] = r[i]
         /\ \A i \in DOMAIN (q \o r) :
              \/ i \in DOMAIN q /\ i <= Len(q)
              \/ i > Len(q) /\ i - Len(q) \in DOMAIN r /\ (q \o r)[i] = r[i - Len(q)]
         /\ Len(q) \in Nat /\ DOMAIN (q \o r) \subseteq Nat
<1>1. /\ q \o r \in Seq(S) /\ Len(q \o r) = Len(q) + Len(r)
      /\ \A i \in 1 .. Len(q) + Len(r) : (q \o r)[i] = IF i <= Len(q) THEN q[i] ELSE r[i - Len(q)]
  BY ConcatProperties
<1> DEFINE s == q \o r
<1>2. s \in Seq(S) /\ Len(s) = Len(q) + Len(r)
      /\ \A i \in 1 .. Len(q) + Len(r) : s[i] = IF i <= Len(q) THEN q[i] ELSE r[i - Len(q)]
  BY <1>1
<1> HIDE DEF s
<1>3. DOMAIN s = 1 .. Len(s) /\ DOMAIN q = 1 .. Len(q) /\ DOMAIN r = 1 .. Len(r)
      /\ Len(q) \in Nat /\ Len(r) \in Nat
  BY <1>2, LenProperties
<1>4. \A i \in DOMAIN q : i \in DOMAIN s /\ s[i] = q[i]
  BY <1>2, <1>3
<1>5. \A i \in DOMAIN r : i + Len(q) \in DOMAIN s /\ s[i + Len(q)] = r[i]
  <2> SUFFICES ASSUME NEW i \in DOMAIN r PROVE i + Len(q) \in DOMAIN s /\ s[i + Len(q)] = r[i]
    OBVIOUS
  <2>1. i + Len(q) \in 1 .. Len(q) + Len(r) /\ ~(i + Len(q) <= Len(q)) /\ (i + Len(q)) - Len(q) = i
    BY <1>3
  <2> QED BY <1>2, <1>3, <2>1
<1>6. \A i \in DOMAIN s :
        \/ i \in DOMAIN q /\ i <= Len(q)
        \/ i > Len(q) /\ i - Len(q) \in DOMAIN r /\ s[i] = r[i - Len(q)]
  BY <1>2, <1>3
<1>7. DOMAIN s \subseteq Nat
  BY <1>3, <1>2
<1> QED BY <1>3, <1>4, <1>5, <1>6, <1>7 DEF s

LEMMA ConcatPairs ==
  ASSUME NEW S, NEW q \in Seq(S), NEW r \in Seq(S),
         NEW i \in DOMAIN (q \o r), NEW j \in DOMAIN (q \o r), i < j
  PROVE  \/ /\ i \in DOMAIN q /\ j \in DOMAIN q
            /\ (q \o r)[i] = q[i] /\ (q \o r)[j] = q[j]
         \/ /\ i \in DOMAIN q /\ (q \o r)[i] = q[i]
            /\ \E k \in DOMAIN r : (q \o r)[j] = r[k]
         \/ \E k, l \in DOMAIN r : k < l /\ (q \o r)[i] = r[k] /\ (q \o r)[j] = r[l]
<1> DEFINE s == q \o r
<1>1. /\ \A k \in DOMAIN q : k \in DOMAIN s /\ s[k] = q[k]
      /\ \A k \in DOMAIN s :
           \/ k \in DOMAIN q /\ k <= Len(q)
           \/ k > Len(q) /\ k - Len(q) \in DOMAIN r /\ s[k] = r[k - Len(q)]
      /\ Len(q) \in Nat /\ DOMAIN s \subseteq Nat /\ i \in DOMAIN s /\ j \in DOMAIN s
  BY ConcatAt
<1> HIDE DEF s
<1>2. i \in Nat /\ j \in Nat
  BY <1>1
<1>3. CASE j \in DOMAIN q /\ j <= Len(q)
  <2>1. i <= Len(q)
    BY <1>1, <1>2, <1>3
  <2>2. i \in DOMAIN q
    BY <1>1, <1>2, <2>1
  <2> QED BY <1>1, <1>3, <2>2 DEF s
<1>4. CASE j > Len(q) /\ j - Len(q) \in DOMAIN r /\ s[j] = r[j - Len(q)]
  <2>1. CASE i \in DOMAIN q
    BY <1>1, <1>4, <2>1 DEF s
  <2>2. CASE i - Len(q) \in DOMAIN r /\ s[i] = r[i - Len(q)]
    <3>1. i - Len(q) < j - Len(q)
      BY <1>1, <1>2
    <3> QED BY <1>4, <2>2, <3>1 DEF s
  <2> QED BY <1>1, <2>1, <2>2
<1> QED BY <1>1, <1>3, <1>4

LEMMA ConcatOf ==
  ASSUME NEW S, NEW q \in Seq(S), NEW r \in Seq(S)
  PROVE  Of(q) \cup Of(r) \subseteq Of(q \o r)
<1> DEFINE s == q \o r
<1>1. /\ \A i \in DOMAIN q : i \in DOMAIN s /\ s[i] = q[i]
      /\ \A i \in DOMAIN r : i + Len(q) \in DOMAIN s /\ s[i + Len(q)] = r[i]
  BY ConcatAt
<1> HIDE DEF s
<1>2. Of(q) \subseteq Of(s) /\ Of(r) \subseteq Of(s)
  BY <1>1 DEF Of
<1> QED BY <1>2 DEF s

LEMMA ConcatNet ==
  ASSUME NEW q \in Seq(Batches), NEW r \in Seq(Batches)
  PROVE  InNet(q) \cup InNet(r) \subseteq InNet(q \o r)
<1> DEFINE s == q \o r
<1>1. /\ \A i \in DOMAIN q : i \in DOMAIN s /\ s[i] = q[i]
      /\ \A i \in DOMAIN r : i + Len(q) \in DOMAIN s /\ s[i + Len(q)] = r[i]
  BY ConcatAt
<1> HIDE DEF s
<1>2. InNet(q) \subseteq InNet(s) /\ InNet(r) \subseteq InNet(s)
  BY <1>1 DEF InNet
<1> QED BY <1>2 DEF s

LEMMA RisingConcat ==
  ASSUME NEW S, NEW q \in Seq(S), NEW r \in Seq(S), Rising(q), Rising(r), AllFollow(Of(q), Of(r))
  PROVE  Rising(q \o r)
<1> SUFFICES ASSUME NEW i \in DOMAIN (q \o r), NEW j \in DOMAIN (q \o r), i < j
             PROVE  Follows((q \o r)[i], (q \o r)[j])
  BY DEF Rising
<1> DEFINE a == (q \o r)[i]
           b == (q \o r)[j]
<1>1. \/ i \in DOMAIN q /\ j \in DOMAIN q /\ a = q[i] /\ b = q[j]
      \/ i \in DOMAIN q /\ a = q[i] /\ \E k \in DOMAIN r : b = r[k]
      \/ \E k, l \in DOMAIN r : k < l /\ a = r[k] /\ b = r[l]
  BY ConcatPairs
<1> HIDE DEF a, b
<1>2. Follows(a, b)
  BY <1>1 DEF Rising, AllFollow, Of
<1> QED BY <1>2 DEF a, b

LEMMA RisingNetConcat ==
  ASSUME NEW q \in Seq(Batches), NEW r \in Seq(Batches), RisingNet(q), RisingNet(r),
         AllFollow(InNet(q), InNet(r))
  PROVE  RisingNet(q \o r)
<1>1. ASSUME NEW i \in DOMAIN (q \o r), NEW j \in DOMAIN (q \o r), i < j
      PROVE  AllFollow(Of((q \o r)[i].packets), Of((q \o r)[j].packets))
  <2> DEFINE a == (q \o r)[i]
             b == (q \o r)[j]
  <2>1. \/ i \in DOMAIN q /\ j \in DOMAIN q /\ a = q[i] /\ b = q[j]
        \/ i \in DOMAIN q /\ a = q[i] /\ \E k \in DOMAIN r : b = r[k]
        \/ \E k, l \in DOMAIN r : k < l /\ a = r[k] /\ b = r[l]
    BY <1>1, ConcatPairs
  <2> HIDE DEF a, b
  <2>2. CASE i \in DOMAIN q /\ j \in DOMAIN q /\ a = q[i] /\ b = q[j]
    BY <1>1, <2>2 DEF RisingNet, a, b
  <2>3. CASE i \in DOMAIN q /\ a = q[i] /\ \E k \in DOMAIN r : b = r[k]
    <3>1. Of(a.packets) \subseteq InNet(q) /\ Of(b.packets) \subseteq InNet(r)
      BY <2>3 DEF InNet
    <3> QED BY <3>1 DEF AllFollow, a, b
  <2>4. CASE \E k, l \in DOMAIN r : k < l /\ a = r[k] /\ b = r[l]
    BY <2>4 DEF RisingNet, a, b
  <2> QED BY <2>1, <2>2, <2>3, <2>4
<1>2. ASSUME NEW i \in DOMAIN (q \o r) PROVE Rising((q \o r)[i].packets)
  <2>1. (\E k \in DOMAIN q : (q \o r)[i] = q[k]) \/ (\E k \in DOMAIN r : (q \o r)[i] = r[k])
    BY ConcatAt
  <2> QED BY <2>1 DEF RisingNet
<1> QED BY <1>1, <1>2 DEF RisingNet

LEMMA TailAt ==
  ASSUME NEW S, NEW q \in Seq(S), q # <<>>
  PROVE  /\ 1 \in DOMAIN q /\ Head(q) = q[1] /\ DOMAIN q \subseteq Nat
         /\ \A i \in DOMAIN Tail(q) : i \in Nat /\ 1 < i + 1 /\ i + 1 \in DOMAIN q
                                      /\ Tail(q)[i] = q[i + 1]
         /\ \A i \in DOMAIN q : i = 1 \/ (i - 1 \in DOMAIN Tail(q) /\ q[i] = Tail(q)[i - 1])
<1>1. Tail(q) \in Seq(S) /\ Len(Tail(q)) = Len(q) - 1
      /\ \A i \in 1 .. Len(Tail(q)) : Tail(q)[i] = q[i + 1]
  BY HeadTailProperties
<1>2. DOMAIN q = 1 .. Len(q) /\ Len(q) \in Nat \ {0} /\ Head(q) = q[1]
  BY LenProperties, EmptySeq
<1> DEFINE t == Tail(q)
<1>3. t \in Seq(S) /\ Len(t) = Len(q) - 1 /\ \A i \in 1 .. Len(t) : t[i] = q[i + 1]
  BY <1>1
<1> HIDE DEF t
<1>4. DOMAIN t = 1 .. Len(t)
  BY <1>3, LenProperties
<1>5. \A i \in DOMAIN t : i \in Nat /\ 1 < i + 1 /\ i + 1 \in DOMAIN q /\ t[i] = q[i + 1]
  BY <1>2, <1>3, <1>4
<1>6. \A i \in DOMAIN q : i = 1 \/ (i - 1 \in DOMAIN t /\ q[i] = t[i - 1])
  <2> SUFFICES ASSUME NEW i \in DOMAIN q, i # 1 PROVE i - 1 \in DOMAIN t /\ q[i] = t[i - 1]
    OBVIOUS
  <2>1. i - 1 \in 1 .. Len(t) /\ (i - 1) + 1 = i
    BY <1>2, <1>3
  <2> QED BY <1>3, <1>4, <2>1
<1> QED BY <1>2, <1>5, <1>6 DEF t

LEMMA RisingTail ==
  ASSUME NEW S, NEW q \in Seq(S), q # <<>>, Rising(q)
  PROVE  /\ Rising(Tail(q)) /\ \A m \in Of(Tail(q)) : Follows(Head(q), m)
         /\ Of(q) \subseteq Of(Tail(q)) \cup {Head(q)}
<1> DEFINE t == Tail(q)
           h == Head(q)
<1>1. /\ 1 \in DOMAIN q /\ h = q[1] /\ DOMAIN q \subseteq Nat
      /\ \A i \in DOMAIN t : i \in Nat /\ 1 < i + 1 /\ i + 1 \in DOMAIN q /\ t[i] = q[i + 1]
      /\ \A i \in DOMAIN q : i = 1 \/ (i - 1 \in DOMAIN t /\ q[i] = t[i - 1])
  BY TailAt
<1> HIDE DEF t, h
<1>2. ASSUME NEW i \in DOMAIN t, NEW j \in DOMAIN t, i < j PROVE Follows(t[i], t[j])
  <2>1. i + 1 \in DOMAIN q /\ j + 1 \in DOMAIN q /\ i + 1 < j + 1 /\ t[i] = q[i + 1] /\ t[j] = q[j + 1]
    BY <1>1, <1>2
  <2> QED BY <2>1 DEF Rising
<1>3. \A i \in DOMAIN t : Follows(h, t[i])
  BY <1>1 DEF Rising
<1>4. Of(q) \subseteq Of(t) \cup {h}
  BY <1>1 DEF Of
<1> QED BY <1>2, <1>3, <1>4 DEF Rising, Of, t, h

LEMMA RisingNetTail ==
  ASSUME NEW q \in Seq(Batches), q # <<>>, RisingNet(q)
  PROVE  /\ Rising(Head(q).packets) /\ RisingNet(Tail(q))
         /\ AllFollow(Of(Head(q).packets), InNet(Tail(q)))
         /\ InNet(q) \subseteq Of(Head(q).packets) \cup InNet(Tail(q))
<1> DEFINE t == Tail(q)
           h == Head(q)
<1>1. /\ 1 \in DOMAIN q /\ h = q[1] /\ DOMAIN q \subseteq Nat
      /\ \A i \in DOMAIN t : i \in Nat /\ 1 < i + 1 /\ i + 1 \in DOMAIN q /\ t[i] = q[i + 1]
      /\ \A i \in DOMAIN q : i = 1 \/ (i - 1 \in DOMAIN t /\ q[i] = t[i - 1])
  BY TailAt
<1> HIDE DEF t, h
<1>2. Rising(h.packets) /\ \A i \in DOMAIN t : Rising(t[i].packets)
  BY <1>1 DEF RisingNet
<1>3. ASSUME NEW i \in DOMAIN t, NEW j \in DOMAIN t, i < j
      PROVE  AllFollow(Of(t[i].packets), Of(t[j].packets))
  <2>1. i + 1 \in DOMAIN q /\ j + 1 \in DOMAIN q /\ i + 1 < j + 1 /\ t[i] = q[i + 1] /\ t[j] = q[j + 1]
    BY <1>1, <1>3
  <2>2. AllFollow(Of(q[i + 1].packets), Of(q[j + 1].packets))
    BY <2>1 DEF RisingNet
  <2> QED BY <2>1, <2>2
<1>4. \A i \in DOMAIN t : AllFollow(Of(h.packets), Of(t[i].packets))
  <2> SUFFICES ASSUME NEW i \in DOMAIN t PROVE AllFollow(Of(h.packets), Of(t[i].packets))
    OBVIOUS
  <2>1. AllFollow(Of(q[1].packets), Of(q[i + 1].packets))
    BY <1>1 DEF RisingNet
  <2> QED BY <1>1, <2>1
<1>5. AllFollow(Of(h.packets), InNet(t))
  BY <1>4 DEF AllFollow, InNet
<1>6. InNet(q) \subseteq Of(h.packets) \cup InNet(t)
  <2> SUFFICES ASSUME NEW b \in DOMAIN q PROVE Of(q[b].packets) \subseteq Of(h.packets) \cup InNet(t)
    BY DEF InNet
  <2>1. CASE b = 1
    BY <1>1, <2>1
  <2>2. CASE b - 1 \in DOMAIN t /\ q[b] = t[b - 1]
    BY <2>2 DEF InNet
  <2> QED BY <1>1, <2>1, <2>2
<1>7. RisingNet(t)
  BY <1>2, <1>3 DEF RisingNet
<1> QED BY <1>2, <1>5, <1>6, <1>7 DEF t, h

LEMMA RisingBatch ==
  ASSUME NEW f \in Formats, NEW q \in Seq(Message), Rising(q)
  PROVE  RisingNet(Batch(f, q)) /\ Of(q) \subseteq InNet(Batch(f, q))
<1>1. CASE q = <<>>
  <2>1. Batch(f, q) = <<>>
    BY <1>1 DEF Batch
  <2> QED BY <1>1, <2>1 DEF InNet, RisingNet, Of
<1>2. CASE q # <<>>
  <2> DEFINE b == [format |-> f, packets |-> q]
  <2>1. Batch(f, q) = <<b>> /\ b \in Batches /\ b.packets = q
    BY <1>2 DEF Batch, Batches
  <2> HIDE DEF b
  <2>2. <<b>> \in Seq(Batches) /\ DOMAIN <<b>> = {1} /\ <<b>>[1] = b
    BY <2>1
  <2>3. Of(q) \subseteq InNet(<<b>>)
    BY <2>1, <2>2 DEF InNet
  <2>4. RisingNet(<<b>>)
    BY <2>1, <2>2 DEF RisingNet
  <2> QED BY <2>1, <2>3, <2>4
<1> QED BY <1>1, <1>2

(* What a step does to the stream towards a side: the side takes the first *)
(* packet of it, or its peer writes to it.                                 *)
Took(s) ==
  /\ pk(s) \in OnTheWay(s) /\ pk(s) \in Message
  /\ OnTheWay(s)' \subseteq OnTheWay(s) /\ OnTheWay(s) \subseteq OnTheWay(s)' \cup {pk(s)}
  /\ \A m \in OnTheWay(s)' : Follows(pk(s), m)
  /\ InOrder(s)'
Gains(s, new) ==
  /\ OnTheWay(s)' \subseteq OnTheWay(s) \cup new /\ OnTheWay(s) \subseteq OnTheWay(s)'
  /\ AllFollow(OnTheWay(s), new) => InOrder(s)'

LEMMA TakesFirst ==
  ASSUME StreamTypeOK, NEW s \in Sides, InOrder(s), inbox[s] # <<>>,
         inbox'[s] = Tail(inbox[s]), net'[s] = net[s], buffered'[Other(s)] = buffered[Other(s)]
  PROVE  Took(s)
<1> DEFINE q == inbox[s]
           t == Tail(q)
           h == Head(q)
           later == InNet(net[s]) \cup Of(buffered[Other(s)])
<1>1. q \in Seq(Message) /\ q # <<>> /\ Rising(q)
  BY DEF StreamTypeOK, InOrder
<1>2. /\ Rising(t) /\ \A m \in Of(t) : Follows(h, m)
      /\ Of(q) \subseteq Of(t) \cup {h} /\ Of(t) \subseteq Of(q) /\ h \in Of(q) /\ h \in Message
  BY <1>1, RisingTail, OfParts
<1>3. inbox'[s] = t /\ pk(s) = h
  BY DEF pk
<1> HIDE DEF t, h
<1>4. \A m \in later : Follows(h, m)
  BY <1>2 DEF InOrder, AllFollow
<1>5. InOrder(s)'
  <2>1. AllFollow(Of(t), InNet(net[s])) /\ AllFollow(Of(t), Of(buffered[Other(s)]))
    BY <1>2 DEF InOrder, AllFollow
  <2> QED BY <1>2, <1>3, <2>1 DEF InOrder
<1>6. OnTheWay(s) = Of(q) \cup later /\ OnTheWay(s)' = Of(t) \cup later
  BY <1>3 DEF OnTheWay
<1> HIDE DEF q, later
<1> QED BY <1>2, <1>3, <1>4, <1>5, <1>6 DEF Took

LEMMA GainsNothing ==
  ASSUME NEW s, InOrder(s), inbox'[s] = inbox[s], net'[s] = net[s],
         buffered'[Other(s)] = buffered[Other(s)]
  PROVE  \A new : Gains(s, new)
<1>1. OnTheWay(s)' = OnTheWay(s)
  BY DEF OnTheWay
<1>2. InOrder(s)'
  BY DEF InOrder
<1> QED BY <1>1, <1>2 DEF Gains

LEMMA GainsDecode ==
  ASSUME StreamTypeOK, NEW s \in Sides, InOrder(s), DecodeFunc(s)
  PROVE  Gains(s, {})
<1> DEFINE q == net[s]
           h == Head(q).packets
           t == Tail(q)
           b == buffered[Other(s)]
<1>1. q \in Seq(Batches) /\ q # <<>> /\ RisingNet(q)
  BY DEF StreamTypeOK, InOrder, DecodeFunc
<1>2. /\ Rising(h) /\ RisingNet(t) /\ AllFollow(Of(h), InNet(t))
      /\ InNet(q) \subseteq Of(h) \cup InNet(t)
      /\ Of(h) \subseteq InNet(q) /\ InNet(t) \subseteq InNet(q)
  BY <1>1, RisingNetTail, NetParts
<1>3. inbox[s] = <<>> /\ inbox'[s] = h /\ net'[s] = t /\ buffered'[Other(s)] = b
  BY OtherSide DEF DecodeFunc, StreamTypeOK
<1>4. Of(<<>>) = {}
  BY DEF Of
<1> HIDE DEF h, t
<1>5. OnTheWay(s) = InNet(q) \cup Of(b) /\ OnTheWay(s)' = Of(h) \cup InNet(t) \cup Of(b)
  BY <1>3, <1>4 DEF OnTheWay
<1>6. Rising(b) /\ AllFollow(InNet(q), Of(b))
  BY DEF InOrder
<1>7. InOrder(s)'
  <2>1. AllFollow(Of(h), Of(b)) /\ AllFollow(InNet(t), Of(b))
    BY <1>2, <1>6 DEF AllFollow
  <2> QED BY <1>2, <1>3, <1>6, <2>1 DEF InOrder
<1> HIDE DEF q, b
<1> QED BY <1>2, <1>5, <1>7 DEF Gains

LEMMA GainsSend ==
  ASSUME StreamTypeOK, NEW s \in Sides, NEW f \in Formats, InOrder(Other(s)),
         NEW pks \in Seq(Message), NEW more \in Seq(Message), SendAs(s, f, pks, more),
         Rising(pks), Rising(more), AllFollow(Of(pks), Of(more)), inbox'[Other(s)] = inbox[Other(s)]
  PROVE  Gains(Other(s), Of(pks) \cup Of(more))
<1> DEFINE o == Other(s)
<1>1. o \in Sides /\ o # s /\ Other(o) = s
  BY OtherSide
<1>2. CASE closed[s]
  BY <1>1, <1>2, GainsNothing DEF SendAs, sendVars
<1>3. CASE ~closed[s]
  <2> DEFINE all == buffered[s] \o pks
             sent == net[o] \o Batch(f, all) \o Batch(f, more)
             way == OnTheWay(o)
  <2>1. net' = [net EXCEPT ![o] = sent] /\ buffered' = [buffered EXCEPT ![s] = <<>>]
    BY <1>3 DEF SendAs
  <2>2. buffered[s] \in Seq(Message) /\ net[o] \in Seq(Batches) /\ inbox[o] \in Seq(Message)
    BY <1>1 DEF StreamTypeOK
  <2>3. net'[o] = sent /\ buffered'[s] = <<>> /\ inbox'[o] = inbox[o]
    BY <1>1, <2>1 DEF StreamTypeOK
  <2>4. /\ all \in Seq(Message) /\ Of(all) \subseteq Of(buffered[s]) \cup Of(pks)
        /\ Of(buffered[s]) \cup Of(pks) \subseteq Of(all)
    BY <2>2, OfConcat, ConcatOf
  <2> DEFINE B == Batch(f, all)
             C == Batch(f, more)
             D == net[o] \o B
  <2> HIDE DEF all
  <2>5. B \in Seq(Batches) /\ C \in Seq(Batches) /\ InNet(B) \subseteq Of(all)
        /\ InNet(C) \subseteq Of(more)
    BY <2>4, OfBatch
  <2>6. InNet(C) = Of(more) /\ RisingNet(C)
    BY <2>5, RisingBatch
  <2> HIDE DEF B, C
  <2>7. D \in Seq(Batches) /\ InNet(D) = InNet(net[o]) \cup InNet(B)
    BY <2>2, <2>5, NetConcat, ConcatNet
  <2>8. sent = D \o C
    BY DEF D, B, C
  <2> HIDE DEF D
  <2>9. D \o C \in Seq(Batches) /\ InNet(D \o C) = InNet(D) \cup InNet(C)
    BY <2>5, <2>7, NetConcat, ConcatNet
  <2> HIDE DEF sent
  <2>10. Of(<<>>) = {}
    BY DEF Of
  <2> DEFINE new == Of(pks) \cup Of(more)
  <2>11. way = Of(inbox[o]) \cup Of(buffered[s]) \cup InNet(net[o])
    BY <1>1 DEF OnTheWay
  <2>12. OnTheWay(o)' = Of(inbox[o]) \cup InNet(sent)
    BY <1>1, <2>3, <2>10 DEF OnTheWay
  <2>13. OnTheWay(o)' \subseteq Of(inbox[o]) \cup InNet(net[o]) \cup InNet(B) \cup Of(more)
    BY <2>6, <2>7, <2>8, <2>9, <2>12
  <2>14. OnTheWay(o)' \subseteq way \cup new
    BY <2>4, <2>5, <2>11, <2>13
  <2>15. Rising(buffered[s]) /\ Rising(inbox[o]) /\ RisingNet(net[o])
    BY <1>1 DEF InOrder
  <2>16. AllFollow(Of(inbox[o]), InNet(net[o])) /\ AllFollow(Of(inbox[o]), Of(buffered[s]))
         /\ AllFollow(InNet(net[o]), Of(buffered[s]))
    BY <1>1 DEF InOrder
  <2>17. Rising(all) => Of(all) \subseteq InNet(B) /\ RisingNet(B)
    BY <2>4, RisingBatch DEF B
  <2>18. AllFollow(Of(buffered[s]), Of(pks)) => Rising(all)
    BY <2>2, <2>15, RisingConcat DEF all
  <2>19. Of(all) \subseteq InNet(B)
    <3>1. CASE all = <<>>
      BY <2>10, <3>1
    <3>2. CASE all # <<>>
      <4> DEFINE b == [format |-> f, packets |-> all]
      <4>1. B = <<b>> /\ b.packets = all
        BY <3>2 DEF B, Batch
      <4> HIDE DEF b
      <4>2. DOMAIN <<b>> = {1} /\ <<b>>[1] = b
        OBVIOUS
      <4> QED BY <4>1, <4>2 DEF InNet
    <3> QED BY <3>1, <3>2
  <2>20. way \subseteq OnTheWay(o)'
    BY <2>4, <2>7, <2>8, <2>9, <2>11, <2>12, <2>19
  <2>21. ASSUME AllFollow(way, new) PROVE InOrder(o)'
    <3>1. AllFollow(Of(buffered[s]), Of(pks))
      BY <2>11, <2>21 DEF AllFollow
    <3>2. RisingNet(B) /\ InNet(B) \subseteq Of(buffered[s]) \cup Of(pks)
      BY <2>4, <2>5, <2>17, <2>18, <3>1
    <3>3. AllFollow(InNet(net[o]), InNet(B)) /\ AllFollow(Of(inbox[o]), InNet(B))
      BY <2>11, <2>16, <2>21, <3>2 DEF AllFollow
    <3>4. RisingNet(D)
      BY <2>2, <2>5, <2>15, <3>2, <3>3, RisingNetConcat DEF D
    <3>5. AllFollow(InNet(D), InNet(C))
      BY <2>6, <2>7, <2>11, <2>21, <3>2 DEF AllFollow
    <3>6. RisingNet(sent)
      BY <2>5, <2>6, <2>7, <2>8, <3>4, <3>5, RisingNetConcat
    <3>7. AllFollow(Of(inbox[o]), InNet(sent))
      BY <2>6, <2>7, <2>8, <2>9, <2>11, <2>16, <2>21, <3>3 DEF AllFollow
    <3>8. Rising(<<>>) /\ AllFollow(Of(inbox[o]), {}) /\ AllFollow(InNet(sent), {})
      BY DEF Rising, AllFollow
    <3> QED BY <1>1, <2>3, <2>10, <2>15, <3>6, <3>7, <3>8 DEF InOrder
  <2> QED BY <2>14, <2>20, <2>21 DEF Gains
<1> QED BY <1>2, <1>3

LEMMA GainsBuffer ==
  ASSUME StreamTypeOK, NEW s \in Sides, InOrder(s), InOrder(Other(s)), NEW pks \in Seq(Message),
         Buffer(s, pks), Rising(pks), inbox' = inbox
  PROVE  Gains(Other(s), Of(pks)) /\ Gains(s, {})
<1> DEFINE o == Other(s)
           all == buffered[s] \o pks
<1>1. o \in Sides /\ o # s /\ Other(o) = s
  BY OtherSide
<1>2. buffered[s] \in Seq(Message) /\ net' = net
  BY DEF StreamTypeOK, Buffer
<1>3. /\ all \in Seq(Message) /\ Of(all) \subseteq Of(buffered[s]) \cup Of(pks)
      /\ Of(buffered[s]) \cup Of(pks) \subseteq Of(all)
  BY <1>2, OfConcat, ConcatOf
<1>4. buffered'[o] = buffered[o] /\ buffered'[s] = IF closed[s] THEN buffered[s] ELSE all
  BY <1>1 DEF StreamTypeOK, Buffer
<1>5. Gains(s, {})
  BY <1>1, <1>2, <1>4, GainsNothing
<1>6. CASE closed[s]
  BY <1>1, <1>2, <1>4, <1>5, <1>6, GainsNothing
<1>7. CASE ~closed[s]
  <2>1. buffered'[s] = all
    BY <1>4, <1>7
  <2>2. Rising(buffered[s]) /\ (AllFollow(Of(buffered[s]), Of(pks)) => Rising(all))
    BY <1>1, <1>2, RisingConcat DEF InOrder
  <2> HIDE DEF all
  <2>3. OnTheWay(o) = Of(inbox[o]) \cup Of(buffered[s]) \cup InNet(net[o])
        /\ OnTheWay(o)' = Of(inbox[o]) \cup Of(all) \cup InNet(net[o])
    BY <1>1, <1>2, <2>1 DEF OnTheWay
  <2>4. ASSUME AllFollow(OnTheWay(o), Of(pks)) PROVE InOrder(o)'
    <3>1. Rising(all)
      BY <2>2, <2>3, <2>4 DEF AllFollow
    <3>2. AllFollow(Of(inbox[o]), Of(all)) /\ AllFollow(InNet(net[o]), Of(all))
      BY <1>1, <1>3, <2>3, <2>4 DEF AllFollow, InOrder
    <3> QED BY <1>1, <1>2, <2>1, <3>1, <3>2 DEF InOrder
  <2> QED BY <1>3, <1>5, <2>3, <2>4 DEF Gains
<1> QED BY <1>6, <1>7

LEMMA KindOf ==
  ASSUME NEW m \in Message
  PROVE  /\ Kind(m) \in Statuses => m.id = "PlayStatus" /\ m.arg = Kind(m)
         /\ Kind(m) \in Responses => m.id = "ResourcePackClientResponse" /\ m.arg = Kind(m)
         /\ Kind(m) \notin Statuses \cup Responses => m.id = Kind(m)
<1>1. m.id \in Ids
  BY DEF Message
<1>2. m.id \notin Statuses /\ m.id \notin Responses
  BY <1>1 DEF Ids, ServerHandled, ClientHandled, Statuses, Responses
<1>3. CASE m.id = "PlayStatus" /\ m.arg \in Statuses
  BY <1>3 DEF Kind, Statuses, Responses
<1>4. CASE m.id = "ResourcePackClientResponse" /\ m.arg \in Responses
  BY <1>4 DEF Kind, Statuses, Responses
<1>5. CASE ~(m.id = "PlayStatus" /\ m.arg \in Statuses)
           /\ ~(m.id = "ResourcePackClientResponse" /\ m.arg \in Responses)
  BY <1>2, <1>5 DEF Kind
<1> QED BY <1>3, <1>4, <1>5

LEMMA IdleKind ==
  ASSUME NEW m, Idle(m)
  PROVE  Kind(m) \in {"Disconnect", "JigsawStructureData", "VoxelShapes", "CreativeContent"}
BY DEF Idle, Kind

LEMMA Kinds ==
  /\ \A id : Kind(Pk(id)) = id /\ Pk(id).id = id
  /\ \A a \in Statuses : Kind(Status(a)) = a /\ Status(a).id = "PlayStatus"
  /\ \A a \in Responses : \A ps : Kind(Response(a, ps)) = a /\ Response(a, ps).packs = ps
  /\ \A a, ps : Response(a, ps).id = "ResourcePackClientResponse"
  /\ \A id, p, n : Kind(PackPk(id, p, n)) = id /\ PackPk(id, p, n).pack = p
  /\ \A id, p, n : PackPk(id, p, n).id = id
<1>1. "" \notin Statuses /\ "" \notin Responses
  BY DEF Statuses, Responses
<1>2. \A id : Pk(id).id = id /\ Pk(id).arg = ""
  BY DEF Pk
<1>3. \A a : Status(a).id = "PlayStatus" /\ Status(a).arg = a
  BY DEF Pk, Status
<1>4. \A a, ps : /\ Response(a, ps).id = "ResourcePackClientResponse" /\ Response(a, ps).arg = a
                 /\ Response(a, ps).packs = ps
  BY DEF Pk, Response
<1>5. \A id, p, n : PackPk(id, p, n).id = id /\ PackPk(id, p, n).arg = "" /\ PackPk(id, p, n).pack = p
  BY DEF Pk, PackPk
<1>6. \A id, x : x.id = id /\ x.arg = "" => Kind(x) = id
  BY <1>1 DEF Kind
<1>7. \A a \in Statuses : \A x : x.id = "PlayStatus" /\ x.arg = a => Kind(x) = a
  BY DEF Kind
<1>8. \A a \in Responses : \A x : x.id = "ResourcePackClientResponse" /\ x.arg = a => Kind(x) = a
  BY DEF Kind
<1>9. \A id : Kind(Pk(id)) = id /\ Pk(id).id = id
  BY <1>2, <1>6
<1>10. \A a \in Statuses : Kind(Status(a)) = a /\ Status(a).id = "PlayStatus"
  BY <1>3, <1>7
<1>11. \A a \in Responses : \A ps : Kind(Response(a, ps)) = a /\ Response(a, ps).packs = ps
  BY <1>4, <1>8
<1>12. \A a, ps : Response(a, ps).id = "ResourcePackClientResponse"
  BY <1>4
<1>13. \A id, p, n : Kind(PackPk(id, p, n)) = id /\ PackPk(id, p, n).pack = p
  <2> TAKE id, p, n
  <2> DEFINE x == PackPk(id, p, n)
  <2>1. x.id = id /\ x.arg = "" /\ x.pack = p
    BY DEF PackPk, Pk
  <2> HIDE DEF x
  <2>2. Kind(x) = id /\ x.pack = p
    BY <1>6, <2>1
  <2> QED BY <2>2 DEF x
<1>14. \A id, p, n : PackPk(id, p, n).id = id
  BY <1>5
<1> QED BY <1>9, <1>10, <1>11, <1>12, <1>13, <1>14

(* A handler takes the packet it handles and answers it. *)
Pops(s) == inbox[s] # <<>> /\ inbox' = [inbox EXCEPT ![s] = Tail(@)]

LEMMA Answers ==
  ASSUME LoginTypeOK, NEW s \in Sides, InOrder(s), InOrder(Other(s)), Pops(s),
         NEW f \in Formats, NEW pks \in Seq(Message), NEW more \in Seq(Message),
         SendAs(s, f, pks, more), Rising(pks), Rising(more), AllFollow(Of(pks), Of(more))
  PROVE  Took(s) /\ Gains(Other(s), Of(pks) \cup Of(more))
<1>1. StreamTypeOK
  BY DEF LoginTypeOK
<1>2. inbox[s] # <<>> /\ inbox' = [inbox EXCEPT ![s] = Tail(inbox[s])]
  BY DEF Pops
<1>3. Other(s) \in Sides /\ Other(s) # s
  BY OtherSide
<1>4. inbox'[s] = Tail(inbox[s]) /\ inbox'[Other(s)] = inbox[Other(s)]
  BY <1>1, <1>2, <1>3 DEF StreamTypeOK
<1>5. net'[s] = net[s] /\ buffered'[Other(s)] = buffered[Other(s)]
  BY <1>1, SendKeeps
<1> QED BY <1>1, <1>2, <1>4, <1>5, TakesFirst, GainsSend

LEMMA RisingOne ==
  /\ Rising(<<>>) /\ \A m : Rising(<<m>>)
  /\ \A m, n : Follows(m, n) => Rising(<<m, n>>)
  /\ \A m, n, o : Follows(m, n) /\ Follows(m, o) /\ Follows(n, o) => Rising(<<m, n, o>>)
<1>1. DOMAIN <<>> = {} /\ \A m : DOMAIN <<m>> = {1}
  OBVIOUS
<1>2. \A m, n : DOMAIN <<m, n>> = {1, 2} /\ <<m, n>>[1] = m /\ <<m, n>>[2] = n
  OBVIOUS
<1>3. \A m, n, o : /\ DOMAIN <<m, n, o>> = {1, 2, 3}
                   /\ <<m, n, o>>[1] = m /\ <<m, n, o>>[2] = n /\ <<m, n, o>>[3] = o
  OBVIOUS
<1> QED BY <1>1, <1>2, <1>3 DEF Rising

LEMMA AnswersNone ==
  ASSUME LoginTypeOK, NEW s \in Sides, InOrder(s), InOrder(Other(s)), Pops(s),
         \/ UNCHANGED sendVars
         \/ Send(s, <<>>)
         \/ \E f \in Formats : SendAs(s, f, <<>>, <<>>)
  PROVE  Took(s) /\ Gains(Other(s), {})
<1>1. StreamTypeOK /\ enc[s] \in Formats
  BY DEF LoginTypeOK, FormatTypeOK
<1>2. <<>> \in Seq(Message) /\ Of(<<>>) = {} /\ Rising(<<>>) /\ AllFollow({}, {})
  BY RisingOne, OfNone DEF AllFollow
<1>3. CASE UNCHANGED sendVars
  <2>1. inbox[s] # <<>> /\ inbox' = [inbox EXCEPT ![s] = Tail(inbox[s])]
    BY DEF Pops
  <2>2. Other(s) \in Sides /\ Other(s) # s
    BY OtherSide
  <2>3. inbox'[s] = Tail(inbox[s]) /\ inbox'[Other(s)] = inbox[Other(s)]
    BY <1>1, <2>1, <2>2 DEF StreamTypeOK
  <2> QED BY <1>1, <1>3, <2>1, <2>3, TakesFirst, GainsNothing DEF sendVars
<1>4. CASE Send(s, <<>>) \/ \E f \in Formats : SendAs(s, f, <<>>, <<>>)
  <2>1. PICK f \in Formats : SendAs(s, f, <<>>, <<>>)
    BY <1>1, <1>4 DEF Send
  <2>2. Took(s) /\ Gains(Other(s), Of(<<>>) \cup Of(<<>>))
    BY <1>2, <2>1, Answers
  <2> QED BY <1>2, <2>2
<1> QED BY <1>3, <1>4

LEMMA AnswersOne ==
  ASSUME LoginTypeOK, NEW s \in Sides, InOrder(s), InOrder(Other(s)), Pops(s),
         NEW m \in Message,
         Send(s, <<m>>) \/ \E f \in Formats : SendAs(s, f, <<m>>, <<>>)
  PROVE  Took(s) /\ Gains(Other(s), {m})
<1>1. enc[s] \in Formats
  BY DEF LoginTypeOK, FormatTypeOK
<1>2. <<>> \in Seq(Message) /\ Of(<<>>) = {} /\ Rising(<<>>)
  BY RisingOne, OfNone
<1>3. <<m>> \in Seq(Message) /\ Of(<<m>>) = {m} /\ Rising(<<m>>) /\ AllFollow({m}, {})
  BY RisingOne, OfOne DEF AllFollow
<1>4. PICK f \in Formats : SendAs(s, f, <<m>>, <<>>)
  BY <1>1 DEF Send
<1>5. Took(s) /\ Gains(Other(s), Of(<<m>>) \cup Of(<<>>))
  BY <1>2, <1>3, <1>4, Answers
<1> QED BY <1>2, <1>3, <1>5

------------------------------------------------------------------------------
(* A step that handles nothing of the handshake keeps the phase, if what   *)
(* is on its way and what is expected stay, or the receiving goroutine     *)
(* ends.                                                                   *)
Undisturbed ==
  /\ \A s \in Sides : \A m \in OnTheWay(s)' : m \in OnTheWay(s) \/ Idle(m)
  /\ \A m \in OnTheWay("client") : Kind(m) = "StartGame" => m \in OnTheWay("client")'
Attentive ==
  /\ \A s \in Sides : listen'[s] = "done" \/ (listen[s] # "done" /\ expected'[s] = expected[s])
  /\ listen'["client"] = "ready" => listen["client"] = "ready"
  /\ listen["client"] = "frag" => listen'["client"] = "frag"
  /\ closed["server"] => closed'["server"]
Calm == Undisturbed /\ Attentive
Resting ==
  /\ dial' \in {dial, "failed"} \/ (dial = "connecting" /\ dial' = "connected")
  /\ start' = start \/ (start \in Written /\ start' \in Written)
  /\ UNCHANGED <<loggedIn, waitingForSpawn, gameDataReceived>>
  /\ UNCHANGED <<announced, packAmount, downloading, resourcePacks, ignored, dlIndex, frag>>
  /\ \A p \in Packs : dl'[p] = dl[p] \/ (dl[p] \in {"wait", "parse", "last"} /\ dl'[p] = "done")
  /\ currentOffset' = currentOffset \/ listen'["server"] = "done"
  /\ Serving => UNCHANGED <<toDownload, currentPack>>

LEMMA CalmStreams ==
  ASSUME Calm
  PROVE  /\ \A s \in Sides : \A K : Comes(s, K) => Comes(s, K)'
         /\ \A s \in Sides : \A k : Coming(s, k)' => Coming(s, k)
         /\ Coming("client", "StartGame") => Coming("client", "StartGame")'
         /\ \A s \in Sides : \A ids : Expects(s, ids) => Expects(s, ids)'
         /\ ExpectsResponse => ExpectsResponse'
<1>1. "client" \in Sides /\ "server" \in Sides
  BY DEF Sides
<1>2. \A s \in Sides : \A K : Comes(s, K) => Comes(s, K)'
  BY DEF Calm, Undisturbed, Attentive, Comes
<1>3. \A s \in Sides : \A k : Coming(s, k)' => Coming(s, k)
  BY DEF Calm, Undisturbed, Attentive, Coming
<1>4. Coming("client", "StartGame") => Coming("client", "StartGame")'
  BY DEF Calm, Undisturbed, Attentive, Coming
<1>5. \A s \in Sides : \A ids : Expects(s, ids) => Expects(s, ids)'
  BY DEF Calm, Undisturbed, Attentive, Expects
<1>6. ExpectsResponse => ExpectsResponse'
  BY <1>1 DEF Calm, Undisturbed, Attentive, ExpectsResponse
<1> QED BY <1>2, <1>3, <1>4, <1>5, <1>6

LEMMA FreshKept ==
  ASSUME Calm, Resting, Calling \/ Requesting \/ Switching \/ Prepared \/ LoggingIn \/ Shaking
                        \/ Answering \/ Offering \/ Choosing
  PROVE  PhaseInv'
<1>1. "client" \in Sides /\ "server" \in Sides
  BY DEF Sides
<1>2. /\ \A K : (Comes("client", K) => Comes("client", K)')
                /\ (Comes("server", K) => Comes("server", K)')
      /\ \A k : (Coming("client", k)' => Coming("client", k))
                /\ (Coming("server", k)' => Coming("server", k))
      /\ \A ids : /\ Expects("client", ids) => Expects("client", ids)'
                  /\ Expects("server", ids) => Expects("server", ids)'
  BY <1>1, CalmStreams
<1>3. Fresh => Fresh'
  BY DEF Fresh, Resting
<1>4. Connecting => Connecting'
  BY DEF Connecting, Resting
<1>5. (ExpectsLogin => ExpectsLogin') /\ (ExpectsChoice => ExpectsChoice')
      /\ (ExpectsPacks => ExpectsPacks')
  BY <1>2 DEF ExpectsLogin, ExpectsChoice, ExpectsPacks
<1>6. listen["client"] # "ready" => listen'["client"] # "ready"
  BY DEF Calm, Undisturbed, Attentive
<1>7. dial' = dial \/ dial' = "failed" \/ dial = "connecting"
  BY DEF Resting
<1>8. CASE Calling
  BY <1>2, <1>3, <1>7, <1>8 DEF Calling, PhaseInv, Connecting
<1>9. CASE Requesting
  BY <1>2, <1>3, <1>6, <1>7, <1>9 DEF Requesting, PhaseInv, Connecting
<1>10. CASE Switching
  BY <1>2, <1>3, <1>6, <1>7, <1>10 DEF Switching, PhaseInv, Connecting
<1>11. CASE Prepared
  BY <1>2, <1>3, <1>5, <1>7, <1>11 DEF Prepared, PhaseInv, Connecting
<1>12. CASE LoggingIn
  BY <1>2, <1>3, <1>4, <1>5, <1>12 DEF LoggingIn, PhaseInv
<1>13. CASE Shaking
  BY <1>2, <1>3, <1>4, <1>5, <1>13 DEF Shaking, PhaseInv
<1>14. CASE Answering
  BY <1>2, <1>3, <1>4, <1>5, <1>14 DEF Answering, PhaseInv
<1>15. CASE Offering
  BY <1>2, <1>3, <1>4, <1>5, <1>15 DEF Offering, PhaseInv
<1>16. CASE Choosing
  <2>1. \A m \in OnTheWay("server")' : Kind(m) = "SendPacks" => m \in OnTheWay("server")
    BY <1>1, IdleKind DEF Calm, Undisturbed, Attentive
  <2>2. downloading' = downloading /\ announced' = announced
    BY DEF Resting
  <2>3. (\A m \in OnTheWay("server") : Kind(m) = "SendPacks" => m.packs = downloading)'
    BY <1>16, <2>1, <2>2 DEF Choosing
  <2>4. Choosing'
    BY <1>2, <1>3, <1>4, <1>5, <1>16, <2>2, <2>3 DEF Choosing
  <2> QED BY <2>4 DEF PhaseInv
<1> QED BY <1>8, <1>9, <1>10, <1>11, <1>12, <1>13, <1>14, <1>15, <1>16

LEMMA ServingKept ==
  ASSUME LoginTypeOK, Calm, Resting, Serving
  PROVE  Serving'
<1>1. "client" \in Sides /\ "server" \in Sides
  BY DEF Sides
<1>2. /\ \A K : (Comes("client", K) => Comes("client", K)')
                /\ (Comes("server", K) => Comes("server", K)')
      /\ \A k : (Coming("client", k)' => Coming("client", k))
                /\ (Coming("server", k)' => Coming("server", k))
      /\ \A ids : /\ Expects("client", ids) => Expects("client", ids)'
                  /\ Expects("server", ids) => Expects("server", ids)'
  BY <1>1, CalmStreams
<1>3. /\ UNCHANGED <<loggedIn, announced, downloading, resourcePacks, ignored, dlIndex, frag, toDownload,
                     currentPack>>
      /\ \A p \in Packs : dl'[p] = dl[p] \/ (dl[p] \in {"wait", "parse", "last"} /\ dl'[p] = "done")
  BY DEF Resting
<1>4. currentPack \in Packs
  BY DEF Serving
<1>5. ASSUME NEW p, Expecting(p) PROVE Expecting(p)'
  BY <1>3, <1>5 DEF Expecting, Missing
<1>6. \A m \in OnTheWay("client")' :
        Kind(m) \in {"ResourcePackDataInfo", "ResourcePackChunkData"} => m \in OnTheWay("client")
  BY <1>1, IdleKind DEF Calm, Undisturbed, Attentive
<1>7. Downloading'
  <2>1. (\A p \in Packs : dl[p] = "none" => dlIndex[p] = 0)'
    BY <1>3 DEF Serving, Downloading
  <2>2. (\A p \in Packs : dl[p] = "request" => p = currentPack /\ Silent)'
    BY <1>2, <1>3 DEF Serving, Downloading, Silent
  <2>3. ASSUME NEW m \in OnTheWay("client")'
        PROVE  /\ Kind(m) = "ResourcePackDataInfo" =>
                    m.pack = currentPack' /\ dl'[currentPack'] = "none" /\ Missing(currentPack)'
               /\ Kind(m) = "ResourcePackChunkData" => Expecting(m.pack)' /\ frag' = NoPack
    <3>1. CASE Kind(m) = "ResourcePackDataInfo"
      <4>1. m.pack = currentPack /\ dl[currentPack] = "none" /\ Missing(currentPack)
        BY <1>6, <3>1 DEF Serving, Downloading
      <4>2. Missing(currentPack)'
        BY <1>3, <4>1 DEF Missing
      <4> QED BY <1>3, <1>4, <3>1, <4>1, <4>2
    <3>2. CASE Kind(m) = "ResourcePackChunkData"
      <4>1. Expecting(m.pack) /\ frag = NoPack
        BY <1>6, <3>2 DEF Serving, Downloading
      <4> QED BY <1>3, <1>5, <3>2, <4>1
    <3> QED BY <3>1, <3>2
  <2>4. Coming("server", "ResourcePackChunkRequest")' =>
          Expecting(currentPack)' /\ Comes("client", {})' /\ frag' = NoPack
    <3>1. Expecting(currentPack) => Expecting(currentPack)'
      BY <1>3 DEF Expecting, Missing
    <3> QED BY <1>2, <1>3, <3>1 DEF Serving, Downloading
  <2>5. frag' # NoPack => Expecting(frag)' /\ listen'["client"] = "frag"
    <3>1. Expecting(frag) => Expecting(frag)'
      BY <1>3 DEF Expecting, Missing
    <3> QED BY <1>3, <3>1 DEF Serving, Downloading, Calm, Attentive
  <2> QED BY <2>1, <2>2, <2>3, <2>4, <2>5 DEF Downloading
<1>8. listen'["server"] = "done" \/ Uploading'
  <2> SUFFICES ASSUME listen'["server"] # "done" PROVE Uploading'
    OBVIOUS
  <2>1. Uploading /\ expected'["server"] = expected["server"] /\ currentOffset' = currentOffset
    BY <1>1 DEF Serving, Calm, Attentive, Resting
  <2>2. ChunkComing' => ChunkComing
    BY <1>3, <1>6 DEF ChunkComing
  <2>3. Missing(currentPack)' = Missing(currentPack)
    BY <1>3 DEF Missing
  <2>4. \/ dl'[currentPack] = dl[currentPack]
        \/ dl[currentPack] \in {"wait", "parse", "last"} /\ dl'[currentPack] = "done"
    BY <1>3, <1>4
  <2> QED BY <1>2, <1>3, <2>1, <2>2, <2>3, <2>4 DEF Uploading
<1>9. Connecting' /\ ~loggedIn'["server"]
  BY <1>3 DEF Serving, Connecting, Resting
<1>10. ExpectsPacks'
  BY <1>2 DEF Serving, ExpectsPacks
<1>11. \A p \in Packs : dl'[p] # "announce"
  BY <1>3 DEF Serving
<1> QED BY <1>2, <1>3, <1>7, <1>8, <1>9, <1>10, <1>11 DEF Serving

LEMMA LateKept ==
  ASSUME Calm, Resting,
         \/ Announcing \/ Stacking \/ Completing
         \/ Entered \/ Starting \/ Registering \/ Chunking \/ Finishing \/ Joined
  PROVE  PhaseInv'
<1>1. "client" \in Sides /\ "server" \in Sides
  BY DEF Sides
<1>2. /\ \A K : (Comes("client", K) => Comes("client", K)')
                /\ (Comes("server", K) => Comes("server", K)')
      /\ \A k : (Coming("client", k)' => Coming("client", k))
                /\ (Coming("server", k)' => Coming("server", k))
      /\ \A ids : /\ Expects("client", ids) => Expects("client", ids)'
                  /\ Expects("server", ids) => Expects("server", ids)'
      /\ ExpectsResponse => ExpectsResponse'
  BY <1>1, CalmStreams
<1>3. UNCHANGED <<loggedIn, waitingForSpawn, gameDataReceived, announced, packAmount>>
  BY DEF Resting
<1>4. Connecting => Connecting'
  BY DEF Connecting, Resting
<1>5. (ExpectsChoice => ExpectsChoice') /\ (ExpectsSpawn => ExpectsSpawn')
  BY <1>2, <1>3 DEF ExpectsChoice, ExpectsSpawn
<1>6. (Started => Started') /\ (NotSpawned => NotSpawned')
  BY <1>3, <1>4 DEF Started, NotSpawned
<1>7. start' = start \/ (start \in Written /\ start' \in Written)
  BY DEF Resting
<1>8. CASE Announcing
  BY <1>2, <1>3, <1>4, <1>5, <1>8 DEF Announcing, PhaseInv
<1>9. CASE Stacking
  BY <1>2, <1>3, <1>4, <1>9 DEF Stacking, PhaseInv
<1>10. CASE Completing
  BY <1>2, <1>3, <1>4, <1>10 DEF Completing, PhaseInv
<1>11. CASE Entered
  BY <1>2, <1>3, <1>6, <1>7, <1>11 DEF Entered, PhaseInv, Written
<1>12. CASE Starting
  <2>1. Coming("client", "StartGame") => Coming("client", "StartGame")'
    BY CalmStreams
  <2>2. closed["server"] => closed'["server"]
    BY DEF Calm, Undisturbed, Attentive
  <2>3. Starting'
    BY <1>2, <1>5, <1>6, <1>7, <1>12, <2>1, <2>2 DEF Starting, Writing, Written
  <2> QED BY <2>3 DEF PhaseInv
<1>13. CASE Registering
  BY <1>2, <1>5, <1>6, <1>7, <1>13 DEF Registering, PhaseInv, Written
<1>14. CASE Chunking
  BY <1>2, <1>5, <1>6, <1>7, <1>14 DEF Chunking, PhaseInv
<1>15. CASE Finishing
  BY <1>2, <1>3, <1>6, <1>7, <1>15 DEF Finishing, PhaseInv
<1>16. CASE Joined
  BY <1>2, <1>3, <1>6, <1>7, <1>16 DEF Joined, PhaseInv
<1> QED BY <1>8, <1>9, <1>10, <1>11, <1>12, <1>13, <1>14, <1>15, <1>16

LEMMA PhaseKept ==
  ASSUME LoginTypeOK, PhaseInv, Calm, Resting
  PROVE  PhaseInv'
BY FreshKept, ServingKept, LateKept DEF PhaseInv

------------------------------------------------------------------------------
(* The phase a packet of the handshake belongs to, and that it is expected *)
(* then.                                                                   *)

LEMMA ClientPhase ==
  ASSUME PhaseInv, NEW m \in OnTheWay("client"), ~Idle(m)
  PROVE  \/ Requesting /\ Kind(m) = "LoginFailed"
         \/ Switching /\ Kind(m) = "NetworkSettings"
         \/ Shaking /\ Kind(m) = "ServerToClientHandshake"
         \/ Offering /\ Kind(m) \in {"LoginSuccess", "ResourcePacksInfo"}
         \/ Serving /\ Kind(m) \in {"ResourcePackDataInfo", "ResourcePackChunkData"}
         \/ Stacking /\ Kind(m) = "ResourcePackStack"
         \/ Starting /\ Kind(m) \in {"DimensionData", "StartGame", "ItemRegistry"}
         \/ Registering /\ Kind(m) = "ItemRegistry"
         \/ Finishing /\ Kind(m) \in {"ChunkRadiusUpdated", "PlayerSpawn"}
<1>1. \A K : Comes("client", K) => Kind(m) \in K
  BY DEF Comes
<1>2. /\ Requesting => Kind(m) = "LoginFailed"
      /\ Switching => Kind(m) = "NetworkSettings"
      /\ Shaking => Kind(m) = "ServerToClientHandshake"
      /\ Offering => Kind(m) \in {"LoginSuccess", "ResourcePacksInfo"}
  BY <1>1 DEF Requesting, Switching, Shaking, Offering
<1>3. /\ Serving => Kind(m) \in {"ResourcePackDataInfo", "ResourcePackChunkData"}
      /\ Stacking => Kind(m) = "ResourcePackStack"
      /\ Starting => Kind(m) \in {"DimensionData", "StartGame", "ItemRegistry"}
      /\ Registering => Kind(m) = "ItemRegistry"
      /\ Finishing => Kind(m) \in {"ChunkRadiusUpdated", "PlayerSpawn"}
  BY <1>1 DEF Serving, Stacking, Starting, Registering, Finishing
<1>4. ~Calling /\ ~Prepared /\ ~LoggingIn /\ ~Answering /\ ~Choosing /\ ~Announcing /\ ~Completing
  BY <1>1 DEF Calling, Prepared, LoggingIn, Answering, Choosing, Announcing, Completing
<1>5. ~Entered /\ ~Chunking /\ ~Joined
  BY <1>1 DEF Entered, Chunking, Joined
<1> QED BY <1>2, <1>3, <1>4, <1>5 DEF PhaseInv

LEMMA ServerPhase ==
  ASSUME PhaseInv, NEW m \in OnTheWay("server"), ~Idle(m)
  PROVE  \/ Requesting /\ Kind(m) = "RequestNetworkSettings"
         \/ LoggingIn /\ Kind(m) = "Login"
         \/ Answering /\ Kind(m) = "ClientToServerHandshake"
         \/ Offering /\ Kind(m) = "ClientCacheStatus"
         \/ Choosing /\ Kind(m) \in {"ClientCacheStatus", "SendPacks"}
         \/ Serving /\ Kind(m) = "ResourcePackChunkRequest"
         \/ Announcing /\ Kind(m) \in {"ClientCacheStatus", "AllPacksDownloaded"}
         \/ Completing /\ Kind(m) = "Completed"
         \/ Chunking /\ Kind(m) = "RequestChunkRadius"
         \/ Joined /\ Kind(m) = "SetLocalPlayerAsInitialised"
<1>1. \A K : Comes("server", K) => Kind(m) \in K
  BY DEF Comes
<1>2. /\ Requesting => Kind(m) = "RequestNetworkSettings"
      /\ LoggingIn => Kind(m) = "Login"
      /\ Answering => Kind(m) = "ClientToServerHandshake"
      /\ Offering => Kind(m) = "ClientCacheStatus"
      /\ Choosing => Kind(m) \in {"ClientCacheStatus", "SendPacks"}
  BY <1>1 DEF Requesting, LoggingIn, Answering, Offering, Choosing
<1>3. /\ Serving => Kind(m) = "ResourcePackChunkRequest"
      /\ Announcing => Kind(m) \in {"ClientCacheStatus", "AllPacksDownloaded"}
      /\ Completing => Kind(m) = "Completed"
      /\ Chunking => Kind(m) = "RequestChunkRadius"
      /\ Joined => Kind(m) = "SetLocalPlayerAsInitialised"
  BY <1>1 DEF Serving, Announcing, Completing, Chunking, Joined
<1>4. ~Calling /\ ~Switching /\ ~Prepared /\ ~Shaking /\ ~Stacking
  BY <1>1 DEF Calling, Switching, Prepared, Shaking, Stacking
<1>5. ~Entered /\ ~Starting /\ ~Registering /\ ~Finishing
  BY <1>1 DEF Entered, Starting, Registering, Finishing
<1> QED BY <1>2, <1>3, <1>4, <1>5 DEF PhaseInv

LEMMA HeadFirst ==
  ASSUME StreamTypeOK, NEW s \in Sides, InOrder(s), inbox[s] # <<>>
  PROVE  /\ pk(s) \in OnTheWay(s) /\ pk(s) \in Message
         /\ \A m \in OnTheWay(s) : m = pk(s) \/ Follows(pk(s), m)
<1> DEFINE q == inbox[s]
           t == Tail(q)
           h == Head(q)
           later == InNet(net[s]) \cup Of(buffered[Other(s)])
<1>1. q \in Seq(Message) /\ q # <<>> /\ Rising(q)
  BY DEF StreamTypeOK, InOrder
<1>2. /\ \A m \in Of(t) : Follows(h, m)
      /\ Of(q) \subseteq Of(t) \cup {h} /\ h \in Of(q) /\ h \in Message
  BY <1>1, RisingTail, OfParts
<1>3. pk(s) = h
  BY DEF pk
<1> HIDE DEF t, h
<1>4. \A m \in later : Follows(h, m)
  BY <1>2 DEF InOrder, AllFollow
<1>5. OnTheWay(s) = Of(q) \cup later
  BY DEF OnTheWay
<1> HIDE DEF q, later
<1> QED BY <1>2, <1>3, <1>4, <1>5

LEMMA ClientExpects ==
  ASSUME LoginInv, Flow, Received("client"), ~Idle(pk("client"))
  PROVE  ~ToApplication("client") /\ pk("client").id \in expected["client"]
<1> DEFINE m == pk("client")
<1> SUFFICES ~ToApplication("client") /\ m.id \in expected["client"]
  OBVIOUS
<1>1. "client" \in Sides /\ inbox["client"] # <<>> /\ listen["client"] # "done"
  BY DEF Sides, Received
<1>2. m \in OnTheWay("client") /\ m \in Message
  BY <1>1, HeadFirst DEF LoginInv, LoginTypeOK, Flow
<1>3. \A n \in OnTheWay("client") : n = m \/ Follows(m, n)
  BY <1>1, HeadFirst DEF LoginInv, LoginTypeOK, Flow
<1>4. \A ids : Expects("client", ids) => expected["client"] = ids
  BY <1>1 DEF Expects
<1>5. ~loggedIn["server"] => ~loggedIn["client"]
  BY DEF LoginInv, SpawnInv, ClientSpawnInv
<1>6. /\ Kind(m) \in Statuses => m.id = "PlayStatus"
      /\ Kind(m) \notin Statuses \cup Responses => m.id = Kind(m)
  BY <1>2, KindOf
<1> HIDE DEF m
<1>7. CASE Requesting /\ Kind(m) = "LoginFailed"
  BY <1>4, <1>5, <1>6, <1>7 DEF Requesting, Fresh, Statuses, ToApplication
<1>8. CASE Switching /\ Kind(m) = "NetworkSettings"
  BY <1>4, <1>5, <1>6, <1>8 DEF Switching, Fresh, Statuses, Responses, ToApplication
<1>9. CASE Shaking /\ Kind(m) = "ServerToClientHandshake"
  BY <1>4, <1>5, <1>6, <1>9 DEF Shaking, ExpectsLogin, Fresh, Statuses, Responses, ToApplication
<1>10. CASE Offering /\ Kind(m) \in {"LoginSuccess", "ResourcePacksInfo"}
  BY <1>4, <1>5, <1>6, <1>10 DEF Offering, ExpectsLogin, Fresh, Statuses, Responses, ToApplication
<1>11. CASE Serving /\ Kind(m) \in {"ResourcePackDataInfo", "ResourcePackChunkData"}
  BY <1>4, <1>5, <1>6, <1>11 DEF Serving, ExpectsPacks, Statuses, Responses, ToApplication
<1>12. CASE Stacking /\ Kind(m) = "ResourcePackStack"
  BY <1>4, <1>5, <1>6, <1>12 DEF Stacking, Statuses, Responses, ToApplication
<1>13. CASE Starting /\ Kind(m) \in {"DimensionData", "StartGame", "ItemRegistry"}
  <2>1. ~Idle(m)
    BY DEF m
  <2>2. ASSUME Kind(m) = "ItemRegistry" PROVE FALSE
    <3>1. Coming("client", "ItemRegistry")
      BY <1>2, <2>1, <2>2 DEF Coming, m
    <3>2. PICK n \in OnTheWay("client") : ~Idle(n) /\ Kind(n) = "StartGame"
      BY <1>13, <3>1 DEF Starting, Coming
    <3> QED BY <1>3, <2>1, <2>2, <3>2 DEF Follows, Precedes
  <2> QED BY <1>4, <1>6, <1>13, <2>2 DEF Starting, NotSpawned, Statuses, Responses, ToApplication
<1>14. CASE Registering /\ Kind(m) = "ItemRegistry"
  BY <1>4, <1>6, <1>14 DEF Registering, NotSpawned, Statuses, Responses, ToApplication
<1>15. CASE Finishing /\ Kind(m) \in {"ChunkRadiusUpdated", "PlayerSpawn"}
  <2>1. Comes("client", {"PlayerSpawn"}) => Kind(m) = "PlayerSpawn"
    BY <1>2 DEF Comes, m
  <2> QED BY <1>4, <1>6, <1>15, <2>1 DEF Finishing, Statuses, Responses, ToApplication
<1>16. Flow => PhaseInv
  BY DEF Flow
<1> QED BY <1>2, <1>7, <1>8, <1>9, <1>10, <1>11, <1>12, <1>13, <1>14, <1>15, <1>16, ClientPhase DEF m

LEMMA ServerExpects ==
  ASSUME LoginInv, Flow, Received("server"), ~Idle(pk("server"))
  PROVE  ~ToApplication("server") /\ pk("server").id \in expected["server"]
<1> DEFINE m == pk("server")
<1> SUFFICES ~ToApplication("server") /\ m.id \in expected["server"]
  OBVIOUS
<1>1. "server" \in Sides /\ inbox["server"] # <<>> /\ listen["server"] # "done"
  BY DEF Sides, Received
<1>2. m \in OnTheWay("server") /\ m \in Message
  BY <1>1, HeadFirst DEF LoginInv, LoginTypeOK, Flow
<1>3. \A k : Kind(m) = k => Coming("server", k)
  BY <1>2 DEF Coming
<1>4. /\ \A ids : Expects("server", ids) => expected["server"] = ids
      /\ ExpectsResponse => "ResourcePackClientResponse" \in expected["server"]
  BY <1>1 DEF Expects, ExpectsResponse
<1>5. /\ Kind(m) \in Responses => m.id = "ResourcePackClientResponse"
      /\ Kind(m) \notin Statuses \cup Responses => m.id = Kind(m)
  BY <1>2, KindOf
<1> HIDE DEF m
<1>6. CASE Requesting /\ Kind(m) = "RequestNetworkSettings"
  BY <1>4, <1>5, <1>6 DEF Requesting, Fresh, Statuses, Responses, ToApplication
<1>7. CASE LoggingIn /\ Kind(m) = "Login"
  BY <1>4, <1>5, <1>7 DEF LoggingIn, Fresh, Statuses, Responses, ToApplication
<1>8. CASE Answering /\ Kind(m) = "ClientToServerHandshake"
  BY <1>4, <1>5, <1>8 DEF Answering, Fresh, Statuses, Responses, ToApplication
<1>9. CASE Offering /\ Kind(m) = "ClientCacheStatus"
  BY <1>4, <1>5, <1>9 DEF Offering, ExpectsChoice, Fresh, Statuses, Responses, ToApplication
<1>10. CASE Choosing /\ Kind(m) \in {"ClientCacheStatus", "SendPacks"}
  BY <1>4, <1>5, <1>10 DEF Choosing, ExpectsChoice, Fresh, Statuses, Responses, ToApplication
<1>11. CASE Serving /\ Kind(m) = "ResourcePackChunkRequest"
  <2>1. Uploading /\ currentOffset < ChunkCount
    BY <1>1, <1>3, <1>11 DEF Serving, Uploading
  <2>2. currentOffset # ChunkCount
    BY <2>1, LoginAssumption DEF LoginInv, LoginTypeOK, PackTypeOK
  <2>3. expected["server"] = {"ResourcePackChunkRequest"}
    BY <2>1, <2>2 DEF Uploading
  <2> QED BY <1>5, <1>11, <2>3 DEF Serving, Statuses, Responses, ToApplication
<1>12. CASE Announcing /\ Kind(m) \in {"ClientCacheStatus", "AllPacksDownloaded"}
  BY <1>3, <1>4, <1>5, <1>12 DEF Announcing, ExpectsChoice, Statuses, Responses, ToApplication
<1>13. CASE Completing /\ Kind(m) = "Completed"
  BY <1>4, <1>5, <1>13 DEF Completing, Statuses, Responses, ToApplication
<1>14. CASE Chunking /\ Kind(m) = "RequestChunkRadius"
  BY <1>4, <1>5, <1>14 DEF Chunking, ExpectsSpawn, Statuses, Responses, ToApplication
<1>15. CASE Joined /\ Kind(m) = "SetLocalPlayerAsInitialised"
  BY <1>3, <1>4, <1>5, <1>15 DEF Joined, Statuses, Responses, ToApplication
<1>16. Flow => PhaseInv
  BY DEF Flow
<1> QED BY <1>2, <1>6, <1>7, <1>8, <1>9, <1>10, <1>11, <1>12, <1>13, <1>14, <1>15, <1>16,
           ServerPhase DEF m

------------------------------------------------------------------------------
(* What keeps the phase. *)

LEMMA Keeping ==
  ASSUME LoginInv, Flow, Undisturbed, Attentive, Resting, InOrder("client")', InOrder("server")'
  PROVE  Flow'
BY PhaseKept DEF LoginInv, Flow, Calm

LEMMA StayAttentive ==
  ASSUME CallTypeOK, UNCHANGED expected, \A s \in Sides : closed[s] => closed'[s],
         UNCHANGED listen \/ \E s \in Sides : \E l : listen' = [listen EXCEPT ![s] = l]
                                                     /\ listen[s] \notin {"done", "frag"} /\ l # "ready"
  PROVE  Attentive
<1>1. "client" \in Sides /\ "server" \in Sides
  BY DEF Sides
<1>2. CASE UNCHANGED listen
  BY <1>1, <1>2 DEF Attentive
<1>3. CASE \E s \in Sides : \E l : listen' = [listen EXCEPT ![s] = l]
                                   /\ listen[s] \notin {"done", "frag"} /\ l # "ready"
  BY <1>1, <1>3 DEF Attentive, CallTypeOK
<1> QED BY <1>2, <1>3

LEMMA EndAttentive ==
  ASSUME CallTypeOK, NEW s \in Sides, NEW ids, Ends(s), listen[s] = "run",
         expect(s, ids) \/ UNCHANGED expected
  PROVE  Attentive
<1>1. "client" \in Sides /\ "server" \in Sides
  BY DEF Sides
<1>2. listen'[s] = "done" /\ \A t \in Sides : t # s => listen'[t] = listen[t]
  BY DEF Ends, CallTypeOK
<1>3. \A t \in Sides : t # s => expected'[t] = expected[t]
  BY DEF expect, CallTypeOK
<1>4. \A t \in Sides : closed[t] => closed'[t]
  BY DEF Ends, CallTypeOK
<1> QED BY <1>1, <1>2, <1>3, <1>4 DEF Attentive

LEMMA GainsQuietly ==
  ASSUME Gains("client", {}), Gains("server", {})
  PROVE  Undisturbed /\ InOrder("client")' /\ InOrder("server")'
BY DEF Gains, AllFollow, Undisturbed, Sides

LEMMA TookQuietly ==
  ASSUME NEW s \in Sides, Took(s), NEW new, Gains(Other(s), new), \A m \in new : Idle(m),
         s = "client" => Kind(pk("client")) # "StartGame"
  PROVE  Undisturbed /\ InOrder("client")' /\ InOrder("server")'
<1>1. Sides = {s, Other(s)} /\ Other(s) \in Sides /\ "client" \in Sides /\ "server" \in Sides
  BY OtherSide DEF Sides
<1>2. AllFollow(OnTheWay(Other(s)), new)
  BY DEF AllFollow, Follows
<1>3. InOrder(s)' /\ InOrder(Other(s))'
  BY <1>2 DEF Took, Gains
<1>4. \A t \in Sides : \A m \in OnTheWay(t)' : m \in OnTheWay(t) \/ Idle(m)
  <2>1. \A m \in OnTheWay(s)' : m \in OnTheWay(s) \/ Idle(m)
    BY DEF Took
  <2>2. \A m \in OnTheWay(Other(s))' : m \in OnTheWay(Other(s)) \/ Idle(m)
    BY DEF Gains
  <2> QED BY <1>1, <2>1, <2>2
<1>5. \A m \in OnTheWay("client") : Kind(m) = "StartGame" => m \in OnTheWay("client")'
  <2>1. CASE s = "client"
    BY <2>1 DEF Took
  <2>2. CASE Other(s) = "client"
    BY <2>2 DEF Gains
  <2> QED BY <1>1, <2>1, <2>2
<1>6. (s = "client" /\ Other(s) = "server") \/ (s = "server" /\ Other(s) = "client")
  BY DEF Sides, Other
<1> QED BY <1>3, <1>4, <1>5, <1>6 DEF Undisturbed

LEMMA SendsCalm ==
  ASSUME LoginTypeOK, NEW s \in Sides, InOrder("client"), InOrder("server"), inbox' = inbox,
         Send(s, <<>>)
  PROVE  Gains("client", {}) /\ Gains("server", {})
<1>1. StreamTypeOK /\ enc[s] \in Formats
  BY DEF LoginTypeOK, FormatTypeOK
<1>2. <<>> \in Seq(Message) /\ Of(<<>>) = {} /\ Rising(<<>>) /\ AllFollow({}, {})
  BY RisingOne, OfNone DEF AllFollow
<1>3. SendAs(s, enc[s], <<>>, <<>>)
  BY DEF Send
<1>4. (s = "client" /\ Other(s) = "server") \/ (s = "server" /\ Other(s) = "client")
  BY DEF Sides, Other
<1>5. net'[s] = net[s] /\ buffered'[Other(s)] = buffered[Other(s)]
  BY <1>1, <1>3, SendKeeps
<1>6. InOrder(s) /\ InOrder(Other(s))
  BY <1>4
<1>7. Gains(s, {})
  BY <1>5, <1>6, GainsNothing
<1>8. Gains(Other(s), Of(<<>>) \cup Of(<<>>))
  BY <1>1, <1>2, <1>3, <1>6, GainsSend
<1> QED BY <1>2, <1>4, <1>7, <1>8

(* The receiving goroutine between two packets of the handshake. *)
LEMMA ReceiverFlow ==
  ASSUME LoginInv, Flow, NEW s \in Sides,
         DecodeFunc(s) \/ ReadFails(s) \/ Tick(s) \/ Drop(s)
  PROVE  Flow'
<1> USE DEF sendVars, formatVars, spawnVars, packVars, queueVars, callVars
<1>1. LoginTypeOK /\ StreamTypeOK /\ CallTypeOK /\ InOrder("client") /\ InOrder("server")
  BY DEF LoginInv, LoginTypeOK, Flow
<1>2. (s = "client" /\ Other(s) = "server") \/ (s = "server" /\ Other(s) = "client")
  BY DEF Sides, Other
<1>3. Resting
  BY DEF Resting, DecodeFunc, ReadFails, Tick, Drop, Ends
<1>4. CASE DecodeFunc(s)
  <2>1. Gains(s, {})
    BY <1>1, <1>2, <1>4, GainsDecode
  <2>2. /\ inbox'[Other(s)] = inbox[Other(s)] /\ net'[Other(s)] = net[Other(s)]
        /\ buffered' = buffered
    BY <1>1, <1>2, <1>4 DEF DecodeFunc, StreamTypeOK, Sides
  <2>3. Gains(Other(s), {})
    BY <1>1, <1>2, <2>2, GainsNothing
  <2>4. Attentive
    BY <1>1, <1>4, StayAttentive DEF DecodeFunc
  <2> QED BY <1>2, <1>3, <2>1, <2>3, <2>4, GainsQuietly, Keeping
<1>5. CASE ReadFails(s)
  <2>1. Gains("client", {}) /\ Gains("server", {})
    BY <1>1, <1>5, SendsCalm DEF ReadFails
  <2>2. Attentive
    BY <1>1, <1>5, EndAttentive DEF ReadFails
  <2> QED BY <1>3, <2>1, <2>2, GainsQuietly, Keeping
<1>6. CASE Tick(s)
  <2>1. Gains("client", {}) /\ Gains("server", {})
    BY <1>1, <1>6, SendsCalm DEF Tick
  <2>2. Attentive
    BY <1>1, <1>6, StayAttentive DEF Tick
  <2> QED BY <1>3, <2>1, <2>2, GainsQuietly, Keeping
<1>7. CASE Drop(s)
  <2>1. Gains("client", {}) /\ Gains("server", {})
    BY <1>1, <1>7, GainsNothing DEF Drop
  <2>2. \A t \in Sides : closed[t] => closed'[t]
    BY <1>1, <1>7 DEF Drop, CallTypeOK
  <2>3. Attentive
    BY <1>1, <1>7, <2>2, StayAttentive DEF Drop
  <2> QED BY <1>3, <2>1, <2>3, GainsQuietly, Keeping
<1> QED BY <1>4, <1>5, <1>6, <1>7

(* A packet that is left to the application is not of the handshake. *)
LEMMA DeferFlow ==
  ASSUME LoginInv, Flow, NEW s \in Sides, deferPacket(s)
  PROVE  Flow' /\ Idle(pk(s))
<1> USE DEF sendVars, formatVars, spawnVars, packVars, queueVars, callVars
<1>1. LoginTypeOK /\ CallTypeOK /\ InOrder("client") /\ InOrder("server")
  BY DEF LoginInv, LoginTypeOK, Flow
<1>2. (s = "client" /\ Other(s) = "server") \/ (s = "server" /\ Other(s) = "client")
  BY DEF Sides, Other
<1>3. Idle(pk(s))
  BY <1>2, ClientExpects, ServerExpects DEF deferPacket
<1>4. Pops(s)
  BY DEF deferPacket, Received, Pops
<1>5. Took(s) /\ Gains(Other(s), {})
  BY <1>1, <1>2, <1>4, AnswersNone DEF deferPacket
<1>6. Undisturbed /\ InOrder("client")' /\ InOrder("server")'
  BY <1>3, <1>5, TookQuietly, IdleKind
<1>7. Resting
  BY DEF Resting, deferPacket
<1>8. Attentive
  BY <1>1, StayAttentive DEF deferPacket
<1> QED BY <1>3, <1>6, <1>7, <1>8, Keeping

LEMMA DisconnectFlow ==
  ASSUME LoginInv, Flow, NEW s \in Sides, receiveDisconnect(s)
  PROVE  Flow'
<1> USE DEF sendVars, formatVars, spawnVars, packVars, queueVars, callVars
<1>1. LoginTypeOK /\ CallTypeOK /\ InOrder("client") /\ InOrder("server")
  BY DEF LoginInv, LoginTypeOK, Flow
<1>2. (s = "client" /\ Other(s) = "server") \/ (s = "server" /\ Other(s) = "client")
  BY DEF Sides, Other
<1>3. Idle(pk(s))
  BY DEF receiveDisconnect, Idle
<1>4. Pops(s)
  BY DEF receiveDisconnect, Received, Pops
<1>5. Took(s) /\ Gains(Other(s), {})
  BY <1>1, <1>2, <1>4, AnswersNone DEF receiveDisconnect
<1>6. Undisturbed /\ InOrder("client")' /\ InOrder("server")'
  BY <1>3, <1>5, TookQuietly, IdleKind
<1>7. Resting
  BY DEF Resting, receiveDisconnect
<1>8. \A t \in Sides : closed[t] => closed'[t]
  BY <1>1 DEF receiveDisconnect, CallTypeOK
<1>9. Attentive
  BY <1>1, <1>8, StayAttentive DEF receiveDisconnect
<1> QED BY <1>6, <1>7, <1>9, Keeping

(* A handler that fails. *)
LEMMA FailsFlow ==
  ASSUME LoginInv, Flow, NEW s \in Sides, NEW id, Handle(s, id), id # "StartGame", NEW ids,
         \/ FailsExpecting(s, ids, <<>>)
         \/ FailsExpecting(s, ids, <<Pk("Disconnect")>>),
         Serving => UNCHANGED <<toDownload, currentPack>>,
         UNCHANGED currentOffset \/ s = "server"
  PROVE  Flow'
<1> USE DEF sendVars, formatVars, spawnVars, packVars
<1>1. LoginTypeOK /\ CallTypeOK /\ InOrder("client") /\ InOrder("server")
  BY DEF LoginInv, LoginTypeOK, Flow
<1>2. (s = "client" /\ Other(s) = "server") \/ (s = "server" /\ Other(s) = "client")
  BY DEF Sides, Other
<1>3. Pops(s) /\ pk(s).id = id
  BY DEF Handle, Received, Pops
<1>4. Pk("Disconnect") \in Message /\ Idle(Pk("Disconnect"))
  BY Messages, Kinds DEF Ids, Idle
<1>5. \E new : Took(s) /\ Gains(Other(s), new) /\ \A m \in new : Idle(m)
  <2>1. CASE FailsExpecting(s, ids, <<>>)
    BY <1>1, <1>2, <1>3, <2>1, AnswersNone DEF FailsExpecting
  <2>2. CASE FailsExpecting(s, ids, <<Pk("Disconnect")>>)
    <3>1. Took(s) /\ Gains(Other(s), {Pk("Disconnect")})
      BY <1>1, <1>2, <1>3, <1>4, <2>2, AnswersOne DEF FailsExpecting
    <3> QED BY <1>4, <3>1
  <2> QED BY <2>1, <2>2
<1>6. Kind(pk(s)) # "StartGame"
  BY <1>3 DEF Kind, Statuses, Responses
<1>7. Undisturbed /\ InOrder("client")' /\ InOrder("server")'
  BY <1>5, <1>6, TookQuietly
<1>8. listen'["server"] = "done" \/ currentOffset' = currentOffset
  BY <1>1 DEF FailsExpecting, Ends, CallTypeOK
<1>9. Resting
  BY <1>8 DEF Resting, FailsExpecting
<1>10. Attentive
  BY <1>1, EndAttentive DEF FailsExpecting, Handle, Received
<1> QED BY <1>7, <1>9, <1>10, Keeping

------------------------------------------------------------------------------
(* The handlers. *)

LEMMA TookLeaves ==
  ASSUME NEW s, Took(s), ~Idle(pk(s))
  PROVE  /\ \A K : Comes(s, K) => Comes(s, K)'
         /\ \A k : Coming(s, k)' => Coming(s, k)
         /\ \A K : (\A k : Precedes(Kind(pk(s)), k) => k \in K) => Comes(s, K)'
         /\ Coming(s, Kind(pk(s)))
         /\ InOrder(s)'
<1>1. \A m \in OnTheWay(s)' : Idle(m) \/ Precedes(Kind(pk(s)), Kind(m))
  BY DEF Took, Follows
<1>2. \A K : (\A k : Precedes(Kind(pk(s)), k) => k \in K) => Comes(s, K)'
  BY <1>1 DEF Comes
<1>3. \A K : Comes(s, K) => Comes(s, K)'
  BY DEF Took, Comes
<1>4. \A k : Coming(s, k)' => Coming(s, k)
  BY DEF Took, Coming
<1>5. Coming(s, Kind(pk(s))) /\ InOrder(s)'
  BY DEF Took, Coming
<1> QED BY <1>2, <1>3, <1>4, <1>5

LEMMA GainsNone ==
  ASSUME NEW s, Gains(s, {})
  PROVE  /\ \A K : Comes(s, K) => Comes(s, K)'
         /\ \A k : Coming(s, k)' => Coming(s, k)
         /\ InOrder(s)'
<1>1. \A K : Comes(s, K) => Comes(s, K)'
  BY DEF Gains, Comes
<1>2. \A k : Coming(s, k)' => Coming(s, k)
  BY DEF Gains, Coming
<1>3. InOrder(s)'
  BY DEF Gains, AllFollow
<1> QED BY <1>1, <1>2, <1>3

LEMMA GainsFirst ==
  ASSUME NEW s, NEW new, Gains(s, new), Comes(s, {})
  PROVE  /\ InOrder(s)' /\ Comes(s, {Kind(m) : m \in new})'
         /\ \A m \in OnTheWay(s)' : Idle(m) \/ m \in new
<1>1. \A m \in OnTheWay(s) : Idle(m)
  BY DEF Comes
<1>2. AllFollow(OnTheWay(s), new)
  BY <1>1 DEF AllFollow, Follows
<1>3. \A m \in OnTheWay(s)' : Idle(m) \/ m \in new
  BY <1>1 DEF Gains
<1>4. Comes(s, {Kind(m) : m \in new})'
  BY <1>3 DEF Comes
<1> QED BY <1>2, <1>3, <1>4 DEF Gains

LEMMA GainsOne ==
  ASSUME NEW s, NEW r, NEW k, Gains(s, {r}), Comes(s, {}), Kind(r) = k
  PROVE  InOrder(s)' /\ Comes(s, {k})'
<1>1. InOrder(s)' /\ \A m \in OnTheWay(s)' : Idle(m) \/ m \in {r}
  BY GainsFirst
<1> QED BY <1>1 DEF Comes

LEMMA ExpectKeeps ==
  ASSUME CallTypeOK, NEW s \in Sides, NEW ids, expect(s, ids), UNCHANGED listen
  PROVE  /\ Expects(s, ids)' /\ expected'[s] = ids
         /\ \A x : Expects(Other(s), x) => Expects(Other(s), x)'
<1>1. Other(s) \in Sides /\ Other(s) # s
  BY OtherSide
<1>2. expected'[s] = ids /\ expected'[Other(s)] = expected[Other(s)]
  BY <1>1 DEF expect, CallTypeOK
<1> QED BY <1>2 DEF Expects

(* The packet a handler takes. *)
LEMMA HandlerHead ==
  ASSUME LoginInv, Flow, NEW s \in Sides, NEW id \in ServerHandled \cup ClientHandled, Handle(s, id)
  PROVE  /\ Pops(s) /\ pk(s) \in OnTheWay(s) /\ pk(s) \in Message
         /\ ~Idle(pk(s)) /\ pk(s).id = id /\ listen[s] = "run" /\ id \in expected[s]
         /\ id \notin {"ResourcePackClientResponse", "PlayStatus"} => Kind(pk(s)) = id
         /\ id = "ResourcePackClientResponse" /\ pk(s).arg \in Responses => Kind(pk(s)) = pk(s).arg
         /\ id = "PlayStatus" /\ pk(s).arg \in Statuses => Kind(pk(s)) = pk(s).arg
<1>1. StreamTypeOK /\ InOrder(s)
  BY DEF Sides, LoginInv, LoginTypeOK, Flow
<1>2. Pops(s) /\ pk(s).id = id /\ listen[s] = "run" /\ id \in expected[s]
  BY DEF Handle, Received, Pops
<1>3. pk(s) \in OnTheWay(s) /\ pk(s) \in Message
  BY <1>1, <1>2, HeadFirst DEF Pops
<1>4. ~Idle(pk(s))
  BY <1>2 DEF Idle, ServerHandled, ClientHandled
<1>5. /\ id \notin {"ResourcePackClientResponse", "PlayStatus"} => Kind(pk(s)) = id
      /\ id = "ResourcePackClientResponse" /\ pk(s).arg \in Responses => Kind(pk(s)) = pk(s).arg
      /\ id = "PlayStatus" /\ pk(s).arg \in Statuses => Kind(pk(s)) = pk(s).arg
  BY <1>2 DEF Kind
<1> QED BY <1>2, <1>3, <1>4, <1>5

LEMMA SettingsFlow ==
  ASSUME LoginInv, Flow, handleRequestNetworkSettings
  PROVE  Flow'
<1> USE DEF sendVars, formatVars, spawnVars, packVars, queueVars, callVars
<1> DEFINE m == pk("server")
<1>1. /\ LoginTypeOK /\ CallTypeOK /\ InOrder("client") /\ InOrder("server") /\ PhaseInv
      /\ "server" \in Sides /\ Other("server") = "client"
  BY DEF LoginInv, LoginTypeOK, Flow, Sides, Other
<1>2. Handle("server", "RequestNetworkSettings")
  BY DEF handleRequestNetworkSettings
<1>3. Pops("server") /\ m \in OnTheWay("server") /\ ~Idle(m) /\ Kind(m) = "RequestNetworkSettings"
  BY <1>1, <1>2, HandlerHead DEF ServerHandled
<1>4. Requesting
  BY <1>1, <1>3, ServerPhase
<1>5. Coming("server", "RequestNetworkSettings")
  BY <1>3 DEF Coming
<1>6. Comes("client", {})
  <2>1. ~Comes("server", {})
    BY <1>3 DEF Comes
  <2>2. ~Coming("client", "LoginFailed")
    BY <1>4, <2>1 DEF Requesting
  <2> QED BY <1>4, <2>2 DEF Requesting, Comes, Coming
<1>7. ASSUME Took("server") PROVE Comes("server", {})' /\ InOrder("server")'
  BY <1>3, <1>7, TookLeaves DEF Precedes
<1>8. CASE SendNetworkSettings
  <2>1. Pk("NetworkSettings") \in Message /\ Kind(Pk("NetworkSettings")) = "NetworkSettings"
    BY Messages, Kinds DEF Ids, ClientHandled
  <2>2. Took("server") /\ Gains("client", {Pk("NetworkSettings")})
    BY <1>1, <1>3, <1>8, <2>1, AnswersOne DEF SendNetworkSettings
  <2>3. InOrder("client")' /\ Comes("client", {"NetworkSettings"})'
    BY <1>6, <2>1, <2>2, GainsOne
  <2>4. /\ Expects("server", {"Login"})'
        /\ \A x : Expects("client", x) => Expects("client", x)'
    BY <1>1, <1>8, ExpectKeeps DEF SendNetworkSettings
  <2>5. Fresh' /\ dial' = dial /\ listen' = listen
    BY <1>4, <1>8 DEF Requesting, Fresh, SendNetworkSettings
  <2>6. Switching'
    BY <1>4, <1>7, <2>2, <2>3, <2>4, <2>5 DEF Requesting, Switching
  <2> QED BY <1>7, <2>2, <2>3, <2>6 DEF Flow, PhaseInv
<1>9. CASE WriteFails("server", {"Login"}) /\ UNCHANGED queueVars
  BY <1>1, <1>2, <1>9, FailsFlow DEF WriteFails
<1>10. CASE HandlerFails("server", <<Status("LoginFailed")>>)
  <2>1. Status("LoginFailed") \in Message /\ Kind(Status("LoginFailed")) = "LoginFailed"
    BY Messages, Kinds DEF Args, Statuses
  <2>2. Took("server") /\ Gains("client", {Status("LoginFailed")})
    BY <1>1, <1>3, <1>10, <2>1, AnswersOne DEF HandlerFails, FailsExpecting
  <2>3. InOrder("client")' /\ Comes("client", {"LoginFailed"})'
    BY <1>6, <2>1, <2>2, GainsOne
  <2>4. /\ listen'["server"] = "done" /\ listen'["client"] = listen["client"]
        /\ expected'["client"] = expected["client"]
    BY <1>1, <1>10 DEF HandlerFails, FailsExpecting, Ends, expect, CallTypeOK, Sides
  <2>5. Fresh' /\ dial' = dial
    BY <1>4, <1>10 DEF Requesting, Fresh, HandlerFails, FailsExpecting
  <2>6. \A K : Comes("server", {})' => Comes("server", K)'
    BY DEF Comes
  <2>7. Requesting'
    BY <1>4, <1>7, <2>2, <2>3, <2>4, <2>5, <2>6 DEF Requesting, Expects
  <2> QED BY <1>7, <2>2, <2>3, <2>7 DEF Flow, PhaseInv
<1> QED BY <1>8, <1>9, <1>10 DEF handleRequestNetworkSettings

LEMMA OfferFlow ==
  ASSUME LoginInv, Flow, NEW id \in {"Login", "ClientToServerHandshake"}, Handle("server", id),
         OfferPacks, LoggingIn \/ Answering
  PROVE  Flow'
<1> USE DEF sendVars, formatVars, spawnVars, packVars, queueVars, callVars
<1> DEFINE m == pk("server")
           ids == {"ResourcePackClientResponse", "ClientCacheStatus"}
<1>1. /\ LoginTypeOK /\ CallTypeOK /\ InOrder("client") /\ InOrder("server") /\ PhaseInv
      /\ "server" \in Sides /\ Other("server") = "client"
  BY DEF LoginInv, LoginTypeOK, Flow, Sides, Other
<1>2. Pops("server") /\ m \in OnTheWay("server") /\ ~Idle(m) /\ Kind(m) = id
  BY <1>1, HandlerHead DEF ServerHandled
<1>3. CASE WriteFails("server", ids) /\ UNCHANGED queueVars
  BY <1>1, <1>3, FailsFlow DEF WriteFails
<1>4. CASE /\ expect("server", ids)
           /\ Send("server", <<Status("LoginSuccess"), Pk("ResourcePacksInfo")>>)
           /\ UNCHANGED <<formatVars, listen, spawnVars, closed, packVars, frag, queueVars, callVars>>
  <2>1. /\ Kind(Status("LoginSuccess")) = "LoginSuccess"
        /\ Kind(Pk("ResourcePacksInfo")) = "ResourcePacksInfo"
    BY Kinds DEF Statuses
  <2>2. Rising(Offer) /\ Rising(<<>>) /\ <<>> \in Seq(Message) /\ Of(<<>>) = {}
    BY <2>1, RisingOne, OfNone DEF Offer, Follows, Precedes
  <2>3. SendAs("server", enc["server"], Offer, <<>>) /\ enc["server"] \in Formats
    BY <1>1, <1>4 DEF Send, Offer, LoginTypeOK, FormatTypeOK
  <2>4. Took("server") /\ Gains("client", Of(Offer) \cup Of(<<>>))
    BY <1>1, <1>2, <2>2, <2>3, OfOffer, Answers DEF AllFollow
  <2>5. Took("server") /\ Gains("client", {Status("LoginSuccess"), Pk("ResourcePacksInfo")})
    BY <2>2, <2>4, OfOffer
  <2>6. Comes("client", {})
    BY DEF LoggingIn, Answering
  <2>7. InOrder("client")' /\ Comes("client", {"LoginSuccess", "ResourcePacksInfo"})'
    <3>1. /\ InOrder("client")'
          /\ \A n \in OnTheWay("client")' :
               Idle(n) \/ n \in {Status("LoginSuccess"), Pk("ResourcePacksInfo")}
      BY <2>5, <2>6, GainsFirst
    <3> QED BY <2>1, <3>1 DEF Comes
  <2>8. Comes("server", {})' /\ InOrder("server")'
    BY <1>2, <2>5, TookLeaves DEF Precedes
  <2>9. Comes("server", {"ClientCacheStatus"})'
    BY <2>8 DEF Comes
  <2>10. Expects("server", ids)' /\ \A x : Expects("client", x) => Expects("client", x)'
    BY <1>1, <1>4, ExpectKeeps
  <2>11. Fresh' /\ Connecting' /\ ExpectsLogin
    BY <1>4 DEF LoggingIn, Answering, Fresh, Connecting
  <2>12. ExpectsLogin' /\ ExpectsChoice'
    BY <2>10, <2>11 DEF ExpectsLogin, ExpectsChoice
  <2>13. Offering'
    BY <2>7, <2>8, <2>9, <2>11, <2>12 DEF Offering
  <2> QED BY <2>7, <2>8, <2>13 DEF Flow, PhaseInv
<1> QED BY <1>3, <1>4 DEF OfferPacks

LEMMA LoginFlow ==
  ASSUME LoginInv, Flow, handleLogin
  PROVE  Flow'
<1> USE DEF sendVars, formatVars, spawnVars, packVars, queueVars, callVars
<1> DEFINE m == pk("server")
<1>1. /\ LoginTypeOK /\ CallTypeOK /\ InOrder("client") /\ InOrder("server") /\ PhaseInv
      /\ "server" \in Sides /\ Other("server") = "client"
  BY DEF LoginInv, LoginTypeOK, Flow, Sides, Other
<1>2. Handle("server", "Login")
  BY DEF handleLogin
<1>3. Pops("server") /\ m \in OnTheWay("server") /\ ~Idle(m) /\ Kind(m) = "Login"
  BY <1>1, <1>2, HandlerHead DEF ServerHandled
<1>4. LoggingIn
  BY <1>1, <1>3, ServerPhase
<1>5. ASSUME Took("server") PROVE Comes("server", {})' /\ InOrder("server")'
  BY <1>3, <1>5, TookLeaves DEF Precedes
<1>6. CASE OfferPacks
  BY <1>2, <1>4, <1>6, OfferFlow
<1>7. CASE EnableEncryption
  <2>1. CASE WriteFails("server", {"ClientToServerHandshake"}) /\ UNCHANGED queueVars
    BY <1>1, <1>2, <2>1, FailsFlow DEF WriteFails
  <2>2. CASE /\ expect("server", {"ClientToServerHandshake"})
             /\ Send("server", <<Pk("ServerToClientHandshake")>>)
             /\ UNCHANGED <<listen, spawnVars, closed, packVars, frag, queueVars, callVars>>
    <3>1. /\ Pk("ServerToClientHandshake") \in Message
          /\ Kind(Pk("ServerToClientHandshake")) = "ServerToClientHandshake"
      BY Messages, Kinds DEF Ids, ClientHandled
    <3>2. Took("server") /\ Gains("client", {Pk("ServerToClientHandshake")})
      BY <1>1, <1>3, <2>2, <3>1, AnswersOne
    <3>3. InOrder("client")' /\ Comes("client", {"ServerToClientHandshake"})'
      BY <1>4, <3>1, <3>2, GainsOne DEF LoggingIn
    <3>4. /\ Expects("server", {"ClientToServerHandshake"})'
          /\ \A x : Expects("client", x) => Expects("client", x)'
      BY <1>1, <2>2, ExpectKeeps
    <3>5. Fresh' /\ Connecting' /\ ExpectsLogin'
      BY <1>4, <2>2, <3>4 DEF LoggingIn, Fresh, Connecting, ExpectsLogin
    <3>6. Shaking'
      BY <1>5, <3>2, <3>3, <3>4, <3>5 DEF Shaking
    <3> QED BY <1>5, <3>2, <3>3, <3>6 DEF Flow, PhaseInv
  <2> QED BY <1>7, <2>1, <2>2 DEF EnableEncryption
<1>8. CASE \E pks \in {<<>>, <<Pk("Disconnect")>>} : HandlerFails("server", pks)
  BY <1>1, <1>2, <1>8, FailsFlow DEF HandlerFails
<1>9. CASE Kick
  <2>1. Pk("Disconnect") \in Message /\ Idle(Pk("Disconnect"))
    BY Messages, Kinds DEF Ids, Idle
  <2>2. Took("server") /\ Gains("client", {Pk("Disconnect")})
    BY <1>1, <1>3, <1>9, <2>1, AnswersOne DEF Kick
  <2>3. Undisturbed /\ InOrder("client")' /\ InOrder("server")'
    BY <1>1, <2>1, <2>2, TookQuietly
  <2>4. \A t \in Sides : closed[t] => closed'[t]
    BY <1>1, <1>9 DEF Kick, CallTypeOK
  <2>5. Attentive
    BY <1>1, <1>9, <2>4, StayAttentive DEF Kick
  <2>6. Resting
    BY <1>9 DEF Kick, Resting
  <2> QED BY <2>3, <2>5, <2>6, Keeping
<1> QED BY <1>6, <1>7, <1>8, <1>9 DEF handleLogin

LEMMA HandshakeFlow ==
  ASSUME LoginInv, Flow, handleClientToServerHandshake
  PROVE  Flow'
<1>1. Handle("server", "ClientToServerHandshake") /\ OfferPacks /\ "server" \in Sides /\ PhaseInv
  BY DEF handleClientToServerHandshake, Sides, Flow
<1>2. /\ pk("server") \in OnTheWay("server") /\ ~Idle(pk("server"))
      /\ Kind(pk("server")) = "ClientToServerHandshake"
  BY <1>1, HandlerHead DEF ServerHandled
<1>3. Answering
  BY <1>1, <1>2, ServerPhase
<1> QED BY <1>1, <1>3, OfferFlow

LEMMA CacheStatusFlow ==
  ASSUME LoginInv, Flow, handleClientCacheStatus
  PROVE  Flow'
<1> USE DEF sendVars, formatVars, spawnVars, packVars, queueVars, callVars
<1>1. /\ LoginTypeOK /\ CallTypeOK /\ InOrder("client") /\ InOrder("server")
      /\ "server" \in Sides /\ Other("server") = "client"
  BY DEF LoginInv, LoginTypeOK, Flow, Sides, Other
<1>2. Handle("server", "ClientCacheStatus")
  BY DEF handleClientCacheStatus
<1>3. Pops("server")
  BY <1>1, <1>2, HandlerHead DEF ServerHandled
<1>4. Took("server") /\ Gains("client", {})
  BY <1>1, <1>3, AnswersNone DEF handleClientCacheStatus
<1>5. Undisturbed /\ InOrder("client")' /\ InOrder("server")'
  BY <1>1, <1>4, TookQuietly
<1>6. Attentive
  BY <1>1, StayAttentive DEF handleClientCacheStatus
<1>7. Resting
  BY DEF handleClientCacheStatus, Resting
<1> QED BY <1>5, <1>6, <1>7, Keeping

(* The first pack is announced. *)
LEMMA SendPacksFlow ==
  ASSUME LoginInv, Flow, handleSendPacks
  PROVE  Flow'
<1> USE DEF sendVars, formatVars, spawnVars, packVars, callVars
<1> DEFINE m == pk("server")
<1>1. /\ LoginTypeOK /\ CallTypeOK /\ InOrder("client") /\ InOrder("server") /\ PhaseInv
      /\ "server" \in Sides /\ Other("server") = "client"
  BY DEF LoginInv, LoginTypeOK, Flow, Sides, Other
<1>2. Handle("server", "ResourcePackClientResponse") /\ m.arg = "SendPacks"
  BY DEF handleSendPacks
<1>3. /\ Pops("server") /\ m \in OnTheWay("server") /\ ~Idle(m) /\ Kind(m) = "SendPacks"
      /\ listen["server"] = "run"
  BY <1>1, <1>2, HandlerHead DEF ServerHandled, Responses
<1>4. Choosing
  BY <1>1, <1>3, ServerPhase
<1>5. ~Serving
  BY <1>3 DEF Serving, Comes
<1>6. CASE WriteFails("server", expected["server"])
  BY <1>1, <1>2, <1>5, <1>6, FailsFlow DEF WriteFails
<1>7. ASSUME NEW p \in Packs, NextPack(m.packs, p), Send("server", DataInfo(p)),
             expect("server", {"ResourcePackChunkRequest"}),
             UNCHANGED <<formatVars, listen, spawnVars, closed, packVars, frag, callVars>>
      PROVE  Flow'
  <2> DEFINE d == PackPk("ResourcePackDataInfo", p, 0)
  <2>1. d \in Message /\ Kind(d) = "ResourcePackDataInfo" /\ d.pack = p
    <3>1. "ResourcePackDataInfo" \in Ids /\ 0 \in Nat /\ p \in Packs \cup {NoPack}
      BY DEF Ids, ClientHandled
    <3>2. d \in Message
      BY <3>1, Messages
    <3>3. Kind(d) = "ResourcePackDataInfo" /\ d.pack = p
      BY Kinds
    <3> QED BY <3>2, <3>3
  <2>2. Send("server", <<d>>)
    BY <1>7 DEF DataInfo
  <2> HIDE DEF d
  <2>3. Took("server") /\ Gains("client", {d})
    BY <1>1, <1>3, <2>1, <2>2, AnswersOne
  <2>4. InOrder("client")' /\ \A n \in OnTheWay("client")' : Idle(n) \/ n = d
    <3>1. Comes("client", {})
      BY <1>4 DEF Choosing
    <3>2. InOrder("client")' /\ \A n \in OnTheWay("client")' : Idle(n) \/ n \in {d}
      BY <2>3, <3>1, GainsFirst
    <3> QED BY <3>2
  <2>5. Comes("server", {})' /\ InOrder("server")'
    BY <1>3, <2>3, TookLeaves DEF Precedes
  <2>6. Expects("client", {"ResourcePackDataInfo", "ResourcePackChunkData", "PlayStatus"})'
        /\ expected'["server"] = {"ResourcePackChunkRequest"}
    BY <1>1, <1>4, <1>7, ExpectKeeps DEF Choosing, ExpectsPacks
  <2>7. /\ m.packs = downloading /\ p \in downloading
        /\ toDownload' = downloading \ {p} /\ currentPack' = p /\ currentOffset' = 0
    BY <1>3, <1>4, <1>7 DEF Choosing, NextPack
  <2>8. Missing(currentPack)'
    <3>1. Counted
      BY <2>7 DEF LoginInv, PackInv, NoPacks
    <3> QED BY <1>7, <2>7, <3>1 DEF Counted, Missing
  <2>9. Comes("client", {"ResourcePackDataInfo", "ResourcePackChunkData"})'
        /\ Comes("server", {"ResourcePackChunkRequest"})'
    BY <2>1, <2>4, <2>5 DEF Comes
  <2>10. ~Coming("server", "ResourcePackChunkRequest")'
    BY <2>5 DEF Comes, Coming
  <2>11. \A n \in OnTheWay("client")' :
           /\ Kind(n) = "ResourcePackDataInfo" => n.pack = p
           /\ Kind(n) # "ResourcePackChunkData"
    BY <2>1, <2>4, IdleKind
  <2>12. frag' = NoPack /\ \A q \in Packs : dl'[q] = "none" /\ dlIndex'[q] = 0
    BY <1>4, <1>7 DEF Choosing, Fresh
  <2>13. Downloading'
    BY <1>7, <2>7, <2>8, <2>10, <2>11, <2>12 DEF Downloading
  <2>14. Uploading'
    <3>1. ~ChunkComing'
      BY <1>7, <2>7, <2>11, <2>12, LoginAssumption DEF ChunkComing
    <3>2. 0 < ChunkCount
      BY LoginAssumption
    <3> QED BY <1>7, <2>6, <2>7, <2>8, <2>10, <2>12, <3>1, <3>2 DEF Uploading
  <2>15. Connecting' /\ ~loggedIn'["server"] /\ announced' = 0 /\ downloading' = downloading
    BY <1>4, <1>7 DEF Choosing, Fresh, Connecting
  <2>16. Serving'
    BY <1>7, <2>6, <2>7, <2>9, <2>12, <2>13, <2>14, <2>15 DEF Serving, ExpectsPacks
  <2> QED BY <2>4, <2>5, <2>16 DEF Flow, PhaseInv
<1> QED BY <1>6, <1>7 DEF handleSendPacks

LEMMA AllDownloadedFlow ==
  ASSUME LoginInv, Flow, handleAllPacksDownloaded
  PROVE  Flow'
<1> USE DEF sendVars, formatVars, spawnVars, packVars, queueVars, callVars
<1> DEFINE m == pk("server")
<1>1. /\ LoginTypeOK /\ CallTypeOK /\ InOrder("client") /\ InOrder("server") /\ PhaseInv
      /\ "server" \in Sides /\ Other("server") = "client"
  BY DEF LoginInv, LoginTypeOK, Flow, Sides, Other
<1>2. Handle("server", "ResourcePackClientResponse") /\ m.arg = "AllPacksDownloaded"
  BY DEF handleAllPacksDownloaded
<1>3. /\ Pops("server") /\ m \in OnTheWay("server") /\ ~Idle(m) /\ Kind(m) = "AllPacksDownloaded"
      /\ listen["server"] = "run"
  BY <1>1, <1>2, HandlerHead DEF ServerHandled, Responses
<1>4. Announcing
  BY <1>1, <1>3, ServerPhase
<1>5. CASE WriteFails("server", expected["server"]) /\ UNCHANGED queueVars
  BY <1>1, <1>2, <1>5, FailsFlow DEF WriteFails
<1>6. CASE /\ Send("server", <<Pk("ResourcePackStack")>>)
           /\ UNCHANGED <<formatVars, listen, expected, spawnVars, closed, packVars, frag, queueVars,
                          callVars>>
  <2>1. Pk("ResourcePackStack") \in Message /\ Kind(Pk("ResourcePackStack")) = "ResourcePackStack"
    BY Messages, Kinds DEF Ids, ClientHandled
  <2>2. Took("server") /\ Gains("client", {Pk("ResourcePackStack")})
    BY <1>1, <1>3, <1>6, <2>1, AnswersOne
  <2>3. InOrder("client")' /\ Comes("client", {"ResourcePackStack"})'
    BY <1>4, <2>1, <2>2, GainsOne DEF Announcing
  <2>4. Comes("server", {})' /\ InOrder("server")' /\ Coming("server", "AllPacksDownloaded")
    BY <1>3, <2>2, TookLeaves DEF Precedes
  <2>5. announced' = 1 /\ ~loggedIn'["server"] /\ Connecting'
    BY <1>4, <1>6, <2>4 DEF Announcing, Connecting
  <2>6. ExpectsResponse' /\ Expects("client", {"ResourcePackStack", "PlayStatus"})'
    BY <1>4, <1>6 DEF Announcing, ExpectsResponse, Expects
  <2>7. Stacking'
    BY <2>3, <2>4, <2>5, <2>6 DEF Stacking
  <2> QED BY <2>3, <2>4, <2>7 DEF Flow, PhaseInv
<1> QED BY <1>5, <1>6 DEF handleAllPacksDownloaded

LEMMA CompletedFlow ==
  ASSUME LoginInv, Flow, handleCompleted
  PROVE  Flow'
<1> USE DEF sendVars, formatVars, packVars, queueVars, callVars
<1> DEFINE m == pk("server")
<1>1. /\ LoginTypeOK /\ CallTypeOK /\ InOrder("client") /\ InOrder("server") /\ PhaseInv
      /\ "server" \in Sides /\ Other("server") = "client"
  BY DEF LoginInv, LoginTypeOK, Flow, Sides, Other
<1>2. Handle("server", "ResourcePackClientResponse") /\ m.arg = "Completed"
  BY DEF handleCompleted
<1>3. /\ Pops("server") /\ m \in OnTheWay("server") /\ ~Idle(m) /\ Kind(m) = "Completed"
      /\ listen["server"] = "run"
  BY <1>1, <1>2, HandlerHead DEF ServerHandled, Responses
<1>4. Completing
  BY <1>1, <1>3, ServerPhase
<1>5. Took("server") /\ Gains("client", {})
  BY <1>1, <1>3, AnswersNone DEF handleCompleted
<1>6. InOrder("client")' /\ Comes("client", {})'
  BY <1>4, <1>5, GainsNone DEF Completing
<1>7. Comes("server", {})' /\ InOrder("server")'
  BY <1>3, <1>5, TookLeaves DEF Precedes
<1>8. ~loggedIn["server"]
  BY <1>4 DEF Completing
<1>9. start = "accept" /\ ~loggedIn["client"] /\ ~waitingForSpawn["client"] /\ ~gameDataReceived
  BY <1>8 DEF LoginInv, SpawnInv, ServerSpawnInv, ClientSpawnInv
<1>10. loggedIn'["server"] /\ ~loggedIn'["client"]
  BY <1>1, <1>9 DEF handleCompleted, LoginTypeOK, SpawnTypeOK, Sides
<1>11. NotSpawned' /\ start' = "accept"
  BY <1>4, <1>9, <1>10 DEF handleCompleted, Completing, NotSpawned, Started, Connecting
<1>12. Expects("client", {"DimensionData", "StartGame"})'
  <2>1. listen'["client"] = listen["client"] /\ expected' = expected
    BY <1>1 DEF handleCompleted, CallTypeOK, Sides
  <2> QED BY <1>4, <2>1 DEF Completing, Expects
<1>13. Entered'
  BY <1>6, <1>7, <1>11, <1>12 DEF Entered
<1> QED BY <1>6, <1>7, <1>13 DEF Flow, PhaseInv

LEMMA ChunkRadiusFlow ==
  ASSUME LoginInv, Flow, handleRequestChunkRadius
  PROVE  Flow'
<1> USE DEF sendVars, formatVars, spawnVars, packVars, queueVars, callVars
<1> DEFINE m == pk("server")
           a == Pk("ChunkRadiusUpdated")
           b == Status("PlayerSpawn")
           c == Pk("CreativeContent")
<1>1. /\ LoginTypeOK /\ CallTypeOK /\ InOrder("client") /\ InOrder("server") /\ PhaseInv
      /\ "server" \in Sides /\ Other("server") = "client"
  BY DEF LoginInv, LoginTypeOK, Flow, Sides, Other
<1>2. Handle("server", "RequestChunkRadius")
  BY DEF handleRequestChunkRadius
<1>3. Pops("server") /\ m \in OnTheWay("server") /\ ~Idle(m) /\ Kind(m) = "RequestChunkRadius"
  BY <1>1, <1>2, HandlerHead DEF ServerHandled
<1>4. Chunking
  BY <1>1, <1>3, ServerPhase
<1>5. a \in Message /\ b \in Message /\ c \in Message
  BY Messages DEF Ids, ClientHandled, Args
<1>6. Kind(a) = "ChunkRadiusUpdated" /\ Kind(b) = "PlayerSpawn" /\ Idle(c)
  BY Kinds DEF Statuses, Idle
<1>7. SendAs("server", enc["server"], <<a, b, c>>, <<>>) /\ enc["server"] \in Formats
  BY <1>1 DEF handleRequestChunkRadius, Send, LoginTypeOK, FormatTypeOK
<1> HIDE DEF a, b, c
<1>8. Rising(<<a, b, c>>) /\ Rising(<<>>) /\ <<>> \in Seq(Message) /\ Of(<<>>) = {}
  BY <1>6, RisingOne, OfNone DEF Follows, Precedes
<1>9. <<a, b, c>> \in Seq(Message) /\ Of(<<a, b, c>>) = {a, b, c}
  BY <1>5 DEF Of
<1>10. Took("server") /\ Gains("client", Of(<<a, b, c>>) \cup Of(<<>>))
  BY <1>1, <1>3, <1>7, <1>8, <1>9, Answers DEF AllFollow
<1>11. Took("server") /\ Gains("client", {a, b, c})
  BY <1>8, <1>9, <1>10
<1>12. InOrder("client")' /\ \A n \in OnTheWay("client")' : Idle(n) \/ n \in {a, b, c}
  BY <1>4, <1>11, GainsFirst DEF Chunking
<1>13. Comes("client", {"ChunkRadiusUpdated", "PlayerSpawn"})'
  BY <1>6, <1>12 DEF Comes
<1>14. Comes("server", {})' /\ InOrder("server")'
  BY <1>3, <1>11, TookLeaves DEF Precedes
<1>15. /\ Expects("server", {"SetLocalPlayerAsInitialised"})'
       /\ Expects("client", {"ChunkRadiusUpdated", "PlayStatus"})'
  BY <1>1, <1>4, ExpectKeeps DEF handleRequestChunkRadius, Chunking
<1>16. /\ Started' /\ ~loggedIn'["client"] /\ start' \in Written
       /\ waitingForSpawn'["server"] /\ ~waitingForSpawn'["client"] /\ ~gameDataReceived'
  BY <1>4 DEF handleRequestChunkRadius, Chunking, NotSpawned, Started, Connecting, ExpectsSpawn
<1>17. Finishing'
  BY <1>13, <1>14, <1>15, <1>16 DEF Finishing
<1> QED BY <1>12, <1>14, <1>17 DEF Flow, PhaseInv

LEMMA InitialisedFlow ==
  ASSUME LoginInv, Flow, handleSetLocalPlayerAsInitialised
  PROVE  Flow'
<1> USE DEF sendVars, formatVars, packVars, queueVars, callVars
<1> DEFINE m == pk("server")
<1>1. /\ LoginTypeOK /\ CallTypeOK /\ InOrder("client") /\ InOrder("server") /\ PhaseInv
      /\ "server" \in Sides /\ Other("server") = "client"
  BY DEF LoginInv, LoginTypeOK, Flow, Sides, Other
<1>2. Handle("server", "SetLocalPlayerAsInitialised")
  BY DEF handleSetLocalPlayerAsInitialised
<1>3. Pops("server") /\ m \in OnTheWay("server") /\ ~Idle(m) /\ Kind(m) = "SetLocalPlayerAsInitialised"
  BY <1>1, <1>2, HandlerHead DEF ServerHandled
<1>4. Joined
  BY <1>1, <1>3, ServerPhase
<1>5. Took("server") /\ Gains("client", {})
  BY <1>1, <1>3, AnswersNone DEF handleSetLocalPlayerAsInitialised
<1>6. InOrder("client")' /\ Comes("client", {})'
  BY <1>4, <1>5, GainsNone DEF Joined
<1>7. Comes("server", {})' /\ InOrder("server")'
  BY <1>3, <1>5, TookLeaves DEF Precedes
<1>8. Comes("server", {"SetLocalPlayerAsInitialised"})'
      /\ ~Coming("server", "SetLocalPlayerAsInitialised")'
  BY <1>7 DEF Comes, Coming
<1>9. Started' /\ loggedIn'["client"] /\ start' \in Written
  BY <1>4 DEF handleSetLocalPlayerAsInitialised, Joined, Started, Connecting
<1>10. Joined'
  BY <1>6, <1>8, <1>9 DEF Joined
<1> QED BY <1>6, <1>7, <1>10 DEF Flow, PhaseInv

(* A chunk is sent: the last one of a pack with the announcement of the    *)
(* next.                                                                   *)
LEMMA ChunkPackets ==
  ASSUME NEW p \in Packs, NEW n \in Nat
  PROVE  /\ PackPk("ResourcePackChunkData", p, n) \in Message
         /\ PackPk("ResourcePackDataInfo", p, n) \in Message
         /\ PackPk("ResourcePackChunkRequest", p, n) \in Message
<1>1. /\ "ResourcePackChunkData" \in Ids /\ "ResourcePackDataInfo" \in Ids
      /\ "ResourcePackChunkRequest" \in Ids /\ p \in Packs \cup {NoPack}
  BY DEF Ids, ClientHandled, ServerHandled
<1> QED BY <1>1, Messages

LEMMA ChunkAwaited ==
  ASSUME LoginInv, Serving, Coming("server", "ResourcePackChunkRequest"), listen["server"] = "run",
         "ResourcePackChunkRequest" \in expected["server"]
  PROVE  /\ currentPack \in Packs /\ Missing(currentPack) /\ dl[currentPack] \in {"wait", "done"}
         /\ currentOffset \in Nat /\ currentOffset < ChunkCount /\ dlIndex[currentPack] = currentOffset
         /\ expected["server"] = {"ResourcePackChunkRequest"}
         /\ Comes("client", {}) /\ frag = NoPack /\ \A p \in Packs : dl[p] # "request"
         /\ Counted
<1>1. Uploading /\ Downloading /\ currentPack \in Packs
  BY DEF Serving
<1>2. expected["server"] = {"ResourcePackChunkRequest"} /\ currentOffset < ChunkCount
  BY <1>1 DEF Uploading
<1>3. Expecting(currentPack) /\ Comes("client", {}) /\ frag = NoPack
  BY <1>1 DEF Downloading
<1>4. dlIndex[currentPack] = currentOffset
  BY <1>1 DEF Uploading
<1>5. ~Comes("server", {})
  BY DEF Coming, Comes
<1>6. \A p \in Packs : dl[p] # "request"
  BY <1>1, <1>5 DEF Downloading, Silent
<1>7. currentOffset \in Nat
  BY DEF LoginInv, LoginTypeOK, PackTypeOK
<1>8. Counted
  BY <1>1, <1>3 DEF LoginInv, PackInv, NoPacks, Expecting
<1> QED BY <1>1, <1>2, <1>3, <1>4, <1>6, <1>7, <1>8 DEF Expecting

LEMMA ChunkFlow ==
  ASSUME LoginInv, Flow, Handle("server", "ResourcePackChunkRequest"), SendChunk(currentPack),
         UNCHANGED <<formatVars, listen, spawnVars, closed, packVars, frag, callVars>>
  PROVE  Flow'
<1> USE DEF sendVars, formatVars, spawnVars, packVars, callVars
<1> DEFINE m == pk("server")
           d == PackPk("ResourcePackChunkData", currentPack, currentOffset)
           lastChunk == currentOffset + 1 >= ChunkCount
<1>1. /\ LoginTypeOK /\ CallTypeOK /\ InOrder("client") /\ InOrder("server") /\ PhaseInv
      /\ "server" \in Sides /\ Other("server") = "client"
  BY DEF LoginInv, LoginTypeOK, Flow, Sides, Other
<1>2. /\ Pops("server") /\ m \in OnTheWay("server") /\ ~Idle(m) /\ Kind(m) = "ResourcePackChunkRequest"
      /\ listen["server"] = "run" /\ "ResourcePackChunkRequest" \in expected["server"]
  BY <1>1, HandlerHead DEF ServerHandled
<1>3. Serving
  BY <1>1, <1>2, ServerPhase
<1>4. Coming("server", "ResourcePackChunkRequest")
  BY <1>2 DEF Coming
<1>5. /\ currentPack \in Packs /\ Missing(currentPack) /\ dl[currentPack] \in {"wait", "done"}
      /\ currentOffset \in Nat /\ currentOffset < ChunkCount /\ dlIndex[currentPack] = currentOffset
      /\ expected["server"] = {"ResourcePackChunkRequest"}
      /\ Comes("client", {}) /\ frag = NoPack /\ \A p \in Packs : dl[p] # "request"
      /\ Counted
  BY <1>2, <1>3, <1>4, ChunkAwaited
<1>6. d \in Message /\ Kind(d) = "ResourcePackChunkData" /\ d.pack = currentPack
  BY <1>5, ChunkPackets, Kinds
<1>7. /\ \A p \in Packs : dl[p] = "none" => dlIndex[p] = 0
      /\ \A p \in Packs : dl[p] # "announce"
      /\ currentPack \notin toDownload /\ toDownload \subseteq downloading /\ announced = 0
      /\ ~loggedIn["server"] /\ Connecting /\ ExpectsPacks
  BY <1>3 DEF Serving, Downloading
<1>8. NoPack \notin Packs /\ ChunkCount \in Nat /\ 0 < ChunkCount
  BY LoginAssumption
<1>9. ~loggedIn'["server"] /\ Connecting'
  BY <1>7 DEF Connecting
<1>10. ASSUME Took("server")
       PROVE  /\ Comes("server", {})' /\ InOrder("server")'
              /\ Comes("server", {"ResourcePackChunkRequest"})'
              /\ ~Coming("server", "ResourcePackChunkRequest")'
  <2>1. Comes("server", {})' /\ InOrder("server")'
    BY <1>2, <1>10, TookLeaves DEF Precedes
  <2> QED BY <2>1 DEF Comes, Coming
<1>11. ASSUME NEW ids, expect("server", ids)
       PROVE  ExpectsPacks' /\ expected'["server"] = ids
  BY <1>1, <1>7, <1>11, ExpectKeeps DEF ExpectsPacks
<1>12. CASE /\ ~(lastChunk /\ toDownload # {})
            /\ currentOffset' = currentOffset + 1
            /\ Send("server", <<d>>)
            /\ expect("server", IF lastChunk THEN {"ResourcePackClientResponse"} ELSE expected["server"])
            /\ UNCHANGED <<toDownload, currentPack>>
  <2> HIDE DEF d
  <2>1. Took("server") /\ Gains("client", {d})
    BY <1>1, <1>2, <1>6, <1>12, AnswersOne
  <2>2. InOrder("client")' /\ \A n \in OnTheWay("client")' : Idle(n) \/ n \in {d}
    BY <1>5, <2>1, GainsFirst
  <2>3. \A n \in OnTheWay("client")' :
          /\ Kind(n) # "ResourcePackDataInfo"
          /\ Kind(n) = "ResourcePackChunkData" => n.pack = currentPack
    BY <1>6, <2>2, IdleKind
  <2>4. Comes("client", {"ResourcePackDataInfo", "ResourcePackChunkData"})'
    BY <1>6, <2>2 DEF Comes
  <2>5. /\ ExpectsPacks'
        /\ lastChunk => expected'["server"] = {"ResourcePackClientResponse"}
        /\ ~lastChunk => expected'["server"] = {"ResourcePackChunkRequest"}
    BY <1>5, <1>11, <1>12
  <2>6. Missing(currentPack)' /\ dl' = dl /\ dlIndex' = dlIndex /\ frag' = NoPack
        /\ currentPack' = currentPack
    BY <1>5, <1>12 DEF Missing
  <2>7. Expecting(currentPack)'
    BY <1>5, <2>6 DEF Expecting
  <2>8. Downloading'
    BY <1>5, <1>7, <1>10, <2>1, <2>3, <2>6, <2>7 DEF Downloading
  <2>9. Uploading'
    BY <1>5, <1>8, <1>10, <1>12, <2>1, <2>5, <2>6 DEF Uploading
  <2>10. Serving'
    BY <1>5, <1>7, <1>9, <1>10, <1>12, <2>1, <2>4, <2>5, <2>8, <2>9 DEF Serving
  <2> QED BY <1>10, <2>1, <2>2, <2>10 DEF Flow, PhaseInv
<1>13. CASE /\ lastChunk
            /\ \E q \in Packs : /\ NextPack(toDownload, q)
                                /\ SendAs("server", enc["server"], <<d>>, DataInfo(q))
            /\ expect("server", {"ResourcePackChunkRequest"})
  <2>1. PICK q \in Packs : /\ NextPack(toDownload, q)
                           /\ SendAs("server", enc["server"], <<d>>, DataInfo(q))
    BY <1>13
  <2> DEFINE e == PackPk("ResourcePackDataInfo", q, 0)
  <2>2. e \in Message /\ Kind(e) = "ResourcePackDataInfo" /\ e.pack = q
    BY ChunkPackets, Kinds
  <2>3. SendAs("server", enc["server"], <<d>>, <<e>>) /\ enc["server"] \in Formats
    BY <1>1, <2>1 DEF DataInfo, LoginTypeOK, FormatTypeOK
  <2> HIDE DEF d, e
  <2>4. <<d>> \in Seq(Message) /\ <<e>> \in Seq(Message) /\ Of(<<d>>) = {d} /\ Of(<<e>>) = {e}
    BY <1>6, <2>2, OfOne
  <2>5. Rising(<<d>>) /\ Rising(<<e>>) /\ AllFollow({d}, {e})
    BY <1>6, <2>2, RisingOne DEF AllFollow, Follows, Precedes
  <2>6. Took("server") /\ Gains("client", Of(<<d>>) \cup Of(<<e>>))
    <3>1. AllFollow(Of(<<d>>), Of(<<e>>))
      BY <2>4, <2>5
    <3> QED BY <1>1, <1>2, <2>3, <2>4, <2>5, <3>1, Answers
  <2>7. Took("server") /\ Gains("client", {d, e})
    <3>1. {d} \cup {e} = {d, e}
      OBVIOUS
    <3> QED BY <2>4, <2>6, <3>1
  <2>8. InOrder("client")' /\ \A n \in OnTheWay("client")' : Idle(n) \/ n \in {d, e}
    BY <1>5, <2>7, GainsFirst
  <2>9. \A n \in OnTheWay("client")' :
          /\ Kind(n) = "ResourcePackDataInfo" => n.pack = q
          /\ Kind(n) = "ResourcePackChunkData" => n.pack = currentPack
    BY <1>6, <2>2, <2>8, IdleKind
  <2>10. Comes("client", {"ResourcePackDataInfo", "ResourcePackChunkData"})'
    BY <1>6, <2>2, <2>8 DEF Comes
  <2>11. ExpectsPacks' /\ expected'["server"] = {"ResourcePackChunkRequest"}
    BY <1>11, <1>13
  <2>12. /\ q \in toDownload /\ toDownload' = toDownload \ {q} /\ currentPack' = q /\ currentOffset' = 0
         /\ q # currentPack
    BY <1>7, <2>1 DEF NextPack
  <2>13. dl[q] = "none" /\ Missing(q)
    BY <1>5, <1>7, <2>12 DEF Counted, Missing
  <2>14. /\ Missing(currentPack)' /\ Missing(currentPack) /\ dl' = dl /\ dlIndex' = dlIndex
         /\ frag' = NoPack
         /\ resourcePacks' = resourcePacks /\ ignored' = ignored
    BY <1>5, <2>12, <2>13 DEF Missing
  <2>15. ASSUME NEW p, p = currentPack PROVE Expecting(p)'
    <3>1. dlIndex[p] + 1 = ChunkCount
      BY <1>5, <1>8, <1>13, <2>15
    <3> QED BY <1>5, <2>14, <2>15, <3>1 DEF Expecting, Missing
  <2>16. Downloading'
    BY <1>5, <1>7, <1>10, <2>7, <2>9, <2>12, <2>13, <2>14, <2>15 DEF Downloading
  <2>17. Uploading'
    <3>1. ~ChunkComing'
      BY <1>8, <2>9, <2>12, <2>14 DEF ChunkComing
    <3> QED BY <1>8, <1>10, <2>7, <2>11, <2>12, <2>13, <2>14, <3>1 DEF Uploading
  <2>18. Serving'
    BY <1>7, <1>9, <1>10, <2>7, <2>10, <2>11, <2>12, <2>14, <2>16, <2>17 DEF Serving
  <2> QED BY <1>10, <2>7, <2>8, <2>18 DEF Flow, PhaseInv
<1> QED BY <1>12, <1>13 DEF SendChunk

LEMMA ChunkRequestFlow ==
  ASSUME LoginInv, Flow, handleResourcePackChunkRequest
  PROVE  Flow'
<1> USE DEF queueVars
<1> DEFINE p == pk("server").pack
<1>1. Handle("server", "ResourcePackChunkRequest") /\ "server" \in Sides
  BY DEF handleResourcePackChunkRequest, Sides
<1>2. CASE HandlerFails("server", <<>>)
  BY <1>1, <1>2, FailsFlow DEF HandlerFails
<1>3. CASE WriteFails("server", expected["server"]) /\ UNCHANGED <<toDownload, currentPack>>
  BY <1>1, <1>3, FailsFlow DEF WriteFails
<1>4. CASE /\ p = currentPack /\ SendChunk(p)
           /\ UNCHANGED <<formatVars, listen, spawnVars, closed, packVars, frag, callVars>>
  BY <1>1, <1>4, ChunkFlow
<1> QED BY <1>2, <1>3, <1>4 DEF handleResourcePackChunkRequest

LEMMA ServerFlow ==
  ASSUME LoginInv, Flow, ServerHandler
  PROVE  Flow'
BY SettingsFlow, LoginFlow, HandshakeFlow, CacheStatusFlow, SendPacksFlow, AllDownloadedFlow,
   CompletedFlow, ChunkRequestFlow, ChunkRadiusFlow, InitialisedFlow DEF ServerHandler

(* Those of the client. *)
LEMMA SwitchFlow ==
  ASSUME LoginInv, Flow, handleNetworkSettings
  PROVE  Flow'
<1> USE DEF sendVars, formatVars, spawnVars, packVars, queueVars, callVars
<1> DEFINE m == pk("client")
<1>1. /\ LoginTypeOK /\ CallTypeOK /\ InOrder("client") /\ InOrder("server") /\ PhaseInv
      /\ "client" \in Sides /\ Other("client") = "server"
  BY DEF LoginInv, LoginTypeOK, Flow, Sides, Other
<1>2. Handle("client", "NetworkSettings")
  BY DEF handleNetworkSettings
<1>3. Pops("client") /\ m \in OnTheWay("client") /\ ~Idle(m) /\ Kind(m) = "NetworkSettings"
  BY <1>1, <1>2, HandlerHead DEF ClientHandled
<1>4. Switching
  BY <1>1, <1>3, ClientPhase
<1>5. \E f \in Formats : SendAs("client", f, <<>>, <<>>)
  BY DEF handleNetworkSettings, Formats
<1>6. Took("client") /\ Gains("server", {})
  BY <1>1, <1>3, <1>5, AnswersNone
<1>7. InOrder("server")' /\ Comes("server", {})'
  BY <1>4, <1>6, GainsNone DEF Switching
<1>8. Comes("client", {})' /\ InOrder("client")'
  BY <1>3, <1>6, TookLeaves DEF Precedes
<1>9. listen'["server"] = listen["server"] /\ expected' = expected
  BY <1>1 DEF handleNetworkSettings, CallTypeOK, Sides
<1>10. Fresh' /\ dial' = dial /\ Expects("server", {"Login"})'
  BY <1>4, <1>9 DEF handleNetworkSettings, Switching, Fresh, Expects
<1>11. Prepared'
  BY <1>4, <1>7, <1>8, <1>10 DEF Switching, Prepared
<1> QED BY <1>7, <1>8, <1>11 DEF Flow, PhaseInv

LEMMA ShakeFlow ==
  ASSUME LoginInv, Flow, handleServerToClientHandshake
  PROVE  Flow'
<1> USE DEF sendVars, formatVars, spawnVars, packVars, queueVars, callVars
<1> DEFINE m == pk("client")
           r == Pk("ClientToServerHandshake")
<1>1. /\ LoginTypeOK /\ CallTypeOK /\ InOrder("client") /\ InOrder("server") /\ PhaseInv
      /\ "client" \in Sides /\ Other("client") = "server"
  BY DEF LoginInv, LoginTypeOK, Flow, Sides, Other
<1>2. Handle("client", "ServerToClientHandshake")
  BY DEF handleServerToClientHandshake
<1>3. Pops("client") /\ m \in OnTheWay("client") /\ ~Idle(m) /\ Kind(m) = "ServerToClientHandshake"
  BY <1>1, <1>2, HandlerHead DEF ClientHandled
<1>4. Shaking
  BY <1>1, <1>3, ClientPhase
<1>5. r \in Message /\ Kind(r) = "ClientToServerHandshake"
  BY Messages, Kinds DEF Ids, ServerHandled
<1>6. \E f \in Formats : SendAs("client", f, <<r>>, <<>>)
  BY DEF handleServerToClientHandshake, Formats
<1> HIDE DEF r
<1>7. Took("client") /\ Gains("server", {r})
  BY <1>1, <1>3, <1>5, <1>6, AnswersOne
<1>8. InOrder("server")' /\ Comes("server", {"ClientToServerHandshake"})'
  BY <1>4, <1>5, <1>7, GainsOne DEF Shaking
<1>9. Comes("client", {})' /\ InOrder("client")'
  BY <1>3, <1>7, TookLeaves DEF Precedes
<1>10. /\ Fresh' /\ Connecting' /\ Expects("server", {"ClientToServerHandshake"})' /\ ExpectsLogin'
  BY <1>4 DEF handleServerToClientHandshake, Shaking, Fresh, Connecting, Expects, ExpectsLogin
<1>11. Answering'
  BY <1>8, <1>9, <1>10 DEF Answering
<1> QED BY <1>8, <1>9, <1>11 DEF Flow, PhaseInv

LEMMA SuccessFlow ==
  ASSUME LoginInv, Flow, handleLoginSuccess
  PROVE  Flow'
<1> USE DEF sendVars, formatVars, spawnVars, packVars, queueVars, callVars
<1> DEFINE m == pk("client")
           r == Pk("ClientCacheStatus")
<1>1. /\ LoginTypeOK /\ CallTypeOK /\ InOrder("client") /\ InOrder("server") /\ PhaseInv
      /\ "client" \in Sides /\ Other("client") = "server"
  BY DEF LoginInv, LoginTypeOK, Flow, Sides, Other
<1>2. Handle("client", "PlayStatus") /\ m.arg = "LoginSuccess"
  BY DEF handleLoginSuccess
<1>3. Pops("client") /\ m \in OnTheWay("client") /\ ~Idle(m) /\ Kind(m) = "LoginSuccess"
  BY <1>1, <1>2, HandlerHead DEF ClientHandled, Statuses
<1>4. Offering
  BY <1>1, <1>3, ClientPhase
<1>5. CASE WriteFails("client", expected["client"]) /\ UNCHANGED queueVars
  BY <1>1, <1>2, <1>5, FailsFlow DEF WriteFails
<1>6. CASE /\ Send("client", <<r>>)
           /\ UNCHANGED <<formatVars, listen, expected, spawnVars, closed, packVars, frag, queueVars,
                          callVars>>
  <2>1. r \in Message /\ Kind(r) = "ClientCacheStatus"
    BY Messages, Kinds DEF Ids, ServerHandled
  <2> HIDE DEF r
  <2>2. Took("client") /\ Gains("server", {r})
    BY <1>1, <1>3, <1>6, <2>1, AnswersOne
  <2>3. Comes("server", {})
    BY <1>3, <1>4 DEF Offering, Coming
  <2>4. InOrder("server")' /\ Comes("server", {"ClientCacheStatus"})'
    BY <2>1, <2>2, <2>3, GainsOne
  <2>5. Comes("client", {"ResourcePacksInfo"})' /\ InOrder("client")'
    BY <1>3, <2>2, TookLeaves DEF Precedes
  <2>6. Comes("client", {"LoginSuccess", "ResourcePacksInfo"})' /\ ~Coming("client", "LoginSuccess")'
    BY <2>5 DEF Comes, Coming
  <2>7. Fresh' /\ Connecting' /\ ExpectsChoice' /\ ExpectsLogin'
    BY <1>4, <1>6 DEF Offering, Fresh, Connecting, ExpectsChoice, ExpectsLogin, Expects
  <2>8. Offering'
    BY <2>4, <2>6, <2>7 DEF Offering
  <2> QED BY <2>4, <2>5, <2>8 DEF Flow, PhaseInv
<1> QED BY <1>5, <1>6 DEF handleLoginSuccess

LEMMA FailedFlow ==
  ASSUME LoginInv, Flow, handleLoginFailed
  PROVE  Flow'
BY FailsFlow DEF handleLoginFailed, HandlerFails, queueVars, Sides

LEMMA PacksInfoFlow ==
  ASSUME LoginInv, Flow, handleResourcePacksInfo
  PROVE  Flow'
<1> USE DEF sendVars, formatVars, spawnVars, queueVars, callVars
<1> DEFINE m == pk("client")
<1>1. /\ LoginTypeOK /\ CallTypeOK /\ InOrder("client") /\ InOrder("server") /\ PhaseInv
      /\ "client" \in Sides /\ Other("client") = "server"
  BY DEF LoginInv, LoginTypeOK, Flow, Sides, Other
<1>2. Handle("client", "ResourcePacksInfo")
  BY DEF handleResourcePacksInfo
<1>3. Pops("client") /\ m \in OnTheWay("client") /\ ~Idle(m) /\ Kind(m) = "ResourcePacksInfo"
  BY <1>1, <1>2, HandlerHead DEF ClientHandled
<1>4. Offering
  BY <1>1, <1>3, ClientPhase
<1>5. NoPacks
  BY <1>2, OfferedFirst DEF LoginInv, LoginTypeOK
<1>6. Counted'
  BY <1>1, PacksInfoCounts DEF LoginInv
<1>7. /\ listen' = listen /\ Fresh' /\ Connecting'
  BY <1>4 DEF handleResourcePacksInfo, Offering, Fresh, Connecting
<1>8. ASSUME Took("client") PROVE Comes("client", {})' /\ InOrder("client")'
  BY <1>3, <1>8, TookLeaves DEF Precedes
<1>9. ASSUME NEW r, Kind(r) \in {"SendPacks", "AllPacksDownloaded"}, Gains("server", {r})
      PROVE  /\ InOrder("server")' /\ Comes("server", {"ClientCacheStatus", Kind(r)})'
             /\ \A n \in OnTheWay("server")' : Idle(n) \/ Kind(n) = "ClientCacheStatus" \/ n = r
  <2>1. \A n \in OnTheWay("server") : Idle(n) \/ Kind(n) = "ClientCacheStatus"
    BY <1>4 DEF Offering, Comes
  <2>2. AllFollow(OnTheWay("server"), {r})
    BY <1>9, <2>1 DEF AllFollow, Follows, Precedes
  <2>3. \A n \in OnTheWay("server")' : Idle(n) \/ Kind(n) = "ClientCacheStatus" \/ n = r
    BY <1>9, <2>1 DEF Gains
  <2> QED BY <1>9, <2>2, <2>3 DEF Gains, Comes
<1>10. ASSUME NEW ids, expect("client", ids) PROVE Expects("client", ids)' /\ ExpectsChoice'
  BY <1>1, <1>4, <1>7, <1>10, ExpectKeeps DEF Offering, ExpectsChoice
<1>11. ASSUME NEW packs \in SUBSET Packs, downloading' = packs,
              expect("client", {"ResourcePackDataInfo", "ResourcePackChunkData", "PlayStatus"}),
              Send("client", <<Response("SendPacks", packs)>>), UNCHANGED announced
       PROVE  Flow'
  <2> DEFINE r == Response("SendPacks", packs)
  <2>1. r \in Message /\ Kind(r) = "SendPacks" /\ r.packs = packs
    BY Messages, Kinds DEF Args, Responses
  <2> HIDE DEF r
  <2>2. Took("client") /\ Gains("server", {r})
    <3>1. Send("client", <<r>>)
      BY <1>11 DEF r
    <3> QED BY <1>1, <1>3, <2>1, <3>1, AnswersOne
  <2>3. /\ InOrder("server")' /\ Comes("server", {"ClientCacheStatus", "SendPacks"})'
        /\ \A n \in OnTheWay("server")' : Idle(n) \/ Kind(n) = "ClientCacheStatus" \/ n = r
    BY <1>9, <2>1, <2>2
  <2>4. \A n \in OnTheWay("server")' : Kind(n) = "SendPacks" => n.packs = downloading'
    BY <1>11, <2>1, <2>3, IdleKind
  <2>5. announced' = 0 /\ ExpectsPacks' /\ ExpectsChoice'
    BY <1>5, <1>10, <1>11 DEF NoPacks, ExpectsPacks
  <2>6. Choosing'
    BY <1>7, <1>8, <2>2, <2>3, <2>4, <2>5 DEF Choosing
  <2> QED BY <1>8, <2>2, <2>3, <2>6 DEF Flow, PhaseInv
<1>12. ASSUME Packs \subseteq resourcePacks' \cup ignored',
              expect("client", {"ResourcePackStack", "PlayStatus"}),
              Send("client", <<Response("AllPacksDownloaded", {})>>), announced' = announced + 1
       PROVE  Flow'
  <2> DEFINE r == Response("AllPacksDownloaded", {})
  <2>1. r \in Message /\ Kind(r) = "AllPacksDownloaded"
    BY Messages, Kinds DEF Args, Responses
  <2> HIDE DEF r
  <2>2. Took("client") /\ Gains("server", {r})
    <3>1. Send("client", <<r>>)
      BY <1>12 DEF r
    <3> QED BY <1>1, <1>3, <2>1, <3>1, AnswersOne
  <2>3. InOrder("server")' /\ Comes("server", {"ClientCacheStatus", "AllPacksDownloaded"})'
    BY <1>9, <2>1, <2>2
  <2>4. announced' = 1
    BY <1>5, <1>12 DEF NoPacks
  <2>5. packAmount' = 0
    <3>1. Packs \ (resourcePacks' \cup ignored') = {}
      BY <1>12
    <3>2. Cardinality({}) = 0
      BY FS_EmptySet
    <3> QED BY <1>6, <3>1, <3>2 DEF Counted
  <2>6. ExpectsChoice' /\ Expects("client", {"ResourcePackStack", "PlayStatus"})'
    BY <1>10, <1>12
  <2>7. ExpectsResponse'
    BY <2>6 DEF ExpectsChoice, Expects, ExpectsResponse
  <2>8. ~loggedIn'["server"]
    BY <1>7 DEF Fresh
  <2>9. Announcing'
    BY <1>7, <1>8, <2>2, <2>3, <2>4, <2>5, <2>6, <2>7, <2>8 DEF Announcing
  <2> QED BY <1>8, <2>2, <2>3, <2>9 DEF Flow, PhaseInv
<1>13. PICK declined \in SUBSET Declined, cached \in SUBSET Cached :
         LET packsToDownload == Packs \ (declined \cup cached) IN
         /\ PacksInfo(declined, cached)
         /\ IF packsToDownload # {}
            THEN /\ expect("client", {"ResourcePackDataInfo", "ResourcePackChunkData", "PlayStatus"})
                 /\ Send("client", <<Response("SendPacks", packsToDownload)>>)
                 /\ UNCHANGED announced
            ELSE /\ expect("client", {"ResourcePackStack", "PlayStatus"})
                 /\ Send("client", <<Response("AllPacksDownloaded", {})>>)
                 /\ announced' = announced + 1
  BY DEF handleResourcePacksInfo
<1> DEFINE packsToDownload == Packs \ (declined \cup cached)
<1>14. CASE packsToDownload # {}
  <2>1. packsToDownload \in SUBSET Packs /\ downloading' = packsToDownload
    BY <1>13 DEF PacksInfo
  <2> QED BY <1>11, <1>13, <1>14, <2>1
<1>15. CASE packsToDownload = {}
  <2>1. Packs \subseteq resourcePacks' \cup ignored'
    BY <1>13, <1>15 DEF PacksInfo
  <2> QED BY <1>12, <1>13, <1>15, <2>1
<1> QED BY <1>14, <1>15

LEMMA DataInfoFlow ==
  ASSUME LoginInv, Flow, handleResourcePackDataInfo
  PROVE  Flow'
<1> USE DEF sendVars, formatVars, spawnVars, queueVars, callVars
<1> DEFINE m == pk("client")
           p == m.pack
<1>1. /\ LoginTypeOK /\ CallTypeOK /\ InOrder("client") /\ InOrder("server") /\ PhaseInv
      /\ "client" \in Sides /\ Other("client") = "server"
  BY DEF LoginInv, LoginTypeOK, Flow, Sides, Other
<1>2. Handle("client", "ResourcePackDataInfo")
  BY DEF handleResourcePackDataInfo
<1>3. /\ Pops("client") /\ m \in OnTheWay("client") /\ ~Idle(m) /\ Kind(m) = "ResourcePackDataInfo"
      /\ listen["client"] = "run"
  BY <1>1, <1>2, HandlerHead DEF ClientHandled
<1>4. CASE HandlerFails("client", <<>>)
  BY <1>1, <1>2, <1>4, FailsFlow DEF HandlerFails
<1>5. CASE /\ downloading' = downloading \ {p} /\ dl' = [dl EXCEPT ![p] = "request"]
           /\ Send("client", <<>>)
           /\ UNCHANGED <<formatVars, listen, expected, spawnVars, closed, packAmount, resourcePacks,
                          ignored, dlIndex, dlAmount, announced, frag, queueVars, callVars>>
  <2>1. Serving
    BY <1>1, <1>3, ClientPhase
  <2>2. /\ p = currentPack /\ dl[currentPack] = "none" /\ currentPack \in Packs \ toDownload
        /\ dlIndex[currentPack] = 0 /\ toDownload \subseteq downloading
    BY <1>3, <2>1 DEF Serving, Downloading
  <2>3. frag = NoPack
    BY <1>3, <2>1 DEF Serving, Downloading
  <2>4. Comes("server", {})
    <3>1. ~Coming("server", "ResourcePackChunkRequest")
      BY <2>1, <2>2 DEF Serving, Downloading, Expecting
    <3> QED BY <2>1, <3>1 DEF Serving, Comes, Coming
  <2>5. Took("client") /\ Gains("server", {})
    BY <1>1, <1>3, <1>5, AnswersNone
  <2>6. InOrder("server")' /\ Comes("server", {})'
    BY <2>4, <2>5, GainsNone
  <2>7. Comes("client", {})' /\ InOrder("client")'
    BY <1>3, <2>5, TookLeaves DEF Precedes
  <2>8. /\ ~Coming("server", "ResourcePackChunkRequest")'
        /\ Comes("server", {"ResourcePackChunkRequest"})'
        /\ Comes("client", {"ResourcePackDataInfo", "ResourcePackChunkData"})'
    BY <2>6, <2>7 DEF Comes, Coming
  <2>9. \A n \in OnTheWay("client")' :
          Kind(n) # "ResourcePackDataInfo" /\ Kind(n) # "ResourcePackChunkData"
    BY <2>7, IdleKind DEF Comes
  <2>10. /\ dl'[currentPack] = "request"
         /\ \A q \in Packs : q # currentPack => dl'[q] = dl[q]
    BY <1>1, <1>5, <2>2 DEF LoginTypeOK, PackTypeOK
  <2>11. frag' = NoPack /\ dlIndex' = dlIndex /\ currentPack' = currentPack
    BY <1>5, <2>3
  <2>12. Silent'
    BY <2>6, <2>7, <2>11 DEF Silent
  <2>13. Downloading'
    <3>1. \A q \in Packs : dl'[q] = "none" => dlIndex'[q] = 0
      BY <2>1, <2>10, <2>11 DEF Serving, Downloading
    <3>2. \A q \in Packs : dl'[q] = "request" => q = currentPack'
      BY <2>1, <2>10, <2>11 DEF Serving, Downloading
    <3> QED BY <2>8, <2>9, <2>11, <2>12, <3>1, <3>2 DEF Downloading
  <2>14. listen'["server"] = "done" \/ Uploading'
    <3> SUFFICES ASSUME listen["server"] # "done" PROVE Uploading'
      BY <1>5
    <3>1. Uploading /\ currentOffset = 0 /\ 0 < ChunkCount
      BY <2>1, <2>2, LoginAssumption DEF Serving, Uploading
    <3>2. expected["server"] = {"ResourcePackChunkRequest"} /\ Missing(currentPack)
      BY <3>1 DEF Uploading
    <3>3. Missing(currentPack)' /\ expected' = expected /\ currentOffset' = currentOffset
      BY <1>5, <3>2 DEF Missing
    <3>4. ~ChunkComing'
      BY <2>2, <2>9, <2>11, LoginAssumption DEF ChunkComing
    <3> QED BY <2>2, <2>10, <2>11, <3>1, <3>2, <3>3, <3>4 DEF Uploading
  <2>15. /\ ~loggedIn'["server"] /\ Connecting' /\ announced' = 0
         /\ \A q \in Packs : dl'[q] # "announce"
         /\ toDownload' = toDownload /\ toDownload \subseteq downloading'
    BY <1>5, <2>1, <2>2, <2>10 DEF Serving, Connecting
  <2>16. ExpectsPacks'
    BY <1>5, <2>1 DEF Serving, ExpectsPacks, Expects
  <2>17. Serving'
    BY <2>2, <2>8, <2>11, <2>13, <2>14, <2>15, <2>16 DEF Serving
  <2> QED BY <2>6, <2>7, <2>17 DEF Flow, PhaseInv
<1> QED BY <1>4, <1>5 DEF handleResourcePackDataInfo

LEMMA ChunkDataFlow ==
  ASSUME LoginInv, Flow, handleResourcePackChunkData
  PROVE  Flow'
<1> USE DEF sendVars, formatVars, spawnVars, queueVars, callVars
<1> DEFINE m == pk("client")
           p == m.pack
<1>1. /\ LoginTypeOK /\ CallTypeOK /\ InOrder("client") /\ InOrder("server") /\ PhaseInv
      /\ "client" \in Sides /\ Other("client") = "server"
  BY DEF LoginInv, LoginTypeOK, Flow, Sides, Other
<1>2. Handle("client", "ResourcePackChunkData")
  BY DEF handleResourcePackChunkData
<1>3. /\ Pops("client") /\ m \in OnTheWay("client") /\ ~Idle(m) /\ Kind(m) = "ResourcePackChunkData"
      /\ listen["client"] = "run"
  BY <1>1, <1>2, HandlerHead DEF ClientHandled
<1>4. CASE HandlerFails("client", <<>>)
  BY <1>1, <1>2, <1>4, FailsFlow DEF HandlerFails
<1>5. CASE /\ listen' = [listen EXCEPT !["client"] = "frag"] /\ frag' = p
           /\ UNCHANGED <<sendVars, formatVars, expected, spawnVars, closed, packAmount, downloading,
                          resourcePacks, ignored, dl, dlIndex, dlAmount, announced, queueVars, callVars>>
  <2>1. Serving
    BY <1>1, <1>3, ClientPhase
  <2>2. Expecting(p) /\ frag = NoPack
    BY <1>3, <2>1 DEF Serving, Downloading
  <2>3. ~Comes("client", {})
    BY <1>3 DEF Comes
  <2>4. ~Coming("server", "ResourcePackChunkRequest") /\ \A q \in Packs : dl[q] # "request"
    BY <2>1, <2>3 DEF Serving, Downloading, Silent
  <2>5. Took("client") /\ Gains("server", {})
    BY <1>1, <1>3, <1>5, AnswersNone
  <2>6. /\ InOrder("server")' /\ Comes("server", {"ResourcePackChunkRequest"})'
        /\ ~Coming("server", "ResourcePackChunkRequest")'
    BY <2>1, <2>4, <2>5, GainsNone DEF Serving
  <2>7. /\ InOrder("client")' /\ Comes("client", {"ResourcePackDataInfo"})'
        /\ Comes("client", {"ResourcePackDataInfo", "ResourcePackChunkData"})'
    BY <1>3, <2>5, TookLeaves DEF Precedes
  <2>8. \A n \in OnTheWay("client")' : n \in OnTheWay("client") /\ Kind(n) # "ResourcePackChunkData"
    BY <2>5, <2>7, IdleKind DEF Took, Comes
  <2>9. listen'["client"] = "frag" /\ listen'["server"] = listen["server"]
    BY <1>1, <1>5 DEF CallTypeOK, Sides
  <2>10. Expecting(frag)'
    BY <1>5, <2>2 DEF Expecting, Missing
  <2>11. Downloading'
    <3>1. \A n \in OnTheWay("client")' :
            Kind(n) = "ResourcePackDataInfo" =>
              n.pack = currentPack' /\ dl'[currentPack'] = "none" /\ Missing(currentPack)'
      BY <1>5, <2>1, <2>8 DEF Serving, Downloading, Missing
    <3>2. \A q \in Packs : dl'[q] # "request" /\ (dl'[q] = "none" => dlIndex'[q] = 0)
      BY <1>5, <2>1, <2>4 DEF Serving, Downloading
    <3> QED BY <1>5, <2>6, <2>8, <2>9, <2>10, <3>1, <3>2 DEF Downloading
  <2>12. listen'["server"] = "done" \/ Uploading'
    <3> SUFFICES ASSUME listen["server"] # "done" PROVE Uploading'
      BY <2>9
    <3>1. Uploading /\ currentPack \in Packs
      BY <2>1 DEF Serving
    <3>2. ChunkComing' => ChunkComing
      BY <1>3, <1>5, <2>8 DEF ChunkComing
    <3>3. Missing(currentPack)' = Missing(currentPack)
      BY <1>5 DEF Missing
    <3> QED BY <1>5, <2>4, <2>6, <3>1, <3>2, <3>3 DEF Uploading
  <2>13. ExpectsPacks'
    BY <1>3, <1>5, <2>1, <2>9 DEF Serving, ExpectsPacks, Expects
  <2>14. Serving'
    BY <1>5, <2>1, <2>6, <2>7, <2>11, <2>12, <2>13 DEF Serving, Connecting
  <2> QED BY <2>6, <2>7, <2>14 DEF Flow, PhaseInv
<1> QED BY <1>4, <1>5 DEF handleResourcePackChunkData

LEMMA StackFlow ==
  ASSUME LoginInv, Flow, handleResourcePackStack
  PROVE  Flow'
<1> USE DEF sendVars, formatVars, spawnVars, packVars, queueVars, callVars
<1> DEFINE m == pk("client")
           r == Response("Completed", {})
<1>1. /\ LoginTypeOK /\ CallTypeOK /\ InOrder("client") /\ InOrder("server") /\ PhaseInv
      /\ "client" \in Sides /\ Other("client") = "server"
  BY DEF LoginInv, LoginTypeOK, Flow, Sides, Other
<1>2. Handle("client", "ResourcePackStack")
  BY DEF handleResourcePackStack
<1>3. Pops("client") /\ m \in OnTheWay("client") /\ ~Idle(m) /\ Kind(m) = "ResourcePackStack"
  BY <1>1, <1>2, HandlerHead DEF ClientHandled
<1>4. Stacking
  BY <1>1, <1>3, ClientPhase
<1>5. CASE HandlerFails("client", <<>>)
  BY <1>1, <1>2, <1>5, FailsFlow DEF HandlerFails
<1>6. CASE /\ expect("client", {"DimensionData", "StartGame"}) /\ Send("client", <<r>>)
           /\ UNCHANGED <<formatVars, listen, spawnVars, closed, packVars, frag, queueVars, callVars>>
  <2>1. r \in Message /\ Kind(r) = "Completed"
    BY Messages, Kinds DEF Args, Responses
  <2> HIDE DEF r
  <2>2. Took("client") /\ Gains("server", {r})
    BY <1>1, <1>3, <1>6, <2>1, AnswersOne
  <2>3. InOrder("server")' /\ Comes("server", {"Completed"})'
    BY <1>4, <2>1, <2>2, GainsOne DEF Stacking
  <2>4. Comes("client", {})' /\ InOrder("client")'
    BY <1>3, <2>2, TookLeaves DEF Precedes
  <2>5. Expects("client", {"DimensionData", "StartGame"})' /\ expected'["server"] = expected["server"]
    BY <1>1, <1>6, ExpectKeeps DEF expect, CallTypeOK, Sides
  <2>6. ExpectsResponse' /\ ~loggedIn'["server"] /\ Connecting' /\ announced' = 1
    BY <1>4, <1>6, <2>5 DEF Stacking, ExpectsResponse, Connecting
  <2>7. Completing'
    BY <2>3, <2>4, <2>5, <2>6 DEF Completing
  <2> QED BY <2>3, <2>4, <2>7 DEF Flow, PhaseInv
<1> QED BY <1>5, <1>6 DEF handleResourcePackStack

LEMMA DimensionFlow ==
  ASSUME LoginInv, Flow, handleDimensionData
  PROVE  Flow'
<1> USE DEF sendVars, formatVars, packVars, queueVars, callVars
<1>1. /\ LoginTypeOK /\ CallTypeOK /\ InOrder("client") /\ InOrder("server")
      /\ "client" \in Sides /\ Other("client") = "server"
  BY DEF LoginInv, LoginTypeOK, Flow, Sides, Other
<1>2. Handle("client", "DimensionData")
  BY DEF handleDimensionData, Note
<1>3. Pops("client") /\ Kind(pk("client")) = "DimensionData"
  BY <1>1, <1>2, HandlerHead DEF ClientHandled
<1>4. Took("client") /\ Gains("server", {})
  BY <1>1, <1>3, AnswersNone DEF handleDimensionData, Note
<1>5. Undisturbed /\ InOrder("client")' /\ InOrder("server")'
  BY <1>1, <1>3, <1>4, TookQuietly
<1>6. UNCHANGED <<listen, closed>> /\ expected' = [expected EXCEPT !["client"] = expected["client"]]
  BY DEF handleDimensionData, Note, expect
<1>7. UNCHANGED expected
  BY <1>1, <1>6 DEF CallTypeOK
<1>8. Attentive
  BY <1>1, <1>6, <1>7, StayAttentive
<1>9. Resting
  BY DEF handleDimensionData, Note, Resting
<1> QED BY <1>5, <1>8, <1>9, Keeping

LEMMA GameFlow ==
  ASSUME LoginInv, Flow, handleStartGame
  PROVE  Flow'
<1> USE DEF sendVars, formatVars, packVars, queueVars, callVars
<1> DEFINE m == pk("client")
<1>1. /\ LoginTypeOK /\ CallTypeOK /\ InOrder("client") /\ InOrder("server") /\ PhaseInv
      /\ "client" \in Sides /\ Other("client") = "server"
  BY DEF LoginInv, LoginTypeOK, Flow, Sides, Other
<1>2. Handle("client", "StartGame")
  BY DEF handleStartGame, Note
<1>3. Pops("client") /\ m \in OnTheWay("client") /\ ~Idle(m) /\ Kind(m) = "StartGame"
  BY <1>1, <1>2, HandlerHead DEF ClientHandled
<1>4. Starting
  BY <1>1, <1>3, ClientPhase
<1>5. Took("client") /\ Gains("server", {})
  BY <1>1, <1>3, AnswersNone DEF handleStartGame, Note
<1>6. InOrder("server")' /\ Comes("server", {})'
  BY <1>4, <1>5, GainsNone DEF Starting
<1>7. /\ InOrder("client")' /\ Comes("client", {"ItemRegistry"})'
      /\ \A K : Comes("client", K) => Comes("client", K)'
  BY <1>3, <1>5, TookLeaves DEF Precedes
<1>8. start \notin Writing
  BY <1>3, <1>4 DEF Starting, Comes
<1>9. start = "write 5" => Comes("client", {})'
  <2>1. start = "write 5" => Comes("client", {"DimensionData", "StartGame"})'
    BY <1>4, <1>7 DEF Starting
  <2>2. Comes("client", {"ItemRegistry"})' /\ Comes("client", {"DimensionData", "StartGame"})'
          => Comes("client", {})'
    BY DEF Comes
  <2> QED BY <1>7, <2>1, <2>2
<1>10. UNCHANGED <<listen, closed, loggedIn, waitingForSpawn, gameDataReceived, announced, dial, start>>
  BY DEF handleStartGame, Note
<1>11. /\ Expects("client", {"ItemRegistry"})'
       /\ \A x : Expects("server", x) => Expects("server", x)'
  BY <1>1, <1>10, ExpectKeeps DEF handleStartGame, Note
<1>12. NotSpawned' /\ ExpectsSpawn'
  BY <1>4, <1>10, <1>11 DEF Starting, NotSpawned, Started, Connecting, ExpectsSpawn
<1>13. Registering'
  BY <1>4, <1>6, <1>7, <1>8, <1>9, <1>10, <1>11, <1>12 DEF Starting, Registering
<1> QED BY <1>6, <1>7, <1>13 DEF Flow, PhaseInv

LEMMA RegistryFlow ==
  ASSUME LoginInv, Flow, handleItemRegistry
  PROVE  Flow'
<1> USE DEF sendVars, formatVars, packVars, queueVars, callVars
<1> DEFINE m == pk("client")
           r == Pk("RequestChunkRadius")
<1>1. /\ LoginTypeOK /\ CallTypeOK /\ InOrder("client") /\ InOrder("server") /\ PhaseInv
      /\ "client" \in Sides /\ Other("client") = "server"
  BY DEF LoginInv, LoginTypeOK, Flow, Sides, Other
<1>2. Handle("client", "ItemRegistry")
  BY DEF handleItemRegistry, Note
<1>3. /\ Pops("client") /\ m \in OnTheWay("client") /\ ~Idle(m) /\ Kind(m) = "ItemRegistry"
      /\ listen["client"] = "run" /\ "ItemRegistry" \in expected["client"]
  BY <1>1, <1>2, HandlerHead DEF ClientHandled
<1>4. Registering
  <2>1. Starting \/ Registering
    BY <1>1, <1>3, ClientPhase
  <2>2. ~Starting
    BY <1>3 DEF Starting, Expects
  <2> QED BY <2>1, <2>2
<1>5. start \in Written
  BY <1>3, <1>4 DEF Registering, Comes
<1>6. r \in Message /\ Kind(r) = "RequestChunkRadius"
  BY Messages, Kinds DEF Ids, ServerHandled
<1>7. Send("client", <<r>>)
  BY DEF handleItemRegistry, Note
<1> HIDE DEF r
<1>8. Took("client") /\ Gains("server", {r})
  BY <1>1, <1>3, <1>6, <1>7, AnswersOne
<1>9. InOrder("server")' /\ Comes("server", {"RequestChunkRadius"})'
  BY <1>4, <1>6, <1>8, GainsOne DEF Registering
<1>10. InOrder("client")' /\ Comes("client", {})'
  BY <1>3, <1>8, TookLeaves DEF Precedes
<1>11. UNCHANGED <<listen, closed, loggedIn, waitingForSpawn, gameDataReceived, announced, dial, start>>
  BY DEF handleItemRegistry, Note
<1>12. /\ Expects("client", {"ChunkRadiusUpdated", "PlayStatus"})'
       /\ \A x : Expects("server", x) => Expects("server", x)'
  BY <1>1, <1>11, ExpectKeeps DEF handleItemRegistry, Note
<1>13. NotSpawned' /\ ExpectsSpawn'
  BY <1>4, <1>11, <1>12 DEF Registering, NotSpawned, Started, Connecting, ExpectsSpawn
<1>14. Chunking'
  BY <1>5, <1>9, <1>10, <1>11, <1>12, <1>13 DEF Chunking
<1> QED BY <1>9, <1>10, <1>14 DEF Flow, PhaseInv

LEMMA RadiusFlow ==
  ASSUME LoginInv, Flow, handleChunkRadiusUpdated
  PROVE  Flow'
<1> USE DEF sendVars, formatVars, packVars, queueVars, callVars
<1> DEFINE m == pk("client")
<1>1. /\ LoginTypeOK /\ CallTypeOK /\ InOrder("client") /\ InOrder("server") /\ PhaseInv
      /\ "client" \in Sides /\ "server" \in Sides /\ Other("client") = "server" /\ SpawnTypeOK
  BY DEF LoginInv, LoginTypeOK, Flow, Sides, Other
<1>2. Handle("client", "ChunkRadiusUpdated")
  BY DEF handleChunkRadiusUpdated
<1>3. /\ Pops("client") /\ m \in OnTheWay("client") /\ ~Idle(m) /\ Kind(m) = "ChunkRadiusUpdated"
      /\ listen["client"] = "run" /\ "ChunkRadiusUpdated" \in expected["client"]
  BY <1>1, <1>2, HandlerHead DEF ClientHandled
<1>4. Finishing
  BY <1>1, <1>3, ClientPhase
<1>5. ~waitingForSpawn["client"]
  BY <1>3, <1>4 DEF Finishing, Comes
<1>6. /\ waitingForSpawn' = [waitingForSpawn EXCEPT !["client"] = waitingForSpawn["client"]]
      /\ gameDataReceived' = TRUE /\ Send("client", <<>>) /\ UNCHANGED <<loggedIn, listen>>
      /\ UNCHANGED <<announced, dial, start>>
  BY <1>5 DEF handleChunkRadiusUpdated, tryFinaliseClientConn
<1>7. waitingForSpawn' = waitingForSpawn
  BY <1>1, <1>6 DEF SpawnTypeOK
<1>8. Took("client") /\ Gains("server", {})
  BY <1>1, <1>3, <1>6, AnswersNone
<1>9. InOrder("server")' /\ Comes("server", {})'
  BY <1>4, <1>8, GainsNone DEF Finishing
<1>10. /\ InOrder("client")' /\ Comes("client", {"PlayerSpawn"})'
       /\ Comes("client", {"ChunkRadiusUpdated", "PlayerSpawn"})'
  BY <1>3, <1>8, TookLeaves DEF Precedes
<1>11. /\ Expects("client", {"PlayStatus", "ResourcePacksInfo"})'
       /\ \A x : Expects("server", x) => Expects("server", x)'
  BY <1>1, <1>6, ExpectKeeps DEF handleChunkRadiusUpdated
<1>12. Started'
  BY <1>4, <1>6 DEF Finishing, Started, Connecting
<1>13. Finishing'
  BY <1>4, <1>5, <1>6, <1>7, <1>9, <1>10, <1>11, <1>12 DEF Finishing
<1> QED BY <1>9, <1>10, <1>13 DEF Flow, PhaseInv

LEMMA SpawnFlow ==
  ASSUME LoginInv, Flow, handlePlayerSpawn
  PROVE  Flow'
<1> USE DEF sendVars, formatVars, packVars, queueVars, callVars
<1> DEFINE m == pk("client")
           r == Pk("SetLocalPlayerAsInitialised")
<1>1. /\ LoginTypeOK /\ CallTypeOK /\ InOrder("client") /\ InOrder("server") /\ PhaseInv
      /\ "client" \in Sides /\ "server" \in Sides /\ Other("client") = "server" /\ SpawnTypeOK
  BY DEF LoginInv, LoginTypeOK, Flow, Sides, Other
<1>2. Handle("client", "PlayStatus") /\ m.arg = "PlayerSpawn"
  BY DEF handlePlayerSpawn
<1>3. /\ Pops("client") /\ m \in OnTheWay("client") /\ ~Idle(m) /\ Kind(m) = "PlayerSpawn"
  BY <1>1, <1>2, HandlerHead DEF ClientHandled, Statuses
<1>4. Finishing
  BY <1>1, <1>3, ClientPhase
<1>5. ASSUME Took("client") PROVE InOrder("client")' /\ Comes("client", {})'
  BY <1>3, <1>5, TookLeaves DEF Precedes
<1>6. UNCHANGED <<expected, announced, dial, start>>
  BY DEF handlePlayerSpawn
<1>7. CASE gameDataReceived
  <2>1. /\ waitingForSpawn' = [waitingForSpawn EXCEPT !["client"] = FALSE]
        /\ loggedIn' = [loggedIn EXCEPT !["client"] = TRUE]
        /\ listen' = [listen EXCEPT !["client"] = "connected"]
        /\ Send("client", <<r>>)
    BY <1>7 DEF handlePlayerSpawn, tryFinaliseClientConn
  <2>2. r \in Message /\ Kind(r) = "SetLocalPlayerAsInitialised"
    BY Messages, Kinds DEF Ids, ServerHandled
  <2> HIDE DEF r
  <2>3. Took("client") /\ Gains("server", {r})
    BY <1>1, <1>3, <2>1, <2>2, AnswersOne
  <2>4. InOrder("server")' /\ Comes("server", {"SetLocalPlayerAsInitialised"})'
    BY <1>4, <2>2, <2>3, GainsOne DEF Finishing
  <2>5. /\ waitingForSpawn'["server"] = waitingForSpawn["server"]
        /\ loggedIn'["server"] = loggedIn["server"] /\ loggedIn'["client"]
        /\ listen'["server"] = listen["server"]
    BY <1>1, <2>1 DEF SpawnTypeOK, CallTypeOK
  <2>6. Started' /\ waitingForSpawn'["server"] /\ Expects("server", {"SetLocalPlayerAsInitialised"})'
    BY <1>4, <1>6, <2>5 DEF Finishing, Started, Connecting, Expects
  <2>7. Joined'
    BY <1>4, <1>5, <1>6, <2>3, <2>4, <2>5, <2>6 DEF Finishing, Joined
  <2> QED BY <1>5, <2>3, <2>4, <2>7 DEF Flow, PhaseInv
<1>8. CASE ~gameDataReceived
  <2>1. /\ waitingForSpawn' = [waitingForSpawn EXCEPT !["client"] = TRUE]
        /\ gameDataReceived' = gameDataReceived /\ Send("client", <<>>) /\ UNCHANGED <<loggedIn, listen>>
    BY <1>8 DEF handlePlayerSpawn, tryFinaliseClientConn
  <2>2. Took("client") /\ Gains("server", {})
    BY <1>1, <1>3, <2>1, AnswersNone
  <2>3. InOrder("server")' /\ Comes("server", {})'
    BY <1>4, <2>2, GainsNone DEF Finishing
  <2>4. waitingForSpawn'["server"] = waitingForSpawn["server"]
    BY <1>1, <2>1 DEF SpawnTypeOK
  <2>5. Comes("client", {"ChunkRadiusUpdated", "PlayerSpawn"})'
    BY <1>5, <2>2 DEF Comes
  <2>6. Started' /\ Expects("server", {"SetLocalPlayerAsInitialised"})'
        /\ Expects("client", {"ChunkRadiusUpdated", "PlayStatus"})'
    BY <1>4, <1>6, <1>8, <2>1 DEF Finishing, Started, Connecting, Expects
  <2>7. Finishing'
    BY <1>4, <1>5, <1>6, <1>8, <2>1, <2>2, <2>3, <2>4, <2>5, <2>6 DEF Finishing
  <2> QED BY <1>5, <2>2, <2>3, <2>7 DEF Flow, PhaseInv
<1> QED BY <1>7, <1>8

LEMMA ClientFlow ==
  ASSUME LoginInv, Flow, ClientHandler
  PROVE  Flow'
BY SwitchFlow, ShakeFlow, SuccessFlow, FailedFlow, PacksInfoFlow, DataInfoFlow, ChunkDataFlow, StackFlow,
   DimensionFlow, GameFlow, RegistryFlow, RadiusFlow, SpawnFlow DEF ClientHandler

------------------------------------------------------------------------------
(* The downloads. *)

LEMMA PacksThere ==
  ASSUME LoginInv, NEW p \in Packs, packAmount = 0 \/ announced = 1
  PROVE  /\ dl[p] \notin {"request", "wait", "parse"}
         /\ announced = 1 => ~IsLast(p)
         /\ Counted => p \in resourcePacks \cup ignored
<1>1. CASE NoPacks /\ ~Counted
  BY <1>1 DEF NoPacks, IsLast
<1>2. CASE Counted
  <2>1. packAmount = 0
    BY <1>2 DEF Counted
  <2>2. IsFiniteSet(Packs \ (resourcePacks \cup ignored))
    BY FS_Difference, LoginAssumption
  <2>3. Packs \ (resourcePacks \cup ignored) = {}
    BY <1>2, <2>1, <2>2, FS_EmptySet DEF Counted
  <2>4. p \in resourcePacks \cup ignored
    BY <2>3
  <2> QED BY <1>2, <2>4 DEF Counted
<1> QED BY <1>1, <1>2 DEF LoginInv, PackInv

LEMMA DownloadPhase ==
  ASSUME LoginInv, PhaseInv, NEW p \in Packs
  PROVE  /\ dl[p] \in {"request", "wait", "parse"} => Serving
         /\ IsLast(p) => Serving \/ (Announcing /\ announced = 0)
         /\ dl[p] \in {"request", "wait", "parse", "last", "announce"} => Counted
<1>1. Fresh => dl[p] = "none"
  BY DEF Fresh
<1>2. \/ Fresh \/ Serving \/ Announcing
      \/ announced = 1
  BY DEF PhaseInv, Calling, Requesting, Switching, Prepared, LoggingIn, Shaking, Answering, Offering,
         Choosing, Stacking, Completing, Entered, Starting, Registering, Chunking, Finishing, Joined,
         NotSpawned, Started
<1>3. Announcing => packAmount = 0
  BY DEF Announcing
<1>4. dl[p] \in {"request", "wait", "parse"} => Serving
  BY <1>1, <1>2, <1>3, PacksThere
<1>5. dl[p] \in {"request", "wait", "parse", "last", "announce"} => Counted
  BY DEF LoginInv, PackInv, NoPacks
<1>6. IsLast(p) => announced = 0
  BY <1>5 DEF IsLast, Counted
<1>7. IsLast(p) => Serving \/ (Announcing /\ announced = 0)
  BY <1>1, <1>2, <1>6 DEF IsLast
<1> QED BY <1>4, <1>5, <1>7

LEMMA RequestFlow ==
  ASSUME LoginInv, Flow, NEW p \in Packs, requestChunk(p)
  PROVE  Flow'
<1> USE DEF formatVars, spawnVars, queueVars, callVars, downloadVars
<1> DEFINE r == PackPk("ResourcePackChunkRequest", p, dlIndex[p])
<1>1. /\ LoginTypeOK /\ StreamTypeOK /\ PackTypeOK /\ InOrder("client") /\ InOrder("server") /\ PhaseInv
      /\ "client" \in Sides /\ Other("client") = "server"
  BY DEF LoginInv, LoginTypeOK, Flow, Sides, Other
<1>2. dl[p] = "request" /\ dl' = [dl EXCEPT ![p] = "wait"]
  BY DEF requestChunk
<1>3. Serving /\ Counted
  BY <1>1, <1>2, DownloadPhase
<1>4. p = currentPack /\ Silent
  BY <1>2, <1>3 DEF Serving, Downloading
<1>5. r \in Message /\ Kind(r) = "ResourcePackChunkRequest"
  BY <1>1, ChunkPackets, Kinds DEF PackTypeOK
<1>6. Buffer("client", <<r>>) /\ inbox' = inbox
  BY DEF requestChunk
<1> HIDE DEF r
<1>7. <<r>> \in Seq(Message) /\ Of(<<r>>) = {r} /\ Rising(<<r>>)
  BY <1>5, OfOne, RisingOne
<1>8. Gains("server", {r}) /\ Gains("client", {})
  BY <1>1, <1>6, <1>7, GainsBuffer
<1>9. InOrder("server")' /\ Comes("server", {"ResourcePackChunkRequest"})'
  BY <1>4, <1>5, <1>8, GainsOne DEF Silent
<1>10. InOrder("client")' /\ Comes("client", {})'
  BY <1>4, <1>8, GainsNone DEF Silent
<1>11. \A n \in OnTheWay("client")' :
         Kind(n) # "ResourcePackDataInfo" /\ Kind(n) # "ResourcePackChunkData"
  BY <1>10, IdleKind DEF Comes
<1>12. Comes("client", {"ResourcePackDataInfo", "ResourcePackChunkData"})'
  BY <1>10 DEF Comes
<1>13. /\ dl'[p] = "wait" /\ \A q \in Packs : q # p => dl'[q] = dl[q]
  BY <1>1, <1>2 DEF PackTypeOK
<1>14. /\ UNCHANGED <<dlIndex, resourcePacks, ignored, downloading, currentPack, currentOffset,
                      toDownload, announced, listen, expected, loggedIn, dial, frag>>
       /\ frag = NoPack
  BY <1>4 DEF requestChunk, Silent
<1>15. Missing(currentPack)' /\ Missing(currentPack)
  BY <1>2, <1>3, <1>4, <1>14 DEF Missing, Counted
<1>16. Expecting(currentPack)'
  BY <1>4, <1>13, <1>14, <1>15 DEF Expecting
<1>17. Downloading'
  <2>1. \A q \in Packs : dl'[q] # "request" /\ (dl'[q] = "none" => dlIndex'[q] = 0)
    BY <1>3, <1>4, <1>13, <1>14 DEF Serving, Downloading
  <2> QED BY <1>10, <1>11, <1>14, <1>16, <2>1 DEF Downloading
<1>18. listen'["server"] = "done" \/ Uploading'
  <2> SUFFICES ASSUME listen["server"] # "done" PROVE Uploading'
    BY <1>14
  <2>1. Uploading
    BY <1>3 DEF Serving
  <2>2. dlIndex[currentPack] = currentOffset /\ currentOffset < ChunkCount
    BY <1>2, <1>4, <2>1 DEF Uploading
  <2>3. expected["server"] = {"ResourcePackChunkRequest"}
    BY <1>1, <2>1, <2>2, LoginAssumption DEF Uploading, PackTypeOK
  <2>4. ~ChunkComing'
    BY <1>3, <1>11, <1>14, LoginAssumption DEF ChunkComing, Serving
  <2> QED BY <1>4, <1>13, <1>14, <1>15, <2>2, <2>3, <2>4 DEF Uploading
<1>19. ExpectsPacks'
  BY <1>3, <1>14 DEF Serving, ExpectsPacks, Expects
<1>20. Serving'
  BY <1>3, <1>9, <1>12, <1>13, <1>14, <1>17, <1>18, <1>19 DEF Serving, Connecting
<1> QED BY <1>9, <1>10, <1>20 DEF Flow, PhaseInv

LEMMA FragFlow ==
  ASSUME LoginInv, Flow, NEW p \in Packs, receiveFrag(p)
  PROVE  Flow'
<1> USE DEF formatVars, spawnVars, queueVars, callVars, downloadVars
<1>1. /\ LoginTypeOK /\ CallTypeOK /\ PackTypeOK /\ InOrder("client") /\ InOrder("server") /\ PhaseInv
      /\ "client" \in Sides /\ "server" \in Sides
  BY DEF LoginInv, LoginTypeOK, Flow, Sides
<1>2. dl[p] = "wait" /\ frag = p /\ frag # NoPack /\ listen["client"] = "frag"
  BY LoginAssumption DEF receiveFrag
<1>3. Serving
  BY <1>1, <1>2, DownloadPhase
<1>4. Gains("client", {}) /\ Gains("server", {})
  BY <1>1, SendsCalm DEF receiveFrag
<1>5. /\ InOrder("client")' /\ InOrder("server")'
      /\ Comes("client", {"ResourcePackDataInfo", "ResourcePackChunkData"})'
      /\ Comes("server", {"ResourcePackChunkRequest"})'
  BY <1>3, <1>4, GainsNone DEF Serving
<1>6. OnTheWay("client")' \subseteq OnTheWay("client")
  BY <1>4 DEF Gains
<1>7. \A n \in OnTheWay("client") : Kind(n) # "ResourcePackChunkData"
  BY <1>2, <1>3 DEF Serving, Downloading
<1>8. ~Coming("server", "ResourcePackChunkRequest") /\ \A q \in Packs : dl[q] # "request"
  BY <1>2, <1>3 DEF Serving, Downloading, Silent
<1>9. Comes("server", {})
  BY <1>3, <1>8 DEF Serving, Comes, Coming
<1>10. Comes("server", {})' /\ ~Coming("server", "ResourcePackChunkRequest")'
  BY <1>4, <1>8, <1>9, GainsNone
<1>11. p = currentPack => Comes("client", {})'
  <2>1. p = currentPack => Comes("client", {})
    BY <1>2, <1>3, <1>7 DEF Serving, Downloading, Comes
  <2> QED BY <1>4, <2>1, GainsNone
<1>12. Expecting(p)
  BY <1>2, <1>3 DEF Serving, Downloading
<1>13. /\ dlIndex'[p] = dlIndex[p] + 1
       /\ dl'[p] = IF dlIndex[p] + 1 = ChunkCount THEN "parse" ELSE "request"
       /\ \A q \in Packs : q # p => dl'[q] = dl[q] /\ dlIndex'[q] = dlIndex[q]
  BY <1>1 DEF receiveFrag, PackTypeOK
<1>14. /\ UNCHANGED <<resourcePacks, ignored, downloading, currentPack, currentOffset, toDownload,
                      announced, expected, loggedIn, dial>>
       /\ frag' = NoPack /\ listen'["client"] = "run" /\ listen'["server"] = listen["server"]
  BY <1>1 DEF receiveFrag, CallTypeOK
<1>15. Missing(currentPack)' = Missing(currentPack)
  BY <1>14 DEF Missing
<1>16. \A q \in Packs : dl'[q] = "request" => q = p /\ p = currentPack
  BY <1>8, <1>12, <1>13 DEF Expecting
<1>17. Downloading'
  <2>1. \A q \in Packs : dl'[q] = "none" => dlIndex'[q] = 0
    BY <1>3, <1>13 DEF Serving, Downloading
  <2>2. \A q \in Packs : dl'[q] = "request" => q = currentPack' /\ Silent'
    BY <1>10, <1>11, <1>14, <1>16 DEF Silent
  <2>3. \A n \in OnTheWay("client")' : Kind(n) = "ResourcePackDataInfo" =>
          n.pack = currentPack' /\ dl'[currentPack'] = "none" /\ Missing(currentPack)'
    <3>1. \A n \in OnTheWay("client")' : Kind(n) = "ResourcePackDataInfo" =>
            n.pack = currentPack /\ dl[currentPack] = "none" /\ Missing(currentPack)
      BY <1>3, <1>6 DEF Serving, Downloading
    <3>2. dl[currentPack] = "none" /\ currentPack \in Packs => dl'[currentPack] = "none"
      BY <1>2, <1>13
    <3> QED BY <1>3, <1>14, <1>15, <3>1, <3>2 DEF Serving
  <2>4. \A n \in OnTheWay("client")' : Kind(n) # "ResourcePackChunkData"
    BY <1>6, <1>7
  <2> QED BY <1>10, <1>14, <2>1, <2>2, <2>3, <2>4 DEF Downloading
<1>18. listen'["server"] = "done" \/ Uploading'
  <2> SUFFICES ASSUME listen["server"] # "done" PROVE Uploading'
    BY <1>14
  <2>1. Uploading /\ currentPack \in Packs
    BY <1>3 DEF Serving
  <2>2. ~ChunkComing'
    BY <1>6, <1>7, <1>14, <2>1, LoginAssumption DEF ChunkComing
  <2>3. CASE p # currentPack
    <3>1. dl'[currentPack] = dl[currentPack] /\ dlIndex'[currentPack] = dlIndex[currentPack]
      BY <1>13, <2>1, <2>3
    <3> QED BY <1>8, <1>10, <1>14, <1>15, <2>1, <2>2, <3>1 DEF Uploading
  <2>4. CASE p = currentPack
    <3>1. dlIndex[currentPack] + 1 = currentOffset
      BY <1>2, <2>1, <2>4 DEF Uploading, ChunkComing
    <3>2. /\ dlIndex'[currentPack] = currentOffset
          /\ dl'[currentPack] = IF currentOffset = ChunkCount THEN "parse" ELSE "request"
      BY <1>13, <2>4, <3>1
    <3>3. currentOffset \in Nat /\ ChunkCount \in Nat
      BY <1>1, LoginAssumption DEF PackTypeOK
    <3> QED BY <1>10, <1>14, <1>15, <2>1, <2>2, <3>2, <3>3 DEF Uploading
  <2> QED BY <2>3, <2>4
<1>19. ExpectsPacks'
  BY <1>2, <1>3, <1>14 DEF Serving, ExpectsPacks, Expects
<1>20. \A q \in Packs : dl'[q] # "announce"
  BY <1>3, <1>13 DEF Serving
<1>21. Serving'
  BY <1>3, <1>5, <1>14, <1>17, <1>18, <1>19, <1>20 DEF Serving, Connecting
<1> QED BY <1>5, <1>21 DEF Flow, PhaseInv

(* Steps that send and receive nothing. *)
LEMMA NothingSent ==
  ASSUME LoginInv, Flow, UNCHANGED <<inbox, buffered, net>>
  PROVE  /\ OnTheWay("client")' = OnTheWay("client") /\ OnTheWay("server")' = OnTheWay("server")
         /\ \A K : Comes("client", K)' = Comes("client", K) /\ Comes("server", K)' = Comes("server", K)
         /\ \A k : Coming("client", k)' = Coming("client", k)
                   /\ Coming("server", k)' = Coming("server", k)
         /\ Undisturbed /\ InOrder("client")' /\ InOrder("server")'
<1>1. OnTheWay("client")' = OnTheWay("client") /\ OnTheWay("server")' = OnTheWay("server")
  BY DEF OnTheWay
<1>2. Undisturbed
  BY <1>1 DEF Undisturbed, Sides
<1>3. InOrder("client")' /\ InOrder("server")'
  BY DEF Flow, InOrder
<1>4. \A K : Comes("client", K)' = Comes("client", K) /\ Comes("server", K)' = Comes("server", K)
  BY <1>1 DEF Comes
<1>5. \A k : Coming("client", k)' = Coming("client", k) /\ Coming("server", k)' = Coming("server", k)
  BY <1>1 DEF Coming
<1> QED BY <1>1, <1>2, <1>3, <1>4, <1>5

LEMMA GivesUpFlow ==
  ASSUME LoginInv, Flow, NEW p \in Packs, dl[p] \in {"wait", "parse", "last"},
         dl' = [dl EXCEPT ![p] = "done"],
         UNCHANGED <<downloadVars, sendVars, listen, expected, packAmount, resourcePacks, dlIndex,
                     announced, frag>>
  PROVE  Flow'
<1> USE DEF sendVars, formatVars, spawnVars, queueVars, callVars, downloadVars
<1>1. CallTypeOK /\ PackTypeOK
  BY DEF LoginInv, LoginTypeOK
<1>2. Undisturbed /\ InOrder("client")' /\ InOrder("server")'
  BY NothingSent
<1>3. Attentive
  BY <1>1, StayAttentive
<1>4. \A q \in Packs : dl'[q] = dl[q] \/ (dl[q] \in {"wait", "parse", "last"} /\ dl'[q] = "done")
  BY <1>1 DEF PackTypeOK
<1>5. Resting
  BY <1>4 DEF Resting
<1> QED BY <1>2, <1>3, <1>5, Keeping

LEMMA ParseFlow ==
  ASSUME LoginInv, Flow, NEW p \in Packs, dl[p] = "parse",
         dl' = [dl EXCEPT ![p] = "last"], resourcePacks' = resourcePacks \cup {p},
         UNCHANGED <<downloadVars, sendVars, listen, expected, dlIndex, announced, frag>>
  PROVE  Flow'
<1> USE DEF sendVars, formatVars, spawnVars, queueVars, callVars, downloadVars
<1>1. PhaseInv /\ PackTypeOK
  BY DEF LoginInv, LoginTypeOK, Flow
<1>2. Serving
  BY <1>1, DownloadPhase
<1>3. /\ OnTheWay("client")' = OnTheWay("client") /\ OnTheWay("server")' = OnTheWay("server")
      /\ \A K : Comes("client", K)' = Comes("client", K) /\ Comes("server", K)' = Comes("server", K)
      /\ \A k : Coming("client", k)' = Coming("client", k) /\ Coming("server", k)' = Coming("server", k)
      /\ InOrder("client")' /\ InOrder("server")'
  BY NothingSent
<1>4. dl'[p] = "last" /\ \A q \in Packs : q # p => dl'[q] = dl[q]
  BY <1>1 DEF PackTypeOK
<1>5. \A q : q # p => Missing(q)' = Missing(q)
  BY DEF Missing
<1>6. ASSUME NEW q, Expecting(q) PROVE Expecting(q)'
  <2>1. q # p /\ q \in Packs
    BY <1>6 DEF Expecting, Missing
  <2> QED BY <1>4, <1>5, <1>6, <2>1 DEF Expecting
<1>7. currentPack' = currentPack /\ currentPack \in Packs
  BY <1>2 DEF Serving
<1>8. Downloading'
  <2>1. \A q \in Packs : dl'[q] = "none" => dlIndex'[q] = 0
    BY <1>2, <1>4 DEF Serving, Downloading
  <2>2. \A q \in Packs : dl'[q] = "request" => q = currentPack' /\ Silent'
    <3>1. Silent => Silent'
      BY <1>3 DEF Silent
    <3> QED BY <1>2, <1>4, <3>1 DEF Serving, Downloading
  <2>3. ASSUME NEW n \in OnTheWay("client")'
        PROVE  /\ Kind(n) = "ResourcePackDataInfo" =>
                    n.pack = currentPack' /\ dl'[currentPack'] = "none" /\ Missing(currentPack)'
               /\ Kind(n) = "ResourcePackChunkData" => Expecting(n.pack)' /\ frag' = NoPack
    <3>1. CASE Kind(n) = "ResourcePackDataInfo"
      <4>1. n.pack = currentPack /\ dl[currentPack] = "none" /\ Missing(currentPack)
        BY <1>2, <1>3, <3>1 DEF Serving, Downloading
      <4>2. currentPack # p
        BY <4>1
      <4>3. Missing(currentPack)'
        BY <4>1, <4>2 DEF Missing
      <4> QED BY <1>4, <1>7, <3>1, <4>1, <4>2, <4>3
    <3>2. CASE Kind(n) = "ResourcePackChunkData"
      <4>1. Expecting(n.pack) /\ frag = NoPack
        BY <1>2, <1>3, <3>2 DEF Serving, Downloading
      <4> QED BY <1>6, <3>2, <4>1
    <3> QED BY <3>1, <3>2
  <2>4. Expecting(currentPack) => Expecting(currentPack)'
    BY <1>4, <1>7 DEF Expecting, Missing
  <2>5. Coming("server", "ResourcePackChunkRequest")' =>
          Expecting(currentPack)' /\ Comes("client", {})' /\ frag' = NoPack
    BY <1>2, <1>3, <2>4 DEF Serving, Downloading
  <2>6. Expecting(frag) => Expecting(frag)'
    BY <1>4 DEF Expecting, Missing
  <2>7. frag' # NoPack => Expecting(frag)' /\ listen'["client"] = "frag"
    BY <1>2, <2>6 DEF Serving, Downloading
  <2> QED BY <2>1, <2>2, <2>3, <2>5, <2>7 DEF Downloading
<1>9. listen'["server"] = "done" \/ Uploading'
  <2> SUFFICES ASSUME listen["server"] # "done" PROVE Uploading'
    OBVIOUS
  <2>1. Uploading
    BY <1>2 DEF Serving
  <2>2. ChunkComing' => ChunkComing
    BY <1>3 DEF ChunkComing
  <2>3. CASE currentPack = p
    BY <1>3, <1>4, <2>1, <2>2, <2>3 DEF Uploading
  <2>4. CASE currentPack # p
    <3>1. dl'[currentPack] = dl[currentPack]
      BY <1>4, <1>7, <2>4
    <3>2. Missing(currentPack) => Missing(currentPack)'
      BY <2>4 DEF Missing
    <3> QED BY <1>3, <2>1, <2>2, <3>1, <3>2 DEF Uploading
  <2> QED BY <2>3, <2>4
<1>10. ExpectsPacks'
  BY <1>2 DEF Serving, ExpectsPacks, Expects
<1>11. \A q \in Packs : dl'[q] # "announce"
  BY <1>2, <1>4 DEF Serving
<1>12. Serving'
  BY <1>2, <1>3, <1>8, <1>9, <1>10, <1>11 DEF Serving, Connecting
<1> QED BY <1>3, <1>12 DEF Flow, PhaseInv

LEMMA LastFlow ==
  ASSUME LoginInv, Flow, NEW p \in Packs, lastPack(p), dlAmount[p] = 0
  PROVE  Flow'
<1> USE DEF sendVars, formatVars, spawnVars, queueVars, callVars, downloadVars
<1>1. PhaseInv /\ CallTypeOK /\ PackTypeOK /\ "client" \in Sides /\ Other("client") = "server"
  BY DEF LoginInv, LoginTypeOK, Flow, Sides, Other
<1>2. IsLast(p) /\ expect("client", {"ResourcePackStack", "PlayStatus"})
  BY DEF lastPack, IsLast
<1>3. Counted /\ (Serving \/ Announcing)
  BY <1>1, <1>2, DownloadPhase DEF IsLast
<1>4. packAmount = 0 /\ announced = 0
  BY <1>2, <1>3 DEF Counted
<1>5. \A q : ~Missing(q)
  BY <1>3, <1>4, PacksThere DEF Missing
<1>6. UNCHANGED <<inbox, buffered, net, listen, packAmount, announced, loggedIn, dial>>
  BY DEF lastPack
<1>7. /\ \A K : Comes("client", K)' = Comes("client", K) /\ Comes("server", K)' = Comes("server", K)
      /\ \A k : Coming("client", k)' = Coming("client", k) /\ Coming("server", k)' = Coming("server", k)
      /\ InOrder("client")' /\ InOrder("server")'
  BY <1>6, NothingSent
<1>8. /\ Expects("client", {"ResourcePackStack", "PlayStatus"})'
      /\ expected'["server"] = expected["server"]
  BY <1>1, <1>2, <1>6, ExpectKeeps DEF expect, CallTypeOK, Sides
<1>9. /\ Comes("client", {}) /\ Comes("server", {"ClientCacheStatus", "AllPacksDownloaded"})
      /\ ~Coming("server", "AllPacksDownloaded")
      /\ Coming("server", "ClientCacheStatus") => ExpectsChoice
      /\ ExpectsResponse /\ ~loggedIn["server"] /\ Connecting
  <2>1. CASE Announcing
    BY <1>4, <2>1 DEF Announcing
  <2>2. CASE Serving
    <3>1. Comes("client", {})
      BY <1>5, <2>2 DEF Serving, Downloading, Expecting, Comes
    <3>2. ~Coming("server", "ResourcePackChunkRequest")
      BY <1>5, <2>2 DEF Serving, Downloading, Expecting
    <3>3. Comes("server", {})
      BY <2>2, <3>2 DEF Serving, Comes, Coming
    <3>4. /\ Comes("server", {"ClientCacheStatus", "AllPacksDownloaded"})
          /\ ~Coming("server", "AllPacksDownloaded") /\ ~Coming("server", "ClientCacheStatus")
      BY <3>3 DEF Comes, Coming
    <3>5. ExpectsResponse
      BY <1>5, <2>2 DEF Serving, Uploading, ExpectsResponse
    <3> QED BY <2>2, <3>1, <3>4, <3>5 DEF Serving
  <2> QED BY <1>3, <2>1, <2>2
<1>10. (ExpectsChoice => ExpectsChoice') /\ ExpectsResponse'
  BY <1>6, <1>8, <1>9 DEF ExpectsChoice, Expects, ExpectsResponse
<1>11. Announcing'
  BY <1>4, <1>6, <1>7, <1>8, <1>9, <1>10 DEF Announcing, Connecting
<1> QED BY <1>7, <1>11 DEF Flow, PhaseInv

LEMMA AnnounceFlow ==
  ASSUME LoginInv, Flow, NEW p \in Packs, announcePacks(p)
  PROVE  Flow'
<1> USE DEF formatVars, spawnVars, queueVars, callVars, downloadVars
<1> DEFINE r == Response("AllPacksDownloaded", {})
<1>1. /\ StreamTypeOK /\ InOrder("client") /\ InOrder("server") /\ PhaseInv
      /\ "client" \in Sides /\ Other("client") = "server"
  BY DEF LoginInv, LoginTypeOK, Flow, Sides, Other
<1>2. dl[p] = "announce" /\ IsLast(p)
  BY DEF announcePacks, IsLast
<1>3. ~Serving
  BY <1>2 DEF Serving
<1>4. Announcing /\ announced = 0
  BY <1>1, <1>2, <1>3, DownloadPhase
<1>5. r \in Message /\ Kind(r) = "AllPacksDownloaded"
  BY Messages, Kinds DEF Args, Responses
<1>6. Buffer("client", <<r>>) /\ inbox' = inbox
  BY DEF announcePacks
<1> HIDE DEF r
<1>7. <<r>> \in Seq(Message) /\ Of(<<r>>) = {r} /\ Rising(<<r>>)
  BY <1>5, OfOne, RisingOne
<1>8. Gains("server", {r}) /\ Gains("client", {})
  BY <1>1, <1>6, <1>7, GainsBuffer
<1>9. \A n \in OnTheWay("server") : Idle(n) \/ Kind(n) = "ClientCacheStatus"
  BY <1>4 DEF Announcing, Comes, Coming
<1>10. InOrder("server")'
  BY <1>5, <1>8, <1>9 DEF Gains, AllFollow, Follows, Precedes
<1>11. /\ Comes("server", {"ClientCacheStatus", "AllPacksDownloaded"})'
       /\ Coming("server", "ClientCacheStatus")' => Coming("server", "ClientCacheStatus")
  <2>1. \A n \in OnTheWay("server")' : n \in OnTheWay("server") \/ n = r
    BY <1>8 DEF Gains
  <2> QED BY <1>5, <1>9, <2>1 DEF Comes, Coming
<1>12. InOrder("client")' /\ Comes("client", {})'
  BY <1>4, <1>8, GainsNone DEF Announcing
<1>13. announced' = 1 /\ UNCHANGED <<listen, expected, packAmount, loggedIn, dial>>
  BY <1>4 DEF announcePacks
<1>14. /\ ExpectsChoice => ExpectsChoice'
       /\ ExpectsResponse' /\ Expects("client", {"ResourcePackStack", "PlayStatus"})'
  BY <1>4, <1>13 DEF Announcing, ExpectsChoice, ExpectsResponse, Expects
<1>15. Announcing'
  BY <1>4, <1>11, <1>12, <1>13, <1>14 DEF Announcing, Connecting
<1> QED BY <1>10, <1>12, <1>15 DEF Flow, PhaseInv

LEMMA DownloadFlow ==
  ASSUME LoginInv, Flow, NEW p \in Packs, Download(p)
  PROVE  Flow'
<1>1. CASE requestChunk(p)
  BY <1>1, RequestFlow
<1>2. CASE receiveFrag(p)
  BY <1>2, FragFlow
<1>3. CASE downloadStops(p)
  BY <1>3, GivesUpFlow DEF downloadStops
<1>4. CASE parsePack(p)
  <2>1. CASE dl' = [dl EXCEPT ![p] = "done"] /\ UNCHANGED <<packAmount, resourcePacks, dlAmount>>
    BY <1>4, <2>1, GivesUpFlow DEF parsePack
  <2>2. CASE dl' = [dl EXCEPT ![p] = "last"] /\ resourcePacks' = resourcePacks \cup {p}
    BY <1>4, <2>2, ParseFlow DEF parsePack
  <2> QED BY <1>4, <2>1, <2>2 DEF parsePack
<1>5. CASE lastPack(p)
  <2>1. CASE dlAmount[p] = 0
    BY <1>5, <2>1, LastFlow
  <2>2. CASE dlAmount[p] # 0
    BY <1>5, <2>2, GivesUpFlow DEF lastPack
  <2> QED BY <2>1, <2>2
<1>6. CASE announcePacks(p)
  BY <1>6, AnnounceFlow
<1> QED BY <1>1, <1>2, <1>3, <1>4, <1>5, <1>6 DEF Download

------------------------------------------------------------------------------
(* The call of Dial. *)

LEMMA SendsGain ==
  ASSUME LoginTypeOK, NEW s \in Sides, InOrder("client"), InOrder("server"), inbox' = inbox,
         NEW m \in Message, Send(s, <<m>>)
  PROVE  Gains(Other(s), {m}) /\ Gains(s, {})
<1>1. StreamTypeOK /\ enc[s] \in Formats
  BY DEF LoginTypeOK, FormatTypeOK
<1>2. <<>> \in Seq(Message) /\ Of(<<>>) = {} /\ Rising(<<>>)
  BY RisingOne, OfNone
<1>3. <<m>> \in Seq(Message) /\ Of(<<m>>) = {m} /\ Rising(<<m>>) /\ AllFollow({m}, {})
  BY RisingOne, OfOne DEF AllFollow
<1>4. SendAs(s, enc[s], <<m>>, <<>>)
  BY DEF Send
<1>5. InOrder(s) /\ InOrder(Other(s))
  BY DEF Sides, Other
<1>6. net'[s] = net[s] /\ buffered'[Other(s)] = buffered[Other(s)]
  BY <1>1, <1>2, <1>3, <1>4, SendKeeps
<1>7. Gains(s, {})
  BY <1>5, <1>6, GainsNothing
<1>8. Gains(Other(s), Of(<<m>>) \cup Of(<<>>))
  BY <1>1, <1>2, <1>3, <1>4, <1>5, GainsSend
<1> QED BY <1>2, <1>3, <1>7, <1>8

(* The phases before Dial waits for the login to complete. *)
LEMMA DialPhase ==
  ASSUME PhaseInv
  PROVE  /\ dial \in {"expect", "request"} => Calling
         /\ dial = "settings" /\ listen["client"] = "ready" => Prepared
         /\ dial \in {"login", "send login"} => Prepared
BY DEF PhaseInv, Calling, Requesting, Switching, Prepared, LoggingIn, Shaking, Answering, Offering,
       Choosing, Serving, Announcing, Stacking, Completing, Entered, Starting, Registering, Chunking,
       Finishing, Joined, NotSpawned, Started, Connecting

LEMMA RequestSettingsFlow ==
  ASSUME LoginInv, Flow, dialRequestSettings
  PROVE  Flow'
<1> USE DEF formatVars, spawnVars, packVars, queueVars, dialVars, dialStep
<1> DEFINE r == Pk("RequestNetworkSettings")
<1>1. /\ LoginTypeOK /\ CallTypeOK /\ InOrder("client") /\ InOrder("server") /\ PhaseInv
      /\ "client" \in Sides /\ Other("client") = "server"
  BY DEF LoginInv, LoginTypeOK, Flow, Sides, Other
<1>2. Calling /\ dial = "request"
  BY <1>1, DialPhase DEF dialRequestSettings
<1>3. listen["client"] # "ready"
  BY <1>2 DEF LoginInv, StageInv, Early, Late, Settled, Dialling, Requested, SettingsSent, Ready,
     LoginSent, HandshakeSent, Secured
<1>4. r \in Message /\ Kind(r) = "RequestNetworkSettings"
  BY Messages, Kinds DEF Ids, ServerHandled
<1>5. /\ UNCHANGED <<listen, expected, inbox, loggedIn, frag, dl, dlIndex>>
      /\ Send("client", <<r>>) /\ dial' = IF closed["client"] THEN "failed" ELSE "settings"
  BY DEF dialRequestSettings
<1> HIDE DEF r
<1>6. Gains("server", {r}) /\ Gains("client", {})
  BY <1>1, <1>4, <1>5, SendsGain
<1>7. InOrder("client")' /\ Comes("client", {})'
  BY <1>2, <1>6, GainsNone DEF Calling
<1>8. Comes("client", {"LoginFailed"})' /\ ~Coming("client", "LoginFailed")'
  BY <1>7 DEF Comes, Coming
<1>9. InOrder("server")' /\ Comes("server", {"RequestNetworkSettings"})'
  BY <1>2, <1>4, <1>6, GainsOne DEF Calling
<1>10. /\ Fresh' /\ Expects("server", {"RequestNetworkSettings", "Login"})'
       /\ Expects("client", {"NetworkSettings", "PlayStatus"})'
  BY <1>2, <1>5 DEF Calling, Fresh, Expects
<1>11. Requesting'
  BY <1>3, <1>5, <1>8, <1>9, <1>10 DEF Requesting
<1> QED BY <1>7, <1>9, <1>11 DEF Flow, PhaseInv

LEMMA SendLoginFlow ==
  ASSUME LoginInv, Flow, dialLogin
  PROVE  Flow'
<1> USE DEF formatVars, spawnVars, packVars, queueVars, dialVars, dialStep
<1> DEFINE r == Pk("Login")
<1>1. /\ LoginTypeOK /\ CallTypeOK /\ InOrder("client") /\ InOrder("server") /\ PhaseInv
      /\ "client" \in Sides /\ Other("client") = "server"
  BY DEF LoginInv, LoginTypeOK, Flow, Sides, Other
<1>2. Prepared /\ dial = "send login"
  BY <1>1, DialPhase DEF dialLogin
<1>3. r \in Message /\ Kind(r) = "Login"
  BY Messages, Kinds DEF Ids, ServerHandled
<1>4. /\ UNCHANGED <<listen, expected, inbox, loggedIn, frag, dl, dlIndex>>
      /\ Send("client", <<r>>) /\ dial' \in {"failed", "connecting"}
  BY DEF dialLogin
<1> HIDE DEF r
<1>5. Gains("server", {r}) /\ Gains("client", {})
  BY <1>1, <1>3, <1>4, SendsGain
<1>6. InOrder("client")' /\ Comes("client", {})'
  BY <1>2, <1>5, GainsNone DEF Prepared
<1>7. InOrder("server")' /\ Comes("server", {"Login"})'
  BY <1>2, <1>3, <1>5, GainsOne DEF Prepared
<1>8. Fresh' /\ Connecting' /\ Expects("server", {"Login"})' /\ ExpectsLogin'
  BY <1>2, <1>4 DEF Prepared, Fresh, Connecting, ExpectsLogin, Expects
<1>9. LoggingIn'
  BY <1>6, <1>7, <1>8 DEF LoggingIn
<1> QED BY <1>6, <1>7, <1>9 DEF Flow, PhaseInv

LEMMA DialFlow ==
  ASSUME LoginInv, Flow, Dial \/ DialContextDone
  PROVE  Flow'
<1> USE DEF sendVars, formatVars, spawnVars, packVars, queueVars, dialVars, dialStep
<1>1. CallTypeOK /\ PhaseInv /\ "client" \in Sides /\ Other("client") = "server"
  BY DEF LoginInv, LoginTypeOK, Flow, Sides, Other
<1>2. ASSUME UNCHANGED <<inbox, buffered, net>>
      PROVE  /\ \A K : Comes("client", K)' = Comes("client", K)
                       /\ Comes("server", K)' = Comes("server", K)
             /\ Undisturbed /\ InOrder("client")' /\ InOrder("server")'
  BY <1>2, NothingSent
<1>3. CASE dialExpectSettings
  <2>1. Calling /\ dial' = "request" /\ UNCHANGED <<inbox, buffered, net, listen, loggedIn, frag, dl,
                                                    dlIndex>>
    BY <1>1, <1>3, DialPhase DEF dialExpectSettings
  <2>2. /\ Expects("client", {"NetworkSettings", "PlayStatus"})'
        /\ \A x : Expects("server", x) => Expects("server", x)'
    BY <1>1, <1>3, <2>1, ExpectKeeps DEF dialExpectSettings
  <2>3. Fresh'
    BY <2>1 DEF Calling, Fresh
  <2>4. Calling'
    BY <1>2, <2>1, <2>2, <2>3 DEF Calling
  <2> QED BY <1>2, <2>1, <2>4 DEF Flow, PhaseInv
<1>4. CASE dialRequestSettings
  BY <1>4, RequestSettingsFlow
<1>5. CASE dialReady
  <2>1. Prepared /\ dial' = "login" /\ UNCHANGED <<inbox, buffered, net, expected, loggedIn, frag, dl,
                                                   dlIndex>>
    BY <1>1, <1>5, DialPhase DEF dialReady
  <2>2. listen'["server"] = listen["server"]
    BY <1>1, <1>5 DEF dialReady, CallTypeOK, Sides
  <2>3. Fresh' /\ Expects("server", {"Login"})'
    BY <2>1, <2>2 DEF Prepared, Fresh, Expects
  <2>4. Prepared'
    BY <1>2, <2>1, <2>3 DEF Prepared
  <2> QED BY <1>2, <2>1, <2>4 DEF Flow, PhaseInv
<1>6. CASE dialExpectLogin
  <2>1. Prepared /\ dial' = "send login" /\ UNCHANGED <<inbox, buffered, net, listen, loggedIn, frag,
                                                        dl, dlIndex>>
    BY <1>1, <1>6, DialPhase DEF dialExpectLogin
  <2>2. ExpectsLogin' /\ \A x : Expects("server", x) => Expects("server", x)'
    BY <1>1, <1>6, <2>1, ExpectKeeps DEF dialExpectLogin, ExpectsLogin
  <2>3. Fresh'
    BY <2>1 DEF Prepared, Fresh
  <2>4. Prepared'
    BY <1>2, <2>1, <2>2, <2>3 DEF Prepared
  <2> QED BY <1>2, <2>1, <2>4 DEF Flow, PhaseInv
<1>7. CASE dialLogin
  BY <1>7, SendLoginFlow
<1>8. CASE dialConnected
  <2>1. Resting
    BY <1>8 DEF dialConnected, Resting
  <2>2. Attentive
    BY <1>1, <1>8, StayAttentive DEF dialConnected
  <2> QED BY <1>2, <1>8, <2>1, <2>2, Keeping DEF dialConnected
<1>9. CASE dialFails
  <2>1. Resting
    BY <1>9 DEF dialFails, Resting
  <2>2. Attentive
    BY <1>1, <1>9, StayAttentive DEF dialFails
  <2> QED BY <1>2, <1>9, <2>1, <2>2, Keeping DEF dialFails
<1>10. CASE DialContextDone
  <2>1. Resting
    BY <1>10 DEF DialContextDone, Resting
  <2>2. Attentive
    BY <1>1, <1>10, StayAttentive DEF DialContextDone
  <2> QED BY <1>2, <1>10, <2>1, <2>2, Keeping DEF DialContextDone
<1> QED BY <1>3, <1>4, <1>5, <1>6, <1>7, <1>8, <1>9, <1>10 DEF Dial

------------------------------------------------------------------------------
(* The application of the server. *)

LEMMA StartPhase ==
  ASSUME LoginInv, PhaseInv
  PROVE  /\ start # "accept" \/ listen["server"] = "deliver" => loggedIn["server"]
         /\ loggedIn["server"] /\ start \in {"accept", "begin", "expect"} => Entered
         /\ start \in Writing => Starting
         /\ start = "write 5" => Starting \/ Registering
<1>1. start # "accept" \/ listen["server"] = "deliver" => loggedIn["server"]
  BY DEF LoginInv, SpawnInv, ServerSpawnInv
<1>2. loggedIn["server"] =>
        Entered \/ Starting \/ Registering \/ Chunking \/ Finishing \/ Joined
  BY DEF PhaseInv, Calling, Requesting, Switching, Prepared, LoggingIn, Shaking, Answering, Offering,
         Choosing, Serving, Announcing, Stacking, Completing, Fresh
<1>3. /\ Entered => start \in {"accept", "begin", "expect"}
      /\ Starting => start \in Writing \cup {"write 5"} \cup Written
      /\ Registering => start \in {"write 5"} \cup Written
      /\ Chunking \/ Finishing \/ Joined => start \in Written
  BY DEF Entered, Starting, Registering, Chunking, Finishing, Joined
<1> QED BY <1>1, <1>2, <1>3 DEF Writing, Written

LEMMA WritesGain ==
  ASSUME LoginInv, Flow, NEW m \in Message, Buffer("server", <<m>>), inbox' = inbox
  PROVE  /\ Gains("client", {m}) /\ Gains("server", {})
         /\ ~closed["server"] => m \in OnTheWay("client")'
         /\ closed["server"] => OnTheWay("client")' = OnTheWay("client")
<1>1. /\ StreamTypeOK /\ CallTypeOK /\ InOrder("client") /\ InOrder("server") /\ "server" \in Sides
      /\ Other("server") = "client" /\ Other("client") = "server"
  BY DEF LoginInv, LoginTypeOK, Flow, Sides, Other
<1>2. <<m>> \in Seq(Message) /\ Of(<<m>>) = {m} /\ Rising(<<m>>)
  BY OfOne, RisingOne
<1>3. Gains("client", {m}) /\ Gains("server", {})
  BY <1>1, <1>2, GainsBuffer
<1>4. buffered["server"] \in Seq(Message) /\ net' = net
  BY <1>1 DEF Buffer, StreamTypeOK
<1>5. buffered'["server"] = IF closed["server"] THEN buffered["server"] ELSE buffered["server"] \o <<m>>
  BY <1>1 DEF Buffer, StreamTypeOK
<1>6. ~closed["server"] => m \in OnTheWay("client")'
  BY <1>1, <1>2, <1>4, <1>5, ConcatOf DEF OnTheWay
<1>7. closed["server"] => OnTheWay("client")' = OnTheWay("client")
  BY <1>1, <1>4, <1>5 DEF OnTheWay
<1> QED BY <1>3, <1>6, <1>7

(* A packet of startGame is written. *)
LEMMA WriteFlow ==
  ASSUME LoginInv, Flow, NEW m \in Message, Buffer("server", <<m>>), UNCHANGED <<startVars, expected>>,
         \/ start = "write 1" /\ start' = "write 2" /\ m = Pk("DimensionData")
         \/ start = "write 2" /\ start' = "write 3" /\ m = Pk("JigsawStructureData")
         \/ start = "write 3" /\ start' = "write 4" /\ m = Pk("VoxelShapes")
         \/ start = "write 4" /\ start' = "write 5" /\ m = Pk("StartGame")
         \/ start = "write 5" /\ start' = "flush" /\ m = Pk("ItemRegistry")
  PROVE  Flow'
<1> USE DEF startVars, formatVars, spawnVars, packVars, queueVars
<1>1. PhaseInv /\ inbox' = inbox /\ closed' = closed
  BY DEF Flow
<1>2. /\ Gains("client", {m}) /\ Gains("server", {})
      /\ ~closed["server"] => m \in OnTheWay("client")'
      /\ closed["server"] => OnTheWay("client")' = OnTheWay("client")
  BY <1>1, WritesGain
<1>3. Kind(m) = m.id /\ \A id : m = Pk(id) => m.id = id
  <2>1. PICK id : m = Pk(id)
    OBVIOUS
  <2>2. \A x : Kind(Pk(x)) = x /\ Pk(x).id = x
    BY Kinds
  <2> QED BY <2>1, <2>2
<1>4. Idle(m) <=> start \in {"write 2", "write 3"}
  BY <1>3 DEF Idle
<1>5. Comes("server", {}) => InOrder("server")' /\ Comes("server", {})'
  BY <1>2, GainsNone
<1>6. /\ NotSpawned => NotSpawned'
      /\ ExpectsSpawn => ExpectsSpawn'
      /\ \A ids : Expects("client", ids) => Expects("client", ids)'
  BY DEF NotSpawned, Started, Connecting, ExpectsSpawn, Expects
<1>7. \A n \in OnTheWay("client")' : n \in OnTheWay("client") \/ n = m
  BY <1>2 DEF Gains
<1>8. \A K : Comes("client", K) => Comes("client", K \cup {Kind(m)})' /\ (Idle(m) => Comes("client", K)')
  BY <1>7 DEF Comes
<1>9. \A k : Coming("client", k)' =>
               Coming("client", k) \/ (k = Kind(m) /\ ~Idle(m) /\ ~closed["server"])
  BY <1>2, <1>7 DEF Coming
<1>10. \A k : Coming("client", k) => Coming("client", k)'
  BY <1>2 DEF Gains, Coming
<1>11. CASE start = "write 1"
  <2>1. Starting /\ start' = "write 2" /\ Kind(m) = "DimensionData" /\ Comes("client", {})
    BY <1>1, <1>3, <1>11, StartPhase DEF Writing, Starting
  <2>2. InOrder("client")' /\ Comes("client", {"DimensionData"})'
    BY <1>2, <2>1, GainsOne
  <2>3. /\ Comes("client", {"DimensionData", "StartGame", "ItemRegistry"})'
        /\ ~Coming("client", "ItemRegistry")'
    BY <2>2 DEF Comes, Coming
  <2>4. Starting'
    BY <1>5, <1>6, <2>1, <2>2, <2>3 DEF Starting, Writing
  <2> QED BY <1>5, <2>1, <2>2, <2>4 DEF Flow, PhaseInv, Starting
<1>12. CASE start \in {"write 2", "write 3"}
  <2>1. Starting /\ start' \in {"write 3", "write 4"} /\ Idle(m)
    BY <1>1, <1>4, <1>12, StartPhase DEF Writing
  <2>2. InOrder("client")'
    BY <1>2, <2>1 DEF Gains, AllFollow, Follows
  <2>3. Comes("client", {"DimensionData"})'
    BY <1>8, <1>12, <2>1 DEF Starting, Writing
  <2>4. /\ Comes("client", {"DimensionData", "StartGame", "ItemRegistry"})'
        /\ ~Coming("client", "ItemRegistry")'
    BY <2>3 DEF Comes, Coming
  <2>5. Starting'
    BY <1>5, <1>6, <2>1, <2>3, <2>4 DEF Starting, Writing
  <2> QED BY <1>5, <2>1, <2>2, <2>5 DEF Flow, PhaseInv, Starting
<1>13. CASE start = "write 4"
  <2>1. Starting /\ start' = "write 5" /\ Kind(m) = "StartGame" /\ ~Idle(m)
        /\ Comes("client", {"DimensionData"})
    BY <1>1, <1>3, <1>4, <1>13, StartPhase DEF Writing, Starting
  <2>2. InOrder("client")'
    BY <1>2, <2>1 DEF Gains, AllFollow, Follows, Precedes, Comes
  <2>3. Comes("client", {"DimensionData", "StartGame"})'
    BY <1>7, <2>1 DEF Comes
  <2>4. /\ Comes("client", {"DimensionData", "StartGame", "ItemRegistry"})'
        /\ ~Coming("client", "ItemRegistry")'
    BY <2>3 DEF Comes, Coming
  <2>5. ~closed'["server"] => Coming("client", "StartGame")'
    BY <1>1, <1>2, <2>1 DEF Coming
  <2>6. Starting'
    BY <1>5, <1>6, <2>1, <2>3, <2>4, <2>5 DEF Starting, Writing
  <2> QED BY <1>5, <2>1, <2>2, <2>6 DEF Flow, PhaseInv, Starting
<1>14. CASE start = "write 5"
  <2>1. start' = "flush" /\ start' \in Written /\ Kind(m) = "ItemRegistry" /\ (Starting \/ Registering)
    BY <1>1, <1>3, <1>14, StartPhase DEF Written
  <2>2. CASE Starting
    <3>1. Comes("client", {"DimensionData", "StartGame"})
      BY <1>14, <2>2 DEF Starting
    <3>2. InOrder("client")'
      BY <1>2, <2>1, <3>1 DEF Gains, AllFollow, Follows, Precedes, Comes
    <3>3. Comes("client", {"DimensionData", "StartGame", "ItemRegistry"})'
      BY <1>7, <2>1, <3>1 DEF Comes
    <3>4. Coming("client", "ItemRegistry")' => Coming("client", "StartGame")'
      <4>1. ~Coming("client", "ItemRegistry")
        BY <3>1 DEF Comes, Coming
      <4>2. ~closed["server"] => Coming("client", "StartGame")
        BY <1>14, <2>2 DEF Starting
      <4> QED BY <1>9, <1>10, <4>1, <4>2
    <3>5. Starting'
      BY <1>5, <1>6, <2>1, <2>2, <3>3, <3>4 DEF Starting, Writing
    <3> QED BY <1>5, <2>2, <3>2, <3>5 DEF Flow, PhaseInv, Starting
  <2>3. CASE Registering
    <3>1. Comes("client", {})
      BY <1>14, <2>3 DEF Registering
    <3>2. InOrder("client")' /\ Comes("client", {"ItemRegistry"})'
      BY <1>2, <2>1, <3>1, GainsOne
    <3>3. Registering'
      BY <1>5, <1>6, <2>1, <2>3, <3>2 DEF Registering
    <3> QED BY <1>5, <2>3, <3>2, <3>3 DEF Flow, PhaseInv, Registering
  <2> QED BY <2>1, <2>2, <2>3
<1> QED BY <1>11, <1>12, <1>13, <1>14

(* ...or, without custom dimensions, is not. *)
LEMMA SkipFlow ==
  ASSUME LoginInv, Flow, start = "write 1", start' = "write 2", Buffer("server", <<>>),
         UNCHANGED <<startVars, expected>>
  PROVE  Flow'
<1> USE DEF startVars, formatVars, spawnVars, packVars, queueVars
<1>1. /\ PhaseInv /\ StreamTypeOK /\ "server" \in Sides /\ Other("server") = "client"
      /\ InOrder("client") /\ InOrder("server")
  BY DEF LoginInv, LoginTypeOK, Flow, Sides, Other
<1>2. Starting /\ Comes("client", {}) /\ Comes("server", {})
  BY <1>1, StartPhase DEF Writing, Starting
<1>3. <<>> \in Seq(Message) /\ Of(<<>>) = {} /\ Rising(<<>>)
  BY OfNone, RisingOne
<1>4. Gains("client", {}) /\ Gains("server", {})
  BY <1>1, <1>3, GainsBuffer
<1>5. /\ InOrder("client")' /\ InOrder("server")' /\ Comes("client", {})' /\ Comes("server", {})'
  BY <1>2, <1>4, GainsNone
<1>6. /\ Comes("client", {"DimensionData"})' /\ ~Coming("client", "ItemRegistry")'
      /\ Comes("client", {"DimensionData", "StartGame", "ItemRegistry"})'
  BY <1>5 DEF Comes, Coming
<1>7. NotSpawned' /\ ExpectsSpawn' /\ Expects("client", {"DimensionData", "StartGame"})'
  BY <1>2 DEF Starting, NotSpawned, Started, Connecting, ExpectsSpawn, Expects
<1>8. Starting'
  BY <1>5, <1>6, <1>7 DEF Starting, Writing
<1> QED BY <1>5, <1>8 DEF Flow, PhaseInv

LEMMA WriteStep ==
  ASSUME startGameWrite
  PROVE  /\ UNCHANGED <<startVars, expected>>
         /\ \/ /\ start = "write 1" /\ start' = "write 2" /\ Buffer("server", <<>>)
            \/ \E m \in Message :
                 /\ Buffer("server", <<m>>)
                 /\ \/ start = "write 1" /\ start' = "write 2" /\ m = Pk("DimensionData")
                    \/ start = "write 2" /\ start' = "write 3" /\ m = Pk("JigsawStructureData")
                    \/ start = "write 3" /\ start' = "write 4" /\ m = Pk("VoxelShapes")
                    \/ start = "write 4" /\ start' = "write 5" /\ m = Pk("StartGame")
                    \/ start = "write 5" /\ start' = "flush" /\ m = Pk("ItemRegistry")
<1>1. PICK i \in DOMAIN StartPackets, written \in BOOLEAN :
        /\ start = WritePCs[i] /\ start' = WritePCs[i + 1]
        /\ written \/ i = 1
        /\ Buffer("server", IF written THEN <<StartPackets[i]>> ELSE <<>>)
        /\ UNCHANGED <<startVars, expected>>
  BY DEF startGameWrite
<1>2. i \in 1 .. 5
  BY DEF StartPackets
<1>3. i = 1 \/ i = 2 \/ i = 3 \/ i = 4 \/ i = 5
  BY <1>2
<1>4. /\ WritePCs[1] = "write 1" /\ WritePCs[2] = "write 2" /\ WritePCs[3] = "write 3"
      /\ WritePCs[4] = "write 4" /\ WritePCs[5] = "write 5" /\ WritePCs[6] = "flush"
  BY DEF WritePCs
<1>5. /\ StartPackets[1] = Pk("DimensionData") /\ StartPackets[2] = Pk("JigsawStructureData")
      /\ StartPackets[3] = Pk("VoxelShapes") /\ StartPackets[4] = Pk("StartGame")
      /\ StartPackets[5] = Pk("ItemRegistry")
  BY DEF StartPackets
<1>6. /\ Pk("DimensionData") \in Message /\ Pk("JigsawStructureData") \in Message
      /\ Pk("VoxelShapes") \in Message /\ Pk("StartGame") \in Message /\ Pk("ItemRegistry") \in Message
  BY Messages DEF Ids, ClientHandled
<1>7. StartPackets[i] \in Message
  BY <1>3, <1>5, <1>6
<1>8. \/ start = "write 1" /\ start' = "write 2" /\ StartPackets[i] = Pk("DimensionData")
      \/ start = "write 2" /\ start' = "write 3" /\ StartPackets[i] = Pk("JigsawStructureData")
      \/ start = "write 3" /\ start' = "write 4" /\ StartPackets[i] = Pk("VoxelShapes")
      \/ start = "write 4" /\ start' = "write 5" /\ StartPackets[i] = Pk("StartGame")
      \/ start = "write 5" /\ start' = "flush" /\ StartPackets[i] = Pk("ItemRegistry")
  <2>1. 1 + 1 = 2 /\ 2 + 1 = 3 /\ 3 + 1 = 4 /\ 4 + 1 = 5 /\ 5 + 1 = 6
    OBVIOUS
  <2> QED BY <1>1, <1>3, <1>4, <1>5, <2>1
<1>9. CASE written
  BY <1>1, <1>7, <1>8, <1>9
<1>10. CASE ~written
  <2>1. i = 1 /\ i + 1 = 2 /\ Buffer("server", <<>>)
    BY <1>1, <1>10
  <2> QED BY <1>1, <1>4, <2>1
<1> QED BY <1>9, <1>10

LEMMA ApplicationFlow ==
  ASSUME LoginInv, Flow, Application
  PROVE  Flow'
<1> USE DEF sendVars, formatVars, spawnVars, packVars, queueVars, startVars
<1>1. /\ LoginTypeOK /\ CallTypeOK /\ SpawnTypeOK /\ PhaseInv /\ InOrder("client") /\ InOrder("server")
      /\ "client" \in Sides /\ "server" \in Sides /\ Other("server") = "client"
  BY DEF LoginInv, LoginTypeOK, Flow, Sides, Other
<1>2. ASSUME UNCHANGED <<inbox, buffered, net>>
      PROVE  /\ \A K : Comes("client", K)' = Comes("client", K)
                       /\ Comes("server", K)' = Comes("server", K)
             /\ \A k : Coming("client", k)' = Coming("client", k)
             /\ Undisturbed /\ InOrder("client")' /\ InOrder("server")'
  BY <1>2, NothingSent
<1>3. CASE Accept
  <2>1. Entered /\ start' = "begin" /\ UNCHANGED <<inbox, buffered, net, expected, spawnVars, announced,
                                                   dial>>
    BY <1>1, <1>3, StartPhase DEF Accept
  <2>2. listen'["client"] = listen["client"]
    BY <1>1, <1>3 DEF Accept, CallTypeOK
  <2>3. NotSpawned' /\ Expects("client", {"DimensionData", "StartGame"})'
    BY <2>1, <2>2 DEF Entered, NotSpawned, Started, Connecting, Expects
  <2>4. Entered'
    BY <1>2, <2>1, <2>3 DEF Entered
  <2> QED BY <1>2, <2>1, <2>4 DEF Flow, PhaseInv
<1>4. CASE StartGame
  <2>1. /\ Entered /\ start' = "expect"
        /\ UNCHANGED <<inbox, buffered, net, listen, expected, loggedIn, gameDataReceived, announced,
                       dial>>
    BY <1>1, <1>4, StartPhase DEF StartGame
  <2>2. waitingForSpawn'["client"] = waitingForSpawn["client"] /\ waitingForSpawn'["server"]
    BY <1>1, <1>4 DEF StartGame, SpawnTypeOK
  <2>3. NotSpawned' /\ Expects("client", {"DimensionData", "StartGame"})'
    BY <2>1, <2>2 DEF Entered, NotSpawned, Started, Connecting, Expects
  <2>4. Entered'
    BY <1>2, <2>1, <2>2, <2>3 DEF Entered
  <2> QED BY <1>2, <2>1, <2>4 DEF Flow, PhaseInv
<1>5. CASE startGame
  <2>1. /\ Entered /\ waitingForSpawn["server"] /\ start' = "write 1"
        /\ UNCHANGED <<inbox, buffered, net, listen, spawnVars, announced, dial>>
    BY <1>1, <1>5, StartPhase DEF startGame, Entered
  <2>2. /\ Expects("server", {"RequestChunkRadius", "SetLocalPlayerAsInitialised"})'
        /\ \A x : Expects("client", x) => Expects("client", x)'
    BY <1>1, <1>5, <2>1, ExpectKeeps DEF startGame
  <2>3. NotSpawned' /\ ExpectsSpawn' /\ Expects("client", {"DimensionData", "StartGame"})'
    BY <2>1, <2>2 DEF Entered, NotSpawned, Started, Connecting, ExpectsSpawn
  <2>4. Comes("client", {})' /\ Comes("server", {})'
    BY <1>2, <2>1 DEF Entered
  <2>5. /\ Comes("client", {"DimensionData"})' /\ ~Coming("client", "ItemRegistry")'
        /\ Comes("client", {"DimensionData", "StartGame", "ItemRegistry"})'
    BY <2>4 DEF Comes, Coming
  <2>6. Starting'
    BY <2>1, <2>3, <2>4, <2>5 DEF Starting, Writing
  <2> QED BY <1>2, <2>1, <2>6 DEF Flow, PhaseInv
<1>6. CASE startGameWrite
  BY <1>6, WriteStep, WriteFlow, SkipFlow
<1>7. CASE startGameFlush
  <2>1. Gains("client", {}) /\ Gains("server", {})
    BY <1>1, <1>7, SendsCalm DEF startGameFlush
  <2>2. Attentive
    BY <1>1, <1>7, StayAttentive DEF startGameFlush
  <2>3. Resting
    BY <1>7 DEF startGameFlush, Resting, Written
  <2> QED BY <2>1, <2>2, <2>3, GainsQuietly, Keeping
<1>8. CASE startGameSpawned \/ startGameFails
  <2>1. Attentive
    BY <1>1, <1>8, StayAttentive DEF startGameSpawned, startGameFails
  <2>2. Resting
    BY <1>8 DEF startGameSpawned, startGameFails, Resting, Written
  <2> QED BY <1>2, <1>8, <2>1, <2>2, Keeping DEF startGameSpawned, startGameFails
<1> QED BY <1>3, <1>4, <1>5, <1>6, <1>7, <1>8 DEF Application

------------------------------------------------------------------------------
(* No packet of the handshake is left to the application. *)

HandshakeInv == LoginInv /\ Flow /\ HandshakeNotDeferred /\ deferred \in [Sides -> SUBSET Ids]

LEMMA FlowStep ==
  ASSUME LoginInv, Flow, Next
  PROVE  Flow'
<1>1. CASE \E s \in Sides : DecodeFunc(s) \/ ReadFails(s) \/ Tick(s) \/ Drop(s)
  BY <1>1, ReceiverFlow
<1>2. CASE \E s \in Sides : deferPacket(s)
  BY <1>2, DeferFlow
<1>3. CASE \E s \in Sides : receiveDisconnect(s)
  BY <1>3, DisconnectFlow
<1>4. CASE ServerHandler \/ ClientHandler
  BY <1>4, ServerFlow, ClientFlow
<1>5. CASE \E p \in Packs : Download(p)
  BY <1>5, DownloadFlow
<1>6. CASE Dial \/ DialContextDone \/ Application
  BY <1>6, DialFlow, ApplicationFlow
<1> QED BY <1>1, <1>2, <1>3, <1>4, <1>5, <1>6 DEF Next

(* Only deferPacket leaves a packet to the application. *)
LEMMA DeferralStep ==
  ASSUME Next, \A s \in Sides : ~deferPacket(s)
  PROVE  UNCHANGED deferred
<1>1. ASSUME NEW s \in Sides, \/ DecodeFunc(s) \/ receiveDisconnect(s) \/ ReadFails(s)
                              \/ Tick(s) \/ Drop(s)
      PROVE  UNCHANGED deferred
  BY <1>1 DEF DecodeFunc, receiveDisconnect, ReadFails, Tick, Drop
<1>2. CASE ServerHandler
  BY <1>2 DEF ServerHandler, handleRequestNetworkSettings, handleLogin, handleClientToServerHandshake,
    handleClientCacheStatus, handleSendPacks, handleAllPacksDownloaded, handleCompleted,
    handleResourcePackChunkRequest, handleRequestChunkRadius, handleSetLocalPlayerAsInitialised, Handle
<1>3. CASE ClientHandler
  BY <1>3 DEF ClientHandler, handleNetworkSettings, handleServerToClientHandshake, handleLoginSuccess,
    handleLoginFailed, handleResourcePacksInfo, handleResourcePackDataInfo, handleResourcePackChunkData,
    handleResourcePackStack, handleDimensionData, handleStartGame, handleItemRegistry,
    handleChunkRadiusUpdated, handlePlayerSpawn, Note, Handle
<1>4. ASSUME NEW p \in Packs, Download(p) PROVE UNCHANGED deferred
  BY <1>4 DEF Download, requestChunk, receiveFrag, downloadStops, parsePack, lastPack, announcePacks,
    downloadVars
<1>5. CASE Dial \/ DialContextDone
  BY <1>5 DEF Dial, DialContextDone, dialExpectSettings, dialRequestSettings, dialReady, dialExpectLogin,
    dialLogin, dialConnected, dialFails, dialStep, dialVars
<1>6. CASE Application
  BY <1>6 DEF Application, Accept, StartGame, startGame, startGameWrite, startGameFlush,
     startGameSpawned, startGameFails, startVars
<1> QED BY <1>1, <1>2, <1>3, <1>4, <1>5, <1>6 DEF Next

LEMMA HandshakeStep ==
  ASSUME LoginInv, Flow, HandshakeNotDeferred, deferred \in [Sides -> SUBSET Ids], Next
  PROVE  HandshakeNotDeferred' /\ deferred' \in [Sides -> SUBSET Ids]
<1>1. CASE \A s \in Sides : ~deferPacket(s)
  BY <1>1, DeferralStep DEF HandshakeNotDeferred
<1>2. ASSUME NEW s \in Sides, deferPacket(s)
      PROVE  HandshakeNotDeferred' /\ deferred' \in [Sides -> SUBSET Ids]
  <2>1. Idle(pk(s))
    BY <1>2, DeferFlow
  <2>2. pk(s).id \notin ClientHandled /\ pk(s).id \notin ServerHandled
    BY <2>1 DEF Idle, ClientHandled, ServerHandled
  <2>3. \A t \in Sides : deferred'[t] \subseteq deferred[t] \cup {pk(s).id}
    BY <1>2 DEF deferPacket
  <2>4. deferred' \in [Sides -> SUBSET Ids]
    BY <1>2, <2>1 DEF deferPacket, Idle, Ids
  <2>5. HandshakeNotDeferred'
    BY <2>2, <2>3 DEF HandshakeNotDeferred, Sides
  <2> QED BY <2>4, <2>5
<1> QED BY <1>1, <1>2

LEMMA FlowInit ==
  ASSUME Init
  PROVE  Flow
<1>1. Sides = {"client", "server"} /\ Other("client") = "server" /\ Other("server") = "client"
  BY DEF Sides, Other
<1>2. \A s \in Sides : inbox[s] = <<>> /\ net[s] = <<>> /\ buffered[s] = <<>>
  BY DEF Init
<1>3. Of(<<>>) = {} /\ InNet(<<>>) = {}
  BY DEF Of, InNet
<1>4. Rising(<<>>) /\ RisingNet(<<>>) /\ AllFollow({}, {})
  BY DEF Rising, RisingNet, AllFollow
<1>5. ASSUME NEW s \in Sides PROVE InOrder(s) /\ OnTheWay(s) = {}
  BY <1>1, <1>2, <1>3, <1>4 DEF InOrder, OnTheWay
<1>6. Comes("client", {}) /\ Comes("server", {})
  BY <1>1, <1>5 DEF Comes
<1>7. Fresh /\ dial = "expect"
  BY <1>1 DEF Init, Fresh
<1>8. Expects("server", {"RequestNetworkSettings", "Login"})
  BY <1>1 DEF Init, Expects
<1>9. Calling
  BY <1>6, <1>7, <1>8 DEF Calling
<1> QED BY <1>1, <1>5, <1>9 DEF Flow, PhaseInv

LEMMA FlowStutters ==
  ASSUME LoginInv, Flow, UNCHANGED vars
  PROVE  Flow'
<1> USE DEF vars, sendVars, formatVars, spawnVars, packVars, queueVars, callVars
<1>1. Undisturbed /\ InOrder("client")' /\ InOrder("server")'
  BY NothingSent
<1>2. Attentive
  BY StayAttentive DEF LoginInv, LoginTypeOK
<1>3. Resting
  BY DEF Resting
<1> QED BY <1>1, <1>2, <1>3, Keeping

(* Each side expects a packet of the handshake by the time it is handled,  *)
(* whichever goroutine published what is expected (handlers, Dial, a       *)
(* download, startGame): handle never leaves one to the application, and   *)
(* each phase is over before a packet of the next can be handled.          *)
THEOREM HandshakeAnswered == Spec => []HandshakeNotDeferred
<1>1. Init => HandshakeInv
  <2> SUFFICES ASSUME Init PROVE HandshakeInv
    OBVIOUS
  <2>1. HandshakeNotDeferred /\ deferred \in [Sides -> SUBSET Ids]
    BY DEF Init, HandshakeNotDeferred, Sides
  <2> QED BY <2>1, LoginInit, FlowInit DEF HandshakeInv
<1>2. HandshakeInv /\ [Next]_vars => HandshakeInv'
  <2> SUFFICES ASSUME HandshakeInv, [Next]_vars PROVE HandshakeInv'
    OBVIOUS
  <2>1. LoginInv'
    BY LoginStep DEF HandshakeInv
  <2>2. CASE Next
    BY <2>1, <2>2, FlowStep, HandshakeStep DEF HandshakeInv
  <2>3. CASE UNCHANGED vars
    <3>1. HandshakeNotDeferred' /\ deferred' \in [Sides -> SUBSET Ids]
      BY <2>3 DEF HandshakeInv, HandshakeNotDeferred, vars
    <3> QED BY <2>1, <2>3, <3>1, FlowStutters DEF HandshakeInv
  <2> QED BY <2>2, <2>3
<1>3. HandshakeInv => HandshakeNotDeferred
  BY DEF HandshakeInv
<1> QED BY <1>1, <1>2, <1>3, PTL DEF Spec
==============================================================================
