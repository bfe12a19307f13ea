---------------------------- MODULE LoginSequence ----------------------------
(***************************************************************************)
(* The login of a client that dials a Listener of this package: network    *)
(* settings, login, encryption, resource packs, StartGame and spawn, over  *)
(* a reliable, ordered transport.                                          *)
(*                                                                         *)
(* Each side has a goroutine that receives packets and handles the ones    *)
(* expected next.  Beside it run, on the client, the Dial call and one     *)
(* goroutine per resource pack it downloads, on the server the application *)
(* in Accept and StartGame, and on both a ticker that flushes what was     *)
(* written.  A handler is one step: only its own goroutine takes packets,  *)
(* so a reply to what it wrote waits for it to end.  What the other        *)
(* goroutines do is split at every write and every change of the expected  *)
(* packets.                                                                *)
(***************************************************************************)
EXTENDS Integers, Sequences, FiniteSets

CONSTANTS
  Packs,        \* resource packs of the Listener
  Declined,     \* packs Dialer.DownloadResourcePack may decline
  Cached,       \* packs the Dialer's ResourcePackCache may hold
  ChunkCount,   \* chunks of a resource pack
  Settings,     \* what may befall a login: records, see setting
  NoPack

ASSUME LoginAssumption ==
  /\ IsFiniteSet(Packs) /\ NoPack \notin Packs
  /\ Declined \subseteq Packs /\ Cached \subseteq Packs
  /\ ChunkCount \in Nat \ {0}
  /\ Settings \subseteq [disableEncryption : BOOLEAN, corrupt : SUBSET Packs,
                          rejects : SUBSET {"protocol", "login"},
                          expires : SUBSET {"dial", "start"},
                          drops : SUBSET {"client", "server"}]

Sides == {"client", "server"}
Other(s) == IF s = "client" THEN "server" ELSE "client"

VARIABLES
  setting,          \* what may befall this login; it never changes
  buffered,         \* per side: Conn.bufferedSend
  net,              \* per side: batches on their way to it
  enc, dec,         \* per side: format of the encoder and of the decoder
  inbox,            \* per side: rest of the batch that is being handled
  listen,           \* per side: the goroutine in listenConn or handleConn
  expected,         \* per side: Conn.expectedIDs
  deferred,         \* per side: packets left to the application
  loggedIn,         \* per side: Conn.loggedIn
  waitingForSpawn,  \* per side: Conn.waitingForSpawn
  spawned,          \* per side: how often Conn.spawn was closed
  gameDataReceived, \* client: Conn.gameDataReceived
  received,         \* client: packets of the spawn sequence it handled
  closed,           \* per side: its context is done, its transport closed
  packAmount,       \* client: resourcePackQueue.packAmount
  downloading,      \* client: resourcePackQueue.downloadingPacks
  awaiting,         \* client: awaitingPacks, with their expectedIndex
  resourcePacks,    \* client: Conn.resourcePacks
  ignored,          \* client: Conn.ignoredResourcePacks
  dl,               \* client: per pack, the goroutine that downloads it
  dlIndex,          \* client: per pack, the chunk that goroutine asks for
  dlAmount,         \* client: per pack, the packAmount that goroutine saw
  frag,             \* client: the pack newFrag is being sent for
  announced,        \* client: how often it said all packs are downloaded
  toDownload,       \* server: resourcePackQueue.packsToDownload
  currentPack,      \* server: resourcePackQueue.currentPack
  currentOffset,    \* server: resourcePackQueue.currentOffset, in chunks
  dial,             \* client: the call of Dial
  dialDone,         \* client: the context of Dial is done
  start             \* server: the application's call of StartGame

sendVars == <<buffered, net>>
formatVars == <<enc, dec, setting>>
spawnVars == <<loggedIn, waitingForSpawn, spawned, gameDataReceived, received>>
packVars == <<packAmount, downloading, awaiting, resourcePacks, ignored, dl, dlIndex, dlAmount, announced>>
queueVars == <<toDownload, currentPack, currentOffset>>
callVars == <<dial, dialDone, start>>
vars == <<sendVars, formatVars, inbox, listen, expected, deferred, spawnVars, closed, packVars,
          frag, queueVars, callVars>>

(* Conn.disableEncryption, which the transport decides; the packs that may *)
(* not parse once downloaded; the checks of the server that may fail; the  *)
(* calls whose context may end; the sides whose transport may be closed    *)
(* from outside.                                                           *)
disableEncryption == setting.disableEncryption
Corrupt == setting.corrupt
Rejects == setting.rejects
Expires == setting.expires
Drops == setting.drops

(* A packet: its ID, a status or response, a resource pack and a chunk of  *)
(* it, or the packs that are asked for.                                    *)
Pk(id) == [id |-> id, arg |-> "", pack |-> NoPack, n |-> 0, packs |-> {}]
Status(s) == [Pk("PlayStatus") EXCEPT !.arg = s]
Response(r, packs) == [Pk("ResourcePackClientResponse") EXCEPT !.arg = r, !.packs = packs]
PackPk(id, p, n) == [Pk(id) EXCEPT !.pack = p, !.n = n]

(* What handlePacket has a case for. *)
ServerHandled == {"RequestNetworkSettings", "Login", "ClientToServerHandshake", "ClientCacheStatus",
  "ResourcePackClientResponse", "ResourcePackChunkRequest", "RequestChunkRadius",
  "SetLocalPlayerAsInitialised"}
ClientHandled == {"NetworkSettings", "ServerToClientHandshake", "PlayStatus", "ResourcePacksInfo",
  "ResourcePackDataInfo", "ResourcePackChunkData", "ResourcePackStack", "StartGame", "ItemRegistry",
  "ChunkRadiusUpdated", "DimensionData"}

(* What startGame writes. *)
StartPackets == <<Pk("DimensionData"), Pk("JigsawStructureData"), Pk("VoxelShapes"), Pk("StartGame"),
                  Pk("ItemRegistry")>>

Init ==
  /\ buffered = [s \in Sides |-> <<>>] /\ net = [s \in Sides |-> <<>>]
  /\ setting \in Settings
  /\ enc = [s \in Sides |-> "raw"] /\ dec = [s \in Sides |-> "raw"]
  /\ inbox = [s \in Sides |-> <<>>] /\ listen = [s \in Sides |-> "run"]
  /\ expected = [s \in Sides |-> IF s = "client" THEN {"RequestNetworkSettings"}
                                 ELSE {"RequestNetworkSettings", "Login"}]
  /\ deferred = [s \in Sides |-> {}]
  /\ loggedIn = [s \in Sides |-> FALSE]
  /\ waitingForSpawn = [s \in Sides |-> FALSE]
  /\ spawned = [s \in Sides |-> 0]
  /\ gameDataReceived = FALSE /\ received = {}
  /\ closed = [s \in Sides |-> FALSE]
  /\ packAmount = 0 /\ downloading = {} /\ awaiting = [p \in {} |-> 0] /\ resourcePacks = {}
  /\ ignored = {}
  /\ dl = [p \in Packs |-> "none"] /\ dlIndex = [p \in Packs |-> 0] /\ dlAmount = [p \in Packs |-> 0]
  /\ frag = NoPack /\ announced = 0
  /\ toDownload = {} /\ currentPack = NoPack /\ currentOffset = 0
  /\ dial = "expect" /\ dialDone = FALSE /\ start = "accept"

------------------------------------------------------------------------------
(* Writing and receiving. *)

(* WritePacket: an error, and nothing written, once the Conn is closed. *)
Buffer(s, pks) ==
  /\ buffered' = [buffered EXCEPT ![s] = IF closed[s] THEN @ ELSE @ \o pks]
  /\ UNCHANGED net

(* A flush of nothing sends no batch. *)
Batch(format, pks) == IF pks = <<>> THEN <<>> ELSE <<[format |-> format, packets |-> pks]>>

(* Packets are written and flushed in a format, and then others after them. *)
SendAs(s, format, pks, next) ==
  IF closed[s] THEN UNCHANGED sendVars
  ELSE /\ net' = [net EXCEPT ![Other(s)] =
                    @ \o Batch(format, buffered[s] \o pks) \o Batch(format, next)]
       /\ buffered' = [buffered EXCEPT ![s] = <<>>]

(* WritePacket and Flush, which handlePacket ends with. *)
Send(s, pks) == SendAs(s, enc[s], pks, <<>>)

(* The flush goroutine of newConn. *)
Tick(s) ==
  /\ buffered[s] # <<>> /\ ~closed[s]
  /\ Send(s, <<>>)
  /\ UNCHANGED <<formatVars, inbox, listen, expected, deferred, spawnVars, closed, packVars, frag,
                 queueVars, callVars>>

expect(s, ids) == expected' = [expected EXCEPT ![s] = ids]

(* DecodeFunc reads a batch; the packets in it are handled in turn. *)
DecodeFunc(s) ==
  /\ listen[s] = "run" /\ inbox[s] = <<>> /\ net[s] # <<>>
  /\ inbox' = [inbox EXCEPT ![s] = Head(net[s]).packets]
  /\ net' = [net EXCEPT ![s] = Tail(@)]
  /\ UNCHANGED <<buffered, formatVars, listen, expected, deferred, spawnVars, closed, packVars, frag,
                 queueVars, callVars>>

pk(s) == Head(inbox[s])
Received(s) == listen[s] = "run" /\ inbox[s] # <<>>
ToApplication(s) == loggedIn[s] /\ ~waitingForSpawn[s]

(* handle gives a packet that is expected to its handler... *)
Handle(s, id) ==
  /\ Received(s)
  /\ pk(s).id = id
  /\ ~ToApplication(s) /\ id \in expected[s]
  /\ inbox' = [inbox EXCEPT ![s] = Tail(@)]
  /\ UNCHANGED deferred

(* ...and any other to the application. *)
deferPacket(s) ==
  /\ Received(s)
  /\ pk(s).id # "Disconnect"
  /\ ToApplication(s) \/ pk(s).id \notin expected[s]
  /\ deferred' = [deferred EXCEPT ![s] = @ \cup {pk(s).id}]
  /\ inbox' = [inbox EXCEPT ![s] = Tail(@)]
  /\ UNCHANGED <<sendVars, formatVars, listen, expected, spawnVars, closed, packVars, frag,
                 queueVars, callVars>>

(* The receiving goroutine ends and closes the Conn; on the client Dial    *)
(* learns of it unless it has returned the Conn.                           *)
Ends(s) ==
  /\ listen' = [listen EXCEPT ![s] = "done"]
  /\ closed' = [closed EXCEPT ![s] = TRUE]
  /\ dialDone' = (dialDone \/ (s = "client" /\ ~loggedIn[s]))

(* A handler fails after writing pks and publishing ids... *)
FailsExpecting(s, ids, pks) ==
  /\ Ends(s)
  /\ expect(s, ids)
  /\ Send(s, pks)
  /\ UNCHANGED <<formatVars, spawnVars, packVars, frag, dial, start>>

(* ...or without publishing anything. *)
HandlerFails(s, pks) == FailsExpecting(s, expected[s], pks) /\ UNCHANGED queueVars

(* A handler whose write fails because the Conn was closed under it. *)
WriteFails(s, ids) == closed[s] /\ FailsExpecting(s, ids, <<>>)

(* A read fails once either side closed the transport. *)
ReadFails(s) ==
  /\ listen[s] = "run" /\ inbox[s] = <<>>
  /\ closed["client"] \/ closed["server"]
  /\ Ends(s)
  /\ Send(s, <<>>)
  /\ UNCHANGED <<formatVars, inbox, expected, deferred, spawnVars, packVars, frag, queueVars,
                 dial, start>>

(* A Disconnect packet closes the Conn, whatever is expected. *)
receiveDisconnect(s) ==
  /\ Received(s)
  /\ pk(s).id = "Disconnect"
  /\ inbox' = [inbox EXCEPT ![s] = Tail(@)]
  /\ Send(s, <<>>)
  /\ closed' = [closed EXCEPT ![s] = TRUE]
  /\ UNCHANGED <<formatVars, listen, expected, deferred, spawnVars, packVars, frag, queueVars,
                 callVars>>

------------------------------------------------------------------------------
(* Handlers of the server. *)

(* Mutant: compression is enabled before NetworkSettings is flushed. *)
NetworkSettingsCompressed ==
  /\ expect("server", {"Login"})
  /\ enc' = [enc EXCEPT !["server"] = "compressed"]
  /\ dec' = [dec EXCEPT !["server"] = "compressed"]
  /\ UNCHANGED setting
  /\ net' = [net EXCEPT !["client"] =
                Append(@, [format |-> "compressed", packets |-> <<Pk("NetworkSettings")>>])]
  /\ UNCHANGED <<buffered, listen, spawnVars, closed, packVars, frag, queueVars, callVars>>

(* NetworkSettings leaves in the old format, then both directions switch.  *)
SendNetworkSettings ==
  /\ ~closed["server"]
  /\ expect("server", {"Login"})
  /\ Send("server", <<Pk("NetworkSettings")>>)
  /\ enc' = [enc EXCEPT !["server"] = "compressed"]
  /\ dec' = [dec EXCEPT !["server"] = "compressed"]
  /\ UNCHANGED setting
  /\ UNCHANGED <<listen, spawnVars, closed, packVars, frag, queueVars, callVars>>

handleRequestNetworkSettings ==
  /\ Handle("server", "RequestNetworkSettings")
  /\ \/ SendNetworkSettings
     \/ WriteFails("server", {"Login"}) /\ UNCHANGED queueVars
     \/ "protocol" \in Rejects /\ HandlerFails("server", <<Status("LoginFailed")>>)

(* The client is authenticated: resource packs are offered. *)
OfferPacks ==
  \/ /\ ~closed["server"]
     /\ expect("server", {"ResourcePackClientResponse", "ClientCacheStatus"})
     /\ Send("server", <<Status("LoginSuccess"), Pk("ResourcePacksInfo")>>)
     /\ UNCHANGED <<formatVars, listen, spawnVars, closed, packVars, frag, queueVars, callVars>>
  \/ /\ WriteFails("server", {"ResourcePackClientResponse", "ClientCacheStatus"})
     /\ UNCHANGED queueVars

(* enableEncryption: the handshake leaves unencrypted. *)
EnableEncryption ==
  \/ /\ ~closed["server"]
     /\ expect("server", {"ClientToServerHandshake"})
     /\ Send("server", <<Pk("ServerToClientHandshake")>>)
     /\ enc' = [enc EXCEPT !["server"] = "encrypted"]
     /\ dec' = [dec EXCEPT !["server"] = "encrypted"]
     /\ UNCHANGED setting
     /\ UNCHANGED <<listen, spawnVars, closed, packVars, frag, queueVars, callVars>>
  \/ WriteFails("server", {"ClientToServerHandshake"}) /\ UNCHANGED queueVars

(* Allower declines the client: Close returns no error, so the receiving   *)
(* goroutine goes on.                                                      *)
Kick ==
  /\ Send("server", <<Pk("Disconnect")>>)
  /\ closed' = [closed EXCEPT !["server"] = TRUE]
  /\ UNCHANGED <<formatVars, listen, expected, spawnVars, packVars, frag, queueVars, callVars>>

handleLogin ==
  /\ Handle("server", "Login")
  /\ \/ ~disableEncryption /\ EnableEncryption
     \/ disableEncryption /\ OfferPacks
     \/ "login" \in Rejects /\ \E pks \in {<<>>, <<Pk("Disconnect")>>} : HandlerFails("server", pks)
     \/ "login" \in Rejects /\ Kick

handleClientToServerHandshake ==
  /\ Handle("server", "ClientToServerHandshake")
  /\ OfferPacks

handleClientCacheStatus ==
  /\ Handle("server", "ClientCacheStatus")
  /\ Send("server", <<>>)
  /\ UNCHANGED <<formatVars, listen, expected, spawnVars, closed, packVars, frag, queueVars, callVars>>

(* NextPack takes any pack of the map. *)
NextPack(packs, p) ==
  /\ p \in packs
  /\ toDownload' = packs \ {p}
  /\ currentPack' = p
  /\ currentOffset' = 0

DataInfo(p) == <<PackPk("ResourcePackDataInfo", p, 0)>>

handleSendPacks ==
  /\ Handle("server", "ResourcePackClientResponse")
  /\ pk("server").arg = "SendPacks"
  /\ \E p \in Packs :
       /\ NextPack(pk("server").packs, p)
       /\ \/ /\ ~closed["server"]
             /\ Send("server", DataInfo(p))
             /\ expect("server", {"ResourcePackChunkRequest"})
             /\ UNCHANGED <<formatVars, listen, spawnVars, closed, packVars, frag, callVars>>
          \/ WriteFails("server", expected["server"])

handleAllPacksDownloaded ==
  /\ Handle("server", "ResourcePackClientResponse")
  /\ pk("server").arg = "AllPacksDownloaded"
  /\ \/ /\ ~closed["server"]
        /\ Send("server", <<Pk("ResourcePackStack")>>)
        /\ UNCHANGED <<formatVars, listen, expected, spawnVars, closed, packVars, frag, queueVars,
                       callVars>>
     \/ WriteFails("server", expected["server"]) /\ UNCHANGED queueVars

(* The client is logged in and offered to Accept. *)
handleCompleted ==
  /\ Handle("server", "ResourcePackClientResponse")
  /\ pk("server").arg = "Completed"
  /\ loggedIn' = [loggedIn EXCEPT !["server"] = TRUE]
  /\ listen' = [listen EXCEPT !["server"] = "deliver"]
  /\ Send("server", <<>>)
  /\ UNCHANGED <<formatVars, expected, waitingForSpawn, spawned, gameDataReceived, received, closed,
                 packVars, frag, queueVars, callVars>>

(* Mutant: the other packs are forgotten once one is downloaded. *)
ChunkThenDone(p) ==
  /\ currentOffset' = currentOffset + 1
  /\ Send("server", <<PackPk("ResourcePackChunkData", p, currentOffset)>>)
  /\ IF currentOffset + 1 < ChunkCount THEN UNCHANGED expected
     ELSE expect("server", {"ResourcePackClientResponse"})
  /\ UNCHANGED <<toDownload, currentPack>>

(* A chunk is flushed; after the last one comes the next pack, if any. *)
SendChunk(p) ==
  LET chunk == <<PackPk("ResourcePackChunkData", p, currentOffset)>>
      lastChunk == currentOffset + 1 >= ChunkCount IN
  \/ /\ lastChunk /\ toDownload # {}
     /\ \E q \in Packs :
          /\ NextPack(toDownload, q)
          /\ SendAs("server", enc["server"], chunk, DataInfo(q))
     /\ expect("server", {"ResourcePackChunkRequest"})
  \/ /\ ~(lastChunk /\ toDownload # {})
     /\ currentOffset' = currentOffset + 1
     /\ Send("server", chunk)
     /\ expect("server", IF lastChunk THEN {"ResourcePackClientResponse"} ELSE expected["server"])
     /\ UNCHANGED <<toDownload, currentPack>>

handleResourcePackChunkRequest ==
  LET p == pk("server").pack IN
  /\ Handle("server", "ResourcePackChunkRequest")
  /\ IF p # currentPack \/ pk("server").n # currentOffset
     THEN HandlerFails("server", <<>>)
     ELSE \/ /\ ~closed["server"]
             /\ SendChunk(p)
             /\ UNCHANGED <<formatVars, listen, spawnVars, closed, packVars, frag, callVars>>
          \/ /\ WriteFails("server", expected["server"])
             /\ currentOffset' = currentOffset + 1
             /\ UNCHANGED <<toDownload, currentPack>>

handleRequestChunkRadius ==
  /\ Handle("server", "RequestChunkRadius")
  /\ expect("server", {"SetLocalPlayerAsInitialised"})
  /\ Send("server", <<Pk("ChunkRadiusUpdated"), Status("PlayerSpawn"), Pk("CreativeContent")>>)
  /\ UNCHANGED <<formatVars, listen, spawnVars, closed, packVars, frag, queueVars, callVars>>

handleSetLocalPlayerAsInitialised ==
  /\ Handle("server", "SetLocalPlayerAsInitialised")
  /\ waitingForSpawn' = [waitingForSpawn EXCEPT !["server"] = FALSE]
  /\ spawned' = [spawned EXCEPT !["server"] = IF waitingForSpawn["server"] THEN @ + 1 ELSE @]
  /\ Send("server", <<>>)
  /\ UNCHANGED <<formatVars, listen, expected, loggedIn, gameDataReceived, received, closed, packVars,
                 frag, queueVars, callVars>>

------------------------------------------------------------------------------
(* Handlers of the client. *)

(* The receiving goroutine then waits for Dial to take readyForLogin. *)
handleNetworkSettings ==
  /\ Handle("client", "NetworkSettings")
  /\ enc' = [enc EXCEPT !["client"] = "compressed"]
  /\ dec' = [dec EXCEPT !["client"] = "compressed"]
  /\ UNCHANGED setting
  /\ listen' = [listen EXCEPT !["client"] = "ready"]
  /\ SendAs("client", "compressed", <<>>, <<>>)
  /\ UNCHANGED <<expected, spawnVars, closed, packVars, frag, queueVars, callVars>>

handleServerToClientHandshake ==
  /\ Handle("client", "ServerToClientHandshake")
  /\ enc' = [enc EXCEPT !["client"] = "encrypted"]
  /\ dec' = [dec EXCEPT !["client"] = "encrypted"]
  /\ UNCHANGED setting
  /\ SendAs("client", "encrypted", <<Pk("ClientToServerHandshake")>>, <<>>)
  /\ UNCHANGED <<listen, expected, spawnVars, closed, packVars, frag, queueVars, callVars>>

handleLoginSuccess ==
  /\ Handle("client", "PlayStatus")
  /\ pk("client").arg = "LoginSuccess"
  /\ \/ /\ ~closed["client"]
        /\ Send("client", <<Pk("ClientCacheStatus")>>)
        /\ UNCHANGED <<formatVars, listen, expected, spawnVars, closed, packVars, frag, queueVars,
                       callVars>>
     \/ WriteFails("client", expected["client"]) /\ UNCHANGED queueVars

handleLoginFailed ==
  /\ Handle("client", "PlayStatus")
  /\ pk("client").arg = "LoginFailed"
  /\ HandlerFails("client", <<>>)

(* The queue: packs that are declined or cached need no download. *)
PacksInfo(declined, cached) ==
  /\ packAmount' = Cardinality(Packs) - Cardinality(declined) - Cardinality(cached)
  /\ ignored' = declined
  /\ resourcePacks' = cached
  /\ downloading' = Packs \ (declined \cup cached)

handleResourcePacksInfo ==
  \E declined \in SUBSET Declined : \E cached \in SUBSET (Cached \ declined) :
    LET packsToDownload == Packs \ (declined \cup cached) IN
    /\ Handle("client", "ResourcePacksInfo")
    /\ PacksInfo(declined, cached)
    /\ IF packsToDownload # {}
       THEN /\ expect("client", {"ResourcePackDataInfo", "ResourcePackChunkData", "PlayStatus"})
            /\ Send("client", <<Response("SendPacks", packsToDownload)>>)
            /\ UNCHANGED announced
       ELSE /\ expect("client", {"ResourcePackStack", "PlayStatus"})
            /\ Send("client", <<Response("AllPacksDownloaded", {})>>)
            /\ announced' = announced + 1
    /\ UNCHANGED <<formatVars, listen, spawnVars, closed, awaiting, dl, dlIndex, dlAmount, frag,
                   queueVars, callVars>>

handleResourcePackDataInfo ==
  LET p == pk("client").pack IN
  /\ Handle("client", "ResourcePackDataInfo")
  /\ IF p \in downloading
     THEN /\ downloading' = downloading \ {p}
          /\ awaiting' = [q \in DOMAIN awaiting \cup {p} |-> IF q = p THEN 0 ELSE awaiting[q]]
          /\ dl' = [dl EXCEPT ![p] = "request"]
          /\ Send("client", <<>>)
          /\ UNCHANGED <<formatVars, listen, expected, spawnVars, closed, packAmount, resourcePacks,
                         ignored, dlIndex, dlAmount, announced, frag, queueVars, callVars>>
     ELSE HandlerFails("client", <<>>)

(* The chunk is handed to the goroutine of its pack: the handler waits     *)
(* until that goroutine takes it.                                          *)
handleResourcePackChunkData ==
  LET p == pk("client").pack IN
  /\ Handle("client", "ResourcePackChunkData")
  /\ IF p \in DOMAIN awaiting /\ awaiting[p] = pk("client").n
     THEN /\ awaiting' = [awaiting EXCEPT ![p] = @ + 1]
          /\ listen' = [listen EXCEPT !["client"] = "frag"]
          /\ frag' = p
          /\ UNCHANGED <<sendVars, formatVars, expected, spawnVars, closed, packAmount, downloading,
                         resourcePacks, ignored, dl, dlIndex, dlAmount, announced, queueVars,
                         callVars>>
     ELSE HandlerFails("client", <<>>)

(* The stack lists all packs of the server: each has to be there, or to    *)
(* have been declined.                                                     *)
handleResourcePackStack ==
  /\ Handle("client", "ResourcePackStack")
  /\ IF Packs \subseteq resourcePacks \cup ignored
     THEN /\ expect("client", {"DimensionData", "StartGame"})
          /\ Send("client", <<Response("Completed", {})>>)
          /\ UNCHANGED <<formatVars, listen, spawnVars, closed, packVars, frag, queueVars, callVars>>
     ELSE HandlerFails("client", <<>>)

(* The part of the spawn sequence that only fills the game data. *)
Note(id, ids, pks) ==
  /\ Handle("client", id)
  /\ received' = received \cup {id}
  /\ expect("client", ids)
  /\ Send("client", pks)
  /\ UNCHANGED <<formatVars, listen, loggedIn, waitingForSpawn, spawned, gameDataReceived, closed,
                 packVars, frag, queueVars, callVars>>

handleDimensionData == Note("DimensionData", expected["client"], <<>>)
handleStartGame == Note("StartGame", {"ItemRegistry"}, <<>>)
handleItemRegistry ==
  Note("ItemRegistry", {"ChunkRadiusUpdated", "PlayStatus"}, <<Pk("RequestChunkRadius")>>)

(* Mutant: the server's PlayerSpawn is not waited for. *)
tryFinaliseEarly(waiting, got) ==
  IF got
  THEN /\ waitingForSpawn' = [waitingForSpawn EXCEPT !["client"] = FALSE]
       /\ gameDataReceived' = FALSE
       /\ spawned' = [spawned EXCEPT !["client"] = @ + 1]
       /\ loggedIn' = [loggedIn EXCEPT !["client"] = TRUE]
       /\ listen' = [listen EXCEPT !["client"] = "connected"]
       /\ Send("client", <<Pk("SetLocalPlayerAsInitialised")>>)
  ELSE /\ waitingForSpawn' = [waitingForSpawn EXCEPT !["client"] = waiting]
       /\ gameDataReceived' = got
       /\ Send("client", <<>>)
       /\ UNCHANGED <<spawned, loggedIn, listen>>

(* The client is logged in once the chunk radius and PlayerSpawn, in any   *)
(* order, have arrived; the receiving goroutine then waits for Dial.       *)
tryFinaliseClientConn(waiting, got) ==
  IF waiting /\ got
  THEN /\ waitingForSpawn' = [waitingForSpawn EXCEPT !["client"] = FALSE]
       /\ gameDataReceived' = FALSE
       /\ spawned' = [spawned EXCEPT !["client"] = @ + 1]
       /\ loggedIn' = [loggedIn EXCEPT !["client"] = TRUE]
       /\ listen' = [listen EXCEPT !["client"] = "connected"]
       /\ Send("client", <<Pk("SetLocalPlayerAsInitialised")>>)
  ELSE /\ waitingForSpawn' = [waitingForSpawn EXCEPT !["client"] = waiting]
       /\ gameDataReceived' = got
       /\ Send("client", <<>>)
       /\ UNCHANGED <<spawned, loggedIn, listen>>

handleChunkRadiusUpdated ==
  /\ Handle("client", "ChunkRadiusUpdated")
  /\ received' = received \cup {"ChunkRadiusUpdated"}
  /\ expect("client", {"PlayStatus", "ResourcePacksInfo"})
  /\ tryFinaliseClientConn(waitingForSpawn["client"], TRUE)
  /\ UNCHANGED <<formatVars, closed, packVars, frag, queueVars, callVars>>

handlePlayerSpawn ==
  /\ Handle("client", "PlayStatus")
  /\ pk("client").arg = "PlayerSpawn"
  /\ received' = received \cup {"PlayerSpawn"}
  /\ tryFinaliseClientConn(TRUE, gameDataReceived)
  /\ UNCHANGED <<formatVars, expected, closed, packVars, frag, queueVars, callVars>>

------------------------------------------------------------------------------
(* The goroutine handleResourcePackDataInfo starts for a pack. *)

downloadVars == <<formatVars, inbox, deferred, spawnVars, closed, downloading, awaiting, ignored,
                  queueVars, callVars>>

(* The request waits in the send buffer for the next flush. *)
requestChunk(p) ==
  /\ dl[p] = "request"
  /\ Buffer("client", <<PackPk("ResourcePackChunkRequest", p, dlIndex[p])>>)
  /\ dl' = [dl EXCEPT ![p] = "wait"]
  /\ UNCHANGED <<downloadVars, listen, expected, packAmount, resourcePacks, dlIndex, dlAmount, announced,
                 frag>>

(* newFrag is received: the handler that sent it ends with a flush. *)
receiveFrag(p) ==
  /\ dl[p] = "wait"
  /\ listen["client"] = "frag" /\ frag = p
  /\ listen' = [listen EXCEPT !["client"] = "run"]
  /\ frag' = NoPack
  /\ dlIndex' = [dlIndex EXCEPT ![p] = @ + 1]
  /\ dl' = [dl EXCEPT ![p] = IF dlIndex[p] + 1 = ChunkCount THEN "parse" ELSE "request"]
  /\ Send("client", <<>>)
  /\ UNCHANGED <<downloadVars, expected, packAmount, resourcePacks, dlAmount, announced>>

downloadStops(p) ==
  /\ dl[p] = "wait"
  /\ closed["client"]
  /\ dl' = [dl EXCEPT ![p] = "done"]
  /\ UNCHANGED <<downloadVars, sendVars, listen, expected, packAmount, resourcePacks, dlIndex, dlAmount,
                 announced, frag>>

(* Mutant: a pack is counted before it is parsed. *)
parsePackCounts(p) ==
  /\ dl[p] = "parse"
  /\ packAmount' = packAmount - 1
  /\ resourcePacks' \in {IF p \in Corrupt THEN resourcePacks ELSE resourcePacks \cup {p},
                         resourcePacks \cup {p}}
  /\ dlAmount' = [dlAmount EXCEPT ![p] = packAmount - 1]
  /\ dl' = [dl EXCEPT ![p] = "last"]
  /\ UNCHANGED <<downloadVars, sendVars, listen, expected, dlIndex, announced, frag>>

(* Under packMu: a pack that does not parse is given up, another counted.  *)
parsePack(p) ==
  /\ dl[p] = "parse"
  /\ \/ /\ p \in Corrupt
        /\ dl' = [dl EXCEPT ![p] = "done"]
        /\ UNCHANGED <<packAmount, resourcePacks, dlAmount>>
     \/ /\ packAmount' = packAmount - 1
        /\ resourcePacks' = resourcePacks \cup {p}
        /\ dlAmount' = [dlAmount EXCEPT ![p] = packAmount - 1]
        /\ dl' = [dl EXCEPT ![p] = "last"]
  /\ UNCHANGED <<downloadVars, sendVars, listen, expected, dlIndex, announced, frag>>

(* The goroutine that downloaded the last pack publishes what it expects...*)
lastPack(p) ==
  /\ dl[p] = "last"
  /\ IF dlAmount[p] = 0
     THEN /\ expect("client", {"ResourcePackStack", "PlayStatus"})
          /\ dl' = [dl EXCEPT ![p] = "announce"]
     ELSE /\ dl' = [dl EXCEPT ![p] = "done"]
          /\ UNCHANGED expected
  /\ UNCHANGED <<downloadVars, sendVars, listen, packAmount, resourcePacks, dlIndex, dlAmount, announced,
                 frag>>

(* ...and writes the response. *)
announcePacks(p) ==
  /\ dl[p] = "announce"
  /\ Buffer("client", <<Response("AllPacksDownloaded", {})>>)
  /\ announced' = announced + 1
  /\ dl' = [dl EXCEPT ![p] = "done"]
  /\ UNCHANGED <<downloadVars, listen, expected, packAmount, resourcePacks, dlIndex, dlAmount, frag>>

------------------------------------------------------------------------------
(* The call of Dial. *)

dialVars == <<formatVars, inbox, deferred, spawnVars, closed, packVars, frag, queueVars, dialDone, start>>

dialStep(from, to) ==
  /\ dial = from
  /\ dial' = to
  /\ UNCHANGED dialVars

dialExpectSettings ==
  /\ dialStep("expect", "request")
  /\ expect("client", {"NetworkSettings", "PlayStatus"})
  /\ UNCHANGED <<sendVars, listen>>

dialRequestSettings ==
  /\ dialStep("request", IF closed["client"] THEN "failed" ELSE "settings")
  /\ Send("client", <<Pk("RequestNetworkSettings")>>)
  /\ UNCHANGED <<listen, expected>>

(* The rendezvous on readyForLogin. *)
dialReady ==
  /\ listen["client"] = "ready"
  /\ listen' = [listen EXCEPT !["client"] = "run"]
  /\ dialStep("settings", "login")
  /\ UNCHANGED <<sendVars, expected>>

dialExpectLogin ==
  /\ dialStep("login", "send login")
  /\ expect("client", {"ServerToClientHandshake", "PlayStatus", "ResourcePacksInfo"})
  /\ UNCHANGED <<sendVars, listen>>

dialLogin ==
  /\ dialStep("send login", IF closed["client"] THEN "failed" ELSE "connecting")
  /\ Send("client", <<Pk("Login")>>)
  /\ UNCHANGED <<listen, expected>>

(* The rendezvous on connected. *)
dialConnected ==
  /\ listen["client"] = "connected"
  /\ listen' = [listen EXCEPT !["client"] = "run"]
  /\ dialStep("connecting", "connected")
  /\ UNCHANGED <<sendVars, expected>>

(* Mutant: only the Conn's own context is watched. *)
dialFailsClosed ==
  /\ closed["client"]
  /\ \E from \in {"settings", "connecting"} : dialStep(from, "failed")
  /\ UNCHANGED <<sendVars, listen, expected>>

dialFails ==
  /\ dialDone \/ closed["client"]
  /\ \E from \in {"settings", "connecting"} : dialStep(from, "failed")
  /\ UNCHANGED <<sendVars, listen, expected>>

(* External: the context passed to Dial ends. *)
DialContextDone ==
  /\ "dial" \in Expires /\ ~dialDone
  /\ dialDone' = TRUE
  /\ UNCHANGED <<sendVars, formatVars, inbox, listen, expected, deferred, spawnVars, closed, packVars,
                 frag, queueVars, dial, start>>

(* External: the transport of a side fails or its Conn is closed. *)
Drop(s) ==
  /\ s \in Drops /\ ~closed[s]
  /\ closed' = [closed EXCEPT ![s] = TRUE]
  /\ UNCHANGED <<sendVars, formatVars, inbox, listen, expected, deferred, spawnVars, packVars, frag,
                 queueVars, callVars>>

------------------------------------------------------------------------------
(* The application of the server: Accept, then StartGame. *)

Accept ==
  /\ listen["server"] = "deliver"
  /\ listen' = [listen EXCEPT !["server"] = "run"]
  /\ start = "accept" /\ start' = "begin"
  /\ UNCHANGED <<sendVars, formatVars, inbox, expected, deferred, spawnVars, closed, packVars, frag,
                 queueVars, dial, dialDone>>

StartGame ==
  /\ start = "begin" /\ start' = "expect"
  /\ waitingForSpawn' = [waitingForSpawn EXCEPT !["server"] = TRUE]
  /\ UNCHANGED <<sendVars, formatVars, inbox, listen, expected, deferred, loggedIn, spawned,
                 gameDataReceived, received, closed, packVars, frag, queueVars, dial, dialDone>>

startVars == <<formatVars, inbox, listen, deferred, spawnVars, closed, packVars, frag, queueVars, dial,
               dialDone>>

(* Mutant: the replies to the game data are not expected. *)
startGameLate ==
  /\ start = "expect" /\ start' = "write 1"
  /\ UNCHANGED <<startVars, sendVars, expected>>

(* startGame publishes what it expects before anything can reach a fast    *)
(* peer...                                                                 *)
startGame ==
  /\ start = "expect" /\ start' = "write 1"
  /\ expect("server", {"RequestChunkRadius", "SetLocalPlayerAsInitialised"})
  /\ UNCHANGED <<startVars, sendVars>>

WritePCs == <<"write 1", "write 2", "write 3", "write 4", "write 5", "flush">>

(* ...then writes, one packet at a time, DimensionData only if the game    *)
(* has custom dimensions...                                                *)
startGameWrite ==
  \E i \in DOMAIN StartPackets, written \in BOOLEAN :
    /\ start = WritePCs[i] /\ start' = WritePCs[i + 1]
    /\ written \/ i = 1
    /\ Buffer("server", IF written THEN <<StartPackets[i]>> ELSE <<>>)
    /\ UNCHANGED <<startVars, expected>>

(* ...and flushes at the end. *)
startGameFlush ==
  /\ start = "flush" /\ start' = "wait"
  /\ Send("server", <<>>)
  /\ UNCHANGED <<startVars, expected>>

startGameSpawned ==
  /\ start = "wait" /\ spawned["server"] > 0
  /\ start' = "spawned"
  /\ UNCHANGED <<startVars, sendVars, expected>>

startGameFails ==
  /\ start = "wait"
  /\ closed["server"] \/ "start" \in Expires
  /\ start' = "failed"
  /\ UNCHANGED <<startVars, sendVars, expected>>

------------------------------------------------------------------------------
ServerHandler ==
  \/ handleRequestNetworkSettings \/ handleLogin \/ handleClientToServerHandshake
  \/ handleClientCacheStatus \/ handleSendPacks \/ handleAllPacksDownloaded \/ handleCompleted
  \/ handleResourcePackChunkRequest \/ handleRequestChunkRadius
  \/ handleSetLocalPlayerAsInitialised

ClientHandler ==
  \/ handleNetworkSettings \/ handleServerToClientHandshake \/ handleLoginSuccess
  \/ handleLoginFailed \/ handleResourcePacksInfo \/ handleResourcePackDataInfo
  \/ handleResourcePackChunkData \/ handleResourcePackStack \/ handleDimensionData
  \/ handleStartGame \/ handleItemRegistry \/ handleChunkRadiusUpdated \/ handlePlayerSpawn

(* The goroutine that receives on a side. *)
Receiver(s) ==
  \/ DecodeFunc(s) \/ deferPacket(s) \/ receiveDisconnect(s)
  \/ s = "server" /\ ServerHandler
  \/ s = "client" /\ ClientHandler

Download(p) ==
  \/ requestChunk(p) \/ receiveFrag(p) \/ downloadStops(p) \/ parsePack(p) \/ lastPack(p)
  \/ announcePacks(p)

Dial ==
  \/ dialExpectSettings \/ dialRequestSettings \/ dialReady \/ dialExpectLogin \/ dialLogin
  \/ dialConnected \/ dialFails

Application ==
  \/ Accept \/ StartGame \/ startGame \/ startGameWrite \/ startGameFlush \/ startGameSpawned
  \/ startGameFails

Next ==
  \/ \E s \in Sides : DecodeFunc(s) \/ deferPacket(s) \/ receiveDisconnect(s) \/ ReadFails(s)
  \/ \E s \in Sides : Tick(s) \/ Drop(s)
  \/ ServerHandler \/ ClientHandler
  \/ \E p \in Packs : Download(p)
  \/ Dial \/ DialContextDone \/ Application

Spec == Init /\ [][Next]_vars

(* Goroutines that can run do, tickers tick, what was written arrives, a   *)
(* read of a closed transport fails, and the context of Dial, a timeout    *)
(* unless the caller chose otherwise, ends.  The application accepts the   *)
(* connection and starts the game.  Transports need not fail.              *)
FairSpec ==
  /\ Spec
  /\ \A s \in Sides : WF_vars(Receiver(s)) /\ WF_vars(ReadFails(s)) /\ WF_vars(Tick(s))
  /\ \A p \in Packs : WF_vars(Download(p))
  /\ WF_vars(Dial) /\ WF_vars(DialContextDone) /\ WF_vars(Application)

------------------------------------------------------------------------------
(* Properties. *)

(* No packet of the handshake is left to the application, which would not  *)
(* answer it: each is expected before the packet it answers can reach the  *)
(* peer, as the comment of expect demands.                                 *)
HandshakeNotDeferred ==
  deferred["client"] \cap ClientHandled = {} /\ deferred["server"] \cap ServerHandled = {}

(* A batch is read in the format it was written in, through both switches. *)
FormatsAgree ==
  \A s \in Sides :
    listen[s] = "run" /\ inbox[s] = <<>> /\ net[s] # <<>> => Head(net[s]).format = dec[s]

(* The client says that it has all packs once, and when it has them all,   *)
(* whichever of its downloads ends last.                                   *)
AnnouncedOnce ==
  /\ announced <= 1
  /\ announced = 1 => Packs = resourcePacks \cup ignored

(* The sides agree on the spawn: the server's StartGame returns only when  *)
(* the client is logged in, which is when all of the game data and         *)
(* PlayerSpawn arrived, and neither closes its spawn channel twice.        *)
SpawnsAgree ==
  /\ \A s \in Sides : spawned[s] <= 1
  /\ spawned["server"] = 1 => spawned["client"] = 1
  /\ spawned["client"] = 1 =>
       /\ loggedIn["client"] /\ loggedIn["server"]
       /\ {"StartGame", "ItemRegistry", "ChunkRadiusUpdated", "PlayerSpawn"} \subseteq received

(* A login that nothing may befall completes on both sides. *)
FaultFree == Corrupt = {} /\ Rejects = {} /\ Expires = {} /\ Drops = {}
LoginCompletes == FaultFree => <>(dial = "connected" /\ start = "spawned")

(* Dial returns if its context ends or its Conn is closed, wherever the    *)
(* login stands.                                                           *)
DialReturns == (dialDone \/ closed["client"]) ~> dial \in {"connected", "failed"}

(* The client's receiving goroutine "listens on the connection until it is *)
(* closed on another goroutine".                                           *)
ListenEnds == closed["client"] ~> listen["client"] = "done"
==============================================================================
