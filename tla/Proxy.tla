-------------------------------- MODULE Proxy --------------------------------
(***************************************************************************)
(* handleConn of main.go: the proxy dials the server for a player, spawns  *)
(* both sides at once and relays packets with a goroutine per direction,   *)
(* until either side ends.                                                 *)
(*                                                                         *)
(* Of a Conn the module keeps whether it is closed and why, and of the     *)
(* player's the Disconnect packets in its send buffer: ConnReceive and     *)
(* ConnSend have the rest.  The packets relayed are not told apart.        *)
(***************************************************************************)
EXTENDS Sequences

VARIABLES
  handler,   \* handleConn: not started, dialling, spawning, relaying, panicked
  spawned,   \* which of the two spawn goroutines have called g.Done
  client,    \* the player's Conn: "open", or why it was closed
  server,    \* serverConn, likewise
  buffered,  \* Disconnect messages in the player's send buffer
  told,      \* the message the player's Disconnect screen shows
  up,        \* the goroutine that relays from the player to the server
  down       \* the goroutine that relays from the server to the player

proxyVars == <<handler, spawned, client, server, buffered, told, up, down>>

NoMessage == "none"

ProxyInit ==
  /\ handler = "none" /\ spawned = {}
  /\ client = "open" /\ server = "none"
  /\ buffered = <<>> /\ told = NoMessage
  /\ up = "none" /\ down = "none"

(* The loop of main starts a handler for the player it accepted. *)
AcceptPlayer ==
  /\ handler = "none" /\ handler' = "dial"
  /\ UNCHANGED <<spawned, client, server, buffered, told, up, down>>

(* External: either side ends: the player leaves or is lost, the server    *)
(* disconnects the proxy with a reason, or is lost.                        *)
ClientEnds ==
  /\ client = "open" /\ client' = "left" /\ handler \notin {"none", "panic"}
  /\ UNCHANGED <<handler, spawned, server, buffered, told, up, down>>

ServerEnds ==
  /\ server = "open" /\ server' \in {"reason", "lost"} /\ handler # "panic"
  /\ UNCHANGED <<handler, spawned, client, buffered, told, up, down>>

Dial ==
  /\ handler = "dial"
  /\ \/ handler' = "spawn" /\ server' = "open"
     \/ handler' = "panic" /\ UNCHANGED server
  /\ UNCHANGED <<spawned, client, buffered, told, up, down>>

(* The two spawn goroutines: an error, also of a closed Conn, panics. *)
Spawn(side, state) ==
  /\ handler = "spawn" /\ side \notin spawned
  /\ \/ state = "open" /\ spawned' = spawned \cup {side} /\ UNCHANGED handler
     \/ handler' = "panic" /\ UNCHANGED spawned
  /\ UNCHANGED <<client, server, buffered, told, up, down>>
StartGame == Spawn("client", client)
DoSpawn == Spawn("server", server)

Wait ==
  /\ handler = "spawn" /\ spawned = {"client", "server"}
  /\ handler' = "relay" /\ up' = "read" /\ down' = "read"
  /\ UNCHANGED <<spawned, client, server, buffered, told>>

(* Disconnect, first half: WritePacket, which fails on a closed Conn. *)
WriteDisconnect(message) ==
  buffered' = IF client = "open" THEN Append(buffered, message) ELSE buffered

Shown == IF told = NoMessage /\ buffered # <<>> THEN Head(buffered) ELSE told

(* Second half: close, which flushes the buffer first; once. *)
CloseClient ==
  /\ client' = IF client = "open" THEN "closed" ELSE client
  /\ told' = IF client = "open" THEN Shown ELSE told
  /\ UNCHANGED buffered

CloseServer == server' = IF server = "open" THEN "closed" ELSE server

(* The flush ticker of the player's Conn may be faster. *)
Tick ==
  /\ client = "open" /\ buffered # <<>> /\ told = NoMessage
  /\ told' = Shown
  /\ UNCHANGED <<handler, spawned, client, server, buffered, up, down>>

(* Relaying from the player: ReadPacket, WritePacket; a server that        *)
(* disconnected the proxy is quoted to the player.  The deferred calls     *)
(* close the server's side first.                                          *)
UpRead ==
  /\ up = "read" /\ up' \in IF client = "open" THEN {"write"} ELSE {"write", "deferServer"}
  /\ UNCHANGED <<handler, spawned, client, server, buffered, told, down>>

UpWrite ==
  /\ up = "write"
  /\ up' = CASE server = "open" -> "read" [] server = "reason" -> "quote" [] OTHER -> "deferServer"
  /\ UNCHANGED <<handler, spawned, client, server, buffered, told, down>>

UpQuote ==
  /\ \/ up = "quote" /\ up' = "quoteClose" /\ WriteDisconnect("reason") /\ UNCHANGED <<client, told>>
     \/ up = "quoteClose" /\ up' = "deferServer" /\ CloseClient
  /\ UNCHANGED <<handler, spawned, server, down>>

(* Mutant: the server's side is left to the other goroutine. *)
upLeavesServer ==
  /\ \/ up = "deferServer" /\ up' = "deferClient" /\ UNCHANGED <<server, buffered, client, told>>
     \/ up = "deferClient" /\ up' = "deferClose" /\ WriteDisconnect("connection lost")
        /\ UNCHANGED <<server, client, told>>
     \/ up = "deferClose" /\ up' = "ended" /\ CloseClient /\ UNCHANGED server
  /\ UNCHANGED <<handler, spawned, down>>

UpDefer ==
  /\ \/ up = "deferServer" /\ up' = "deferClient" /\ CloseServer /\ UNCHANGED <<buffered, client, told>>
     \/ up = "deferClient" /\ up' = "deferClose" /\ WriteDisconnect("connection lost")
        /\ UNCHANGED <<server, client, told>>
     \/ up = "deferClose" /\ up' = "ended" /\ CloseClient /\ UNCHANGED server
  /\ UNCHANGED <<handler, spawned, down>>

(* Relaying from the server; the deferred calls end with the server's side. *)
DownRead ==
  /\ down = "read"
  /\ down' \in CASE server = "open" -> {"write"}
                 [] server = "reason" -> {"write", "quote"}
                 [] OTHER -> {"write", "deferClient"}
  /\ UNCHANGED <<handler, spawned, client, server, buffered, told, up>>

DownWrite ==
  /\ down = "write" /\ down' = IF client = "open" THEN "read" ELSE "deferClient"
  /\ UNCHANGED <<handler, spawned, client, server, buffered, told, up>>

(* Mutant: the error of ReadPacket is not looked at. *)
downForgetsReason ==
  /\ \/ down = "quote" /\ down' = "quoteClose" /\ UNCHANGED <<buffered, client, told>>
     \/ down = "quoteClose" /\ down' = "deferClient" /\ UNCHANGED <<buffered, client, told>>
  /\ UNCHANGED <<handler, spawned, server, up>>

DownQuote ==
  /\ \/ down = "quote" /\ down' = "quoteClose" /\ WriteDisconnect("reason") /\ UNCHANGED <<client, told>>
     \/ down = "quoteClose" /\ down' = "deferClient" /\ CloseClient
  /\ UNCHANGED <<handler, spawned, server, up>>

DownDefer ==
  /\ \/ down = "deferClient" /\ down' = "deferClose" /\ WriteDisconnect("connection lost")
        /\ UNCHANGED <<server, client, told>>
     \/ down = "deferClose" /\ down' = "deferServer" /\ CloseClient /\ UNCHANGED server
     \/ down = "deferServer" /\ down' = "ended" /\ CloseServer /\ UNCHANGED <<buffered, client, told>>
  /\ UNCHANGED <<handler, spawned, up>>

Handle == Dial \/ StartGame \/ DoSpawn \/ Wait
Up == UpWrite \/ UpQuote \/ UpDefer
Down == DownWrite \/ DownQuote \/ DownDefer

ProxyNext ==
  \/ AcceptPlayer \/ Handle \/ Up \/ UpRead \/ Down \/ DownRead
  \/ ClientEnds \/ ServerEnds \/ Tick

ProxySpec == ProxyInit /\ [][ProxyNext]_proxyVars

(* Dialling and spawning end, by their timeouts at the latest; the         *)
(* goroutines run.  A read of an open Conn may wait for ever; one of a     *)
(* closed Conn returns the packets that are left and then fails.           *)
ProxyFairness ==
  /\ WF_proxyVars(Handle) /\ WF_proxyVars(Up) /\ WF_proxyVars(Down)
  /\ SF_proxyVars(UpRead /\ up' = "deferServer")
  /\ SF_proxyVars(DownRead /\ down' \in {"quote", "deferClient"})

------------------------------------------------------------------------------
(* Properties. *)

(* When one side ends the other one is closed too and both goroutines      *)
(* return, even if the one that noticed is not the one that waits.  (A     *)
(* side that ends before both have spawned panics the whole proxy.)        *)
BothSidesEnd ==
  (client # "open" \/ server \notin {"none", "open"})
    ~> (handler = "panic" \/ (client # "open" /\ server # "open" /\ up = "ended" /\ down = "ended"))

(* A player who is still there when the server disconnects the proxy is    *)
(* told the server's reason, never that the connection was lost, whichever *)
(* goroutine meets the error first.                                        *)
ClientToldWhy == server = "reason" => told # "connection lost" /\ (client = "closed" => told = "reason")
==============================================================================
