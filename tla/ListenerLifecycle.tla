-------------------------- MODULE ListenerLifecycle --------------------------
(***************************************************************************)
(* Listeners that share a ListenerGroup: the accept loop admits network    *)
(* connections below MaximumPlayers, a goroutine per connection reads it   *)
(* until it is logged in, hands it to Accept and reads on, a timer closes  *)
(* connections that do not authenticate, and Close stops the listener and  *)
(* joins every goroutine it started.                                       *)
(*                                                                         *)
(* What the packets say is in the login model; here a batch authenticates  *)
(* the connection, logs it in, fails, or does nothing.                     *)
(***************************************************************************)
EXTENDS Integers, FiniteSets

CONSTANTS
  Listeners,       \* listeners of one group
  Conns,           \* network connections that may arrive, at any listener
  MaximumPlayers,  \* ListenConfig.MaximumPlayers, 0 for no limit
  LoginTimeout,    \* listeners whose ListenConfig.LoginTimeout is above 0
  Closing,         \* listeners the application may close
  Failing,         \* listeners whose net.Listener may fail
  NoConn, NoListener

ASSUME ListenerAssumption ==
  /\ IsFiniteSet(Conns)
  /\ Closing \subseteq Listeners /\ Failing \subseteq Listeners
  /\ NoConn \notin Conns /\ NoListener \notin Listeners
  /\ MaximumPlayers \in Nat
  /\ LoginTimeout \subseteq Listeners

VARIABLES
  playerCount,   \* ListenerGroup.playerCount, an atomic counter
  stop,          \* per listener: what stopOnce has done so far
  transport,     \* per listener: the net.Listener accepts connections
  loop,          \* per listener: program counter of the accept loop
  current,       \* per listener: the count ListenerGroup.add loaded
  creating,      \* per listener: the connection createConn is at
  connections,   \* per listener: the connections map
  pong,          \* per listener: the goroutine that refreshes the pong data
  accepting,     \* per listener: the application waits in Accept
  closer,        \* per listener and caller: program counter of Close
  snapshot,      \* per listener and caller: connections Close has to close
  owner,         \* the listener that accepted each connection
  conn,          \* per connection: where its goroutine is
  authenticated, \* per connection: Conn.authenticated
  loggedIn,      \* per connection: Conn.loggedIn
  closed,        \* per connection: its context is done, its transport closed
  timer          \* per connection: the LoginTimeout timer

groupVars == <<playerCount>>
loopVars == <<stop, transport, loop, current, creating, pong, accepting>>
closeVars == <<closer, snapshot>>
connVars == <<owner, conn, authenticated, loggedIn, closed, timer>>
vars == <<groupVars, loopVars, connections, closeVars, connVars>>

(* Close is called by the application and, when the accept loop ends, by   *)
(* the listener itself.                                                    *)
Callers == {"app", "self"}

(* A connection holds a slot from the moment ListenerGroup.add counted it  *)
(* until handleConn's deferred function calls remove.                      *)
Holding == {"admitted", "reading", "dispatch", "deliver", "flush"}
(* The goroutine of the connection was started and is not done. *)
Running == {"reading", "dispatch", "deliver", "flush", "delete"}
ConnPCs == {"new", "accepted", "rejected", "gone"} \cup Holding \cup Running

Holders == {c \in Conns : conn[c] \in Holding}
OwnedBy(l) == {c \in Conns : owner[c] = l}
connectionsWG(l) == {c \in OwnedBy(l) : conn[c] \in Running}

Init ==
  /\ playerCount = 0
  /\ stop = [l \in Listeners |-> "no"]
  /\ transport = [l \in Listeners |-> TRUE]
  /\ loop = [l \in Listeners |-> "accept"]
  /\ current = [l \in Listeners |-> 0]
  /\ creating = [l \in Listeners |-> NoConn]
  /\ connections = [l \in Listeners |-> {}]
  /\ pong = [l \in Listeners |-> TRUE]
  /\ accepting = [l \in Listeners |-> FALSE]
  /\ closer = [l \in Listeners |-> [w \in Callers |-> "idle"]]
  /\ snapshot = [l \in Listeners |-> [w \in Callers |-> {}]]
  /\ owner = [c \in Conns |-> NoListener]
  /\ conn = [c \in Conns |-> "new"]
  /\ authenticated = [c \in Conns |-> FALSE]
  /\ loggedIn = [c \in Conns |-> FALSE]
  /\ closed = [c \in Conns |-> FALSE]
  /\ timer = [c \in Conns |-> "none"]

Move(c, from, to) ==
  /\ conn[c] = from
  /\ conn' = [conn EXCEPT ![c] = to]

------------------------------------------------------------------------------
(* The accept loop: listen, createConn and ListenerGroup.add. *)

AcceptNet(l, c) ==
  /\ loop[l] = "accept"
  /\ transport[l]
  /\ Move(c, "new", "accepted")
  /\ owner' = [owner EXCEPT ![c] = l]
  /\ creating' = [creating EXCEPT ![l] = c]
  /\ loop' = [loop EXCEPT ![l] = "load"]
  /\ UNCHANGED <<groupVars, stop, transport, current, pong, accepting, connections,
                 closeVars, authenticated, loggedIn, closed, timer>>

(* Load the counter and compare it with the limit... *)
addLoad(l) ==
  /\ loop[l] = "load"
  /\ current' = [current EXCEPT ![l] = playerCount]
  /\ loop' = [loop EXCEPT ![l] =
                IF MaximumPlayers > 0 /\ playerCount >= MaximumPlayers THEN "full" ELSE "swap"]
  /\ UNCHANGED <<groupVars, stop, transport, creating, pong, accepting, connections,
                 closeVars, connVars>>

(* Mutant: the counter is stored without comparing it first. *)
addStore(l) ==
  /\ loop[l] = "swap"
  /\ playerCount' = current[l] + 1
  /\ conn' = [conn EXCEPT ![creating[l]] = "admitted"]
  /\ loop' = [loop EXCEPT ![l] = "register"]
  /\ timer' = [timer EXCEPT ![creating[l]] = IF l \in LoginTimeout THEN "armed" ELSE "none"]
  /\ UNCHANGED <<stop, transport, current, creating, pong, accepting, connections,
                 closeVars, owner, authenticated, loggedIn, closed>>

(* ...then CompareAndSwap, which fails if another listener of the group    *)
(* changed the counter meanwhile.  createConn then arms the login timer.   *)
addSwap(l) ==
  /\ loop[l] = "swap"
  /\ playerCount = current[l]
  /\ playerCount' = current[l] + 1
  /\ conn' = [conn EXCEPT ![creating[l]] = "admitted"]
  /\ loop' = [loop EXCEPT ![l] = "register"]
  /\ timer' = [timer EXCEPT ![creating[l]] = IF l \in LoginTimeout THEN "armed" ELSE "none"]
  /\ UNCHANGED <<stop, transport, current, creating, pong, accepting, connections,
                 closeVars, owner, authenticated, loggedIn, closed>>

addRetry(l) ==
  /\ loop[l] = "swap"
  /\ playerCount # current[l]
  /\ loop' = [loop EXCEPT ![l] = "load"]
  /\ UNCHANGED <<groupVars, stop, transport, current, creating, pong, accepting,
                 connections, closeVars, connVars>>

(* The server is full: the player is told so and the connection closed, on *)
(* the accept loop.  conn.close flushes, which may block on a peer that    *)
(* does not read, and no Close can end it: the Conn is not in the map.     *)
rejectFull(l) ==
  /\ loop[l] = "full"
  /\ conn' = [conn EXCEPT ![creating[l]] = "rejected"]
  /\ closed' = [closed EXCEPT ![creating[l]] = TRUE]
  /\ loop' = [loop EXCEPT ![l] = "accept"]
  /\ creating' = [creating EXCEPT ![l] = NoConn]
  /\ UNCHANGED <<groupVars, stop, transport, current, pong, accepting, connections,
                 closeVars, owner, authenticated, loggedIn, timer>>

(* The connection is added to the map and its goroutine started. *)
register(l) ==
  /\ loop[l] = "register"
  /\ connections' = [connections EXCEPT ![l] = @ \cup {creating[l]}]
  /\ conn' = [conn EXCEPT ![creating[l]] = "reading"]
  /\ loop' = [loop EXCEPT ![l] = "accept"]
  /\ creating' = [creating EXCEPT ![l] = NoConn]
  /\ UNCHANGED <<groupVars, stop, transport, current, pong, accepting, closeVars,
                 owner, authenticated, loggedIn, closed, timer>>

(* Mutant: the listener does not close itself. *)
AcceptNetReturns(l) ==
  /\ loop[l] = "accept"
  /\ ~transport[l]
  /\ loop' = [loop EXCEPT ![l] = "done"]
  /\ UNCHANGED <<groupVars, stop, transport, current, creating, pong, accepting,
                 connections, closeVars, connVars>>

(* The net.Listener was closed, or failed: acceptDone is closed and the    *)
(* listener closes itself on a goroutine of its own.                       *)
AcceptNetFails(l) ==
  /\ loop[l] = "accept"
  /\ ~transport[l]
  /\ loop' = [loop EXCEPT ![l] = "done"]
  /\ closer' = [closer EXCEPT ![l]["self"] = "stop"]
  /\ UNCHANGED <<groupVars, stop, transport, current, creating, pong, accepting,
                 connections, snapshot, connVars>>

(* External: the net.Listener fails without having been closed. *)
TransportFails(l) ==
  /\ l \in Failing
  /\ transport[l]
  /\ transport' = [transport EXCEPT ![l] = FALSE]
  /\ UNCHANGED <<groupVars, stop, loop, current, creating, pong, accepting, connections,
                 closeVars, connVars>>

------------------------------------------------------------------------------
(* The goroutine of a connection: handleConn and what createConn does after. *)

otherVars == <<loopVars, closeVars>>

(* A batch may still be returned after the transport was closed. *)
ReadBatch(c) ==
  /\ Move(c, "reading", "dispatch")
  /\ UNCHANGED <<groupVars, otherVars, connections, owner, authenticated, loggedIn,
                 closed, timer>>

(* The Login was verified and, with encryption, the handshake completed. *)
Authenticate(c) ==
  /\ conn[c] = "dispatch"
  /\ ~authenticated[c]
  /\ authenticated' = [authenticated EXCEPT ![c] = TRUE]
  /\ UNCHANGED <<groupVars, otherVars, connections, owner, conn, loggedIn, closed, timer>>

(* The login sequence completed: the connection is offered to Accept. *)
LogIn(c) ==
  /\ authenticated[c]
  /\ ~loggedIn[c]
  /\ loggedIn' = [loggedIn EXCEPT ![c] = TRUE]
  /\ Move(c, "dispatch", "deliver")
  /\ UNCHANGED <<groupVars, otherVars, connections, owner, authenticated, closed, timer>>

DispatchDone(c) ==
  /\ Move(c, "dispatch", "reading")
  /\ UNCHANGED <<groupVars, otherVars, connections, owner, authenticated, loggedIn,
                 closed, timer>>

(* receive fails, or the batch cannot be read: handleConn returns. *)
DispatchFails(c) ==
  /\ Move(c, "dispatch", "flush")
  /\ UNCHANGED <<groupVars, otherVars, connections, owner, authenticated, loggedIn,
                 closed, timer>>

(* Mutant: the error of a read is logged once the player has logged in.    *)
readFailsLogs(c) ==
  /\ closed[c] /\ ~loggedIn[c]
  /\ Move(c, "reading", "flush")
  /\ UNCHANGED <<groupVars, otherVars, connections, owner, authenticated, loggedIn,
                 closed, timer>>

ReadFails(c) ==
  /\ closed[c]
  /\ Move(c, "reading", "flush")
  /\ UNCHANGED <<groupVars, otherVars, connections, owner, authenticated, loggedIn,
                 closed, timer>>

(* The rendezvous on the incoming channel.  A select entered, or parked,   *)
(* when listener.close is closed takes that case: once it is closed nobody *)
(* waits on the channel any more.                                          *)
Deliver(l, c) ==
  /\ owner[c] = l
  /\ accepting[l]
  /\ stop[l] = "no"
  /\ Move(c, "deliver", "dispatch")
  /\ accepting' = [accepting EXCEPT ![l] = FALSE]
  /\ UNCHANGED <<groupVars, stop, transport, loop, current, creating, pong, connections,
                 closeVars, owner, authenticated, loggedIn, closed, timer>>

DeliverStopped(c) ==
  /\ \E l \in Listeners : owner[c] = l /\ stop[l] # "no"
  /\ Move(c, "deliver", "flush")
  /\ UNCHANGED <<groupVars, otherVars, connections, owner, authenticated, loggedIn,
                 closed, timer>>

(* The deferred function: conn.Close() flushes what is buffered, which may *)
(* block on a peer that does not read, then the slot is given back.        *)
CloseAndRemove(c) ==
  /\ Move(c, "flush", "delete")
  /\ closed' = [closed EXCEPT ![c] = TRUE]
  /\ playerCount' = playerCount - 1
  /\ UNCHANGED <<otherVars, connections, owner, authenticated, loggedIn, timer>>

(* Mutant: the slot is given back a second time. *)
deleteConnRemoves(c) ==
  /\ Move(c, "delete", "gone")
  /\ timer' = [timer EXCEPT ![c] = IF @ = "armed" THEN "done" ELSE @]
  /\ connections' = [l \in Listeners |-> connections[l] \ {c}]
  /\ playerCount' = playerCount - 1
  /\ UNCHANGED <<otherVars, owner, authenticated, loggedIn, closed>>

(* timer.Stop, the map entry is deleted, connectionsWG.Done. *)
deleteConn(c) ==
  /\ Move(c, "delete", "gone")
  /\ timer' = [timer EXCEPT ![c] = IF @ = "armed" THEN "done" ELSE @]
  /\ connections' = [l \in Listeners |-> connections[l] \ {c}]
  /\ UNCHANGED <<groupVars, otherVars, owner, authenticated, loggedIn, closed>>

------------------------------------------------------------------------------
(* Others that close a connection. *)

(* The peer goes away, the application closes the Conn it accepted, or a   *)
(* Disconnect packet or the flush ticker does.                             *)
ConnCloses(c) ==
  /\ conn[c] \in Holding \cup {"accepted"}
  /\ ~closed[c]
  /\ closed' = [closed EXCEPT ![c] = TRUE]
  /\ UNCHANGED <<groupVars, otherVars, connections, owner, conn, authenticated, loggedIn,
                 timer>>

(* The timer's function looks at authenticated... *)
timerChecks(c) ==
  /\ timer[c] = "armed"
  /\ timer' = [timer EXCEPT ![c] = IF authenticated[c] THEN "done" ELSE "expired"]
  /\ UNCHANGED <<groupVars, otherVars, connections, owner, conn, authenticated, loggedIn,
                 closed>>

(* Mutant: the timeout is logged and nothing closed. *)
timerLogs(c) ==
  /\ timer[c] = "expired"
  /\ timer' = [timer EXCEPT ![c] = "done"]
  /\ UNCHANGED <<groupVars, otherVars, connections, owner, conn, authenticated, loggedIn,
                 closed>>

(* ...and closes the transport. *)
timerCloses(c) ==
  /\ timer[c] = "expired"
  /\ timer' = [timer EXCEPT ![c] = "done"]
  /\ closed' = [closed EXCEPT ![c] = TRUE]
  /\ UNCHANGED <<groupVars, otherVars, connections, owner, conn, authenticated, loggedIn>>

------------------------------------------------------------------------------
(* The application: Accept and Close. *)

Accept(l) ==
  /\ ~accepting[l]
  /\ stop[l] = "no"
  /\ accepting' = [accepting EXCEPT ![l] = TRUE]
  /\ UNCHANGED <<groupVars, stop, transport, loop, current, creating, pong, connections,
                 closeVars, connVars>>

AcceptStopped(l) ==
  /\ accepting[l]
  /\ stop[l] # "no"
  /\ accepting' = [accepting EXCEPT ![l] = FALSE]
  /\ UNCHANGED <<groupVars, stop, transport, loop, current, creating, pong, connections,
                 closeVars, connVars>>

Close(l) ==
  /\ l \in Closing
  /\ closer[l]["app"] = "idle"
  /\ closer' = [closer EXCEPT ![l]["app"] = "stop"]
  /\ UNCHANGED <<groupVars, loopVars, connections, snapshot, connVars>>

(* stopOnce: the first caller closes the channel, then the net.Listener... *)
stopSignal(l, w) ==
  /\ closer[l][w] = "stop"
  /\ stop[l] = "no"
  /\ stop' = [stop EXCEPT ![l] = "signalled"]
  /\ closer' = [closer EXCEPT ![l][w] = "stopping"]
  /\ UNCHANGED <<groupVars, transport, loop, current, creating, pong, accepting,
                 connections, snapshot, connVars>>

stopTransport(l, w) ==
  /\ closer[l][w] = "stopping"
  /\ transport' = [transport EXCEPT ![l] = FALSE]
  /\ stop' = [stop EXCEPT ![l] = "done"]
  /\ closer' = [closer EXCEPT ![l][w] = "join"]
  /\ UNCHANGED <<groupVars, loop, current, creating, pong, accepting, connections,
                 snapshot, connVars>>

(* ...and a caller that comes later waits for it. *)
stopWait(l, w) ==
  /\ closer[l][w] = "stop"
  /\ stop[l] = "done"
  /\ closer' = [closer EXCEPT ![l][w] = "join"]
  /\ UNCHANGED <<groupVars, loopVars, connections, snapshot, connVars>>

(* Close waits for acceptDone, then collects the connections under the     *)
(* lock...                                                                 *)
collect(l, w) ==
  /\ closer[l][w] = "join"
  /\ loop[l] = "done"
  /\ snapshot' = [snapshot EXCEPT ![l][w] = connections[l]]
  /\ closer' = [closer EXCEPT ![l][w] = "closing"]
  /\ UNCHANGED <<groupVars, loopVars, connections, connVars>>

(* Mutant: Close leaves the connections open and waits for them. *)
closeTransportNot(l, w, c) ==
  /\ closer[l][w] = "closing"
  /\ c \in snapshot[l][w]
  /\ snapshot' = [snapshot EXCEPT ![l][w] = @ \ {c}]
  /\ UNCHANGED <<groupVars, loopVars, connections, closer, connVars>>

(* ...closes the transport of each of them... *)
closeTransport(l, w, c) ==
  /\ closer[l][w] = "closing"
  /\ c \in snapshot[l][w]
  /\ snapshot' = [snapshot EXCEPT ![l][w] = @ \ {c}]
  /\ closed' = [closed EXCEPT ![c] = TRUE]
  /\ UNCHANGED <<groupVars, loopVars, connections, closer, owner, conn, authenticated,
                 loggedIn, timer>>

(* Mutant: the goroutines are not waited for. *)
joinNobody(l, w) ==
  /\ closer[l][w] = "closing"
  /\ snapshot[l][w] = {}
  /\ closer' = [closer EXCEPT ![l][w] = "pong"]
  /\ UNCHANGED <<groupVars, loopVars, connections, snapshot, connVars>>

(* ...and waits for the goroutines of the connections and of the pong.     *)
joinReaders(l, w) ==
  /\ closer[l][w] = "closing"
  /\ snapshot[l][w] = {}
  /\ connectionsWG(l) = {}
  /\ closer' = [closer EXCEPT ![l][w] = "pong"]
  /\ UNCHANGED <<groupVars, loopVars, connections, snapshot, connVars>>

closeReturns(l, w) ==
  /\ closer[l][w] = "pong"
  /\ ~pong[l]
  /\ closer' = [closer EXCEPT ![l][w] = "returned"]
  /\ UNCHANGED <<groupVars, loopVars, connections, snapshot, connVars>>

pongStops(l) ==
  /\ pong[l]
  /\ stop[l] # "no"
  /\ pong' = [pong EXCEPT ![l] = FALSE]
  /\ UNCHANGED <<groupVars, stop, transport, loop, current, creating, accepting,
                 connections, closeVars, connVars>>

------------------------------------------------------------------------------
LoopStep(l) ==
  \/ addLoad(l) \/ addSwap(l) \/ addRetry(l) \/ register(l) \/ AcceptNetFails(l)

CloserStep(l, w) ==
  \/ stopSignal(l, w) \/ stopTransport(l, w) \/ stopWait(l, w) \/ collect(l, w)
  \/ \E c \in Conns : closeTransport(l, w, c)
  \/ joinReaders(l, w) \/ closeReturns(l, w)

(* What the goroutine of a connection does on its own; the steps of Peer   *)
(* need packets to arrive, or the peer to take what is written to it.      *)
ExitStep(c) == DeliverStopped(c) \/ ReadFails(c) \/ deleteConn(c)
PeerStep(c) ==
  \/ ReadBatch(c) \/ Authenticate(c) \/ LogIn(c) \/ DispatchDone(c) \/ DispatchFails(c)
  \/ CloseAndRemove(c)
TimerStep(c) == timerChecks(c) \/ timerCloses(c)
(* The accept loop rejects a player whose transport is closed. *)
PeerGone(l) == loop[l] = "full" /\ closed[creating[l]]

Next ==
  \/ \E l \in Listeners :
       \/ \E c \in Conns : AcceptNet(l, c) \/ Deliver(l, c)
       \/ LoopStep(l) \/ rejectFull(l) \/ TransportFails(l) \/ pongStops(l)
       \/ Accept(l) \/ AcceptStopped(l) \/ Close(l)
       \/ \E w \in Callers : CloserStep(l, w)
  \/ \E c \in Conns : ExitStep(c) \/ PeerStep(c) \/ TimerStep(c) \/ ConnCloses(c)

Spec == Init /\ [][Next]_vars

(* Goroutines that can run do, and timers fire.  A goroutine that reads    *)
(* from or writes to a peer makes progress for sure only once the          *)
(* transport of the connection is closed: its dispatch then ends, its      *)
(* flush returns, and a read fails once the batches that had arrived are   *)
(* used up.  So does the accept loop that rejects a player.  Nothing is    *)
(* assumed of peers and of the application.                                *)
Fairness ==
  /\ \A l \in Listeners :
       /\ WF_vars(LoopStep(l)) /\ WF_vars(pongStops(l)) /\ WF_vars(AcceptStopped(l))
       /\ WF_vars(PeerGone(l) /\ rejectFull(l))
       /\ \A w \in Callers : WF_vars(CloserStep(l, w))
       /\ \A c \in Conns : WF_vars(Deliver(l, c))
  /\ \A c \in Conns :
       /\ WF_vars(DeliverStopped(c) \/ deleteConn(c)) /\ SF_vars(ReadFails(c))
       /\ WF_vars(TimerStep(c))
       /\ WF_vars(closed[c] /\ (DispatchDone(c) \/ DispatchFails(c) \/ CloseAndRemove(c)))

FairSpec == Spec /\ Fairness
------------------------------------------------------------------------------
(* Properties. *)

(* Every variable keeps its type. *)
TypeOK ==
  /\ playerCount \in Nat
  /\ stop \in [Listeners -> {"no", "signalled", "done"}]
  /\ transport \in [Listeners -> BOOLEAN]
  /\ loop \in [Listeners -> {"accept", "load", "swap", "full", "register", "done"}]
  /\ current \in [Listeners -> Nat]
  /\ creating \in [Listeners -> Conns \cup {NoConn}]
  /\ connections \in [Listeners -> SUBSET Conns]
  /\ pong \in [Listeners -> BOOLEAN]
  /\ accepting \in [Listeners -> BOOLEAN]
  /\ closer \in [Listeners -> [Callers -> {"idle", "stop", "stopping", "join", "closing",
                                           "pong", "returned"}]]
  /\ snapshot \in [Listeners -> [Callers -> SUBSET Conns]]
  /\ owner \in [Conns -> Listeners \cup {NoListener}]
  /\ conn \in [Conns -> ConnPCs]
  /\ authenticated \in [Conns -> BOOLEAN]
  /\ loggedIn \in [Conns -> BOOLEAN]
  /\ closed \in [Conns -> BOOLEAN]
  /\ timer \in [Conns -> {"none", "armed", "expired", "done"}]

(* The counter the listeners of a group share is exactly the number of     *)
(* connections that hold a slot, and never exceeds MaximumPlayers, however *)
(* the accept loops and the connections' goroutines interleave.            *)
SlotsExact ==
  /\ playerCount = Cardinality(Holders)
  /\ MaximumPlayers > 0 => playerCount <= MaximumPlayers

(* When Close returns, to any caller, every goroutine the listener started *)
(* is gone: the accept loop, the pong goroutine and those of connections,  *)
(* none of which is left in the map or holds a slot of the group.          *)
CloseJoinsAll ==
  \A l \in Listeners, w \in Callers :
    closer[l][w] = "returned" =>
      /\ loop[l] = "done" /\ ~pong[l]
      /\ connections[l] = {}
      /\ \A c \in OwnedBy(l) : conn[c] \in {"rejected", "gone"}

(* connectionsWG.Add never runs concurrently with Wait, and the map that   *)
(* Close collected gains no connection: Close would miss it and wait for a *)
(* connection nobody closes.                                               *)
NothingJoinsAfterCollect ==
  \A l \in Listeners, w \in Callers :
    closer[l][w] \in {"closing", "pong", "returned"} =>
      /\ loop[l] = "done"
      /\ connections[l] \subseteq snapshot[l][w] \cup {c \in Conns : closed[c]}

(* A connection that does not authenticate gives its slot back once the    *)
(* login timeout, if there is one, expires, although its peer may neither send, read nor     *)
(* close.                                                                  *)
UnauthenticatedLeaves ==
  \A c \in Conns :
    (conn[c] \in Holding /\ ~authenticated[c] /\ owner[c] \in LoginTimeout)
      ~> (authenticated[c] \/ conn[c] = "gone")

(* Close returns although the peers of its connections neither read nor go *)
(* away: it closes their transports, so that goroutines blocked on them    *)
(* end.  What it cannot end, and waits for, is the rejection of a player:  *)
(* as long as that one peer neither reads nor goes away, the accept loop   *)
(* stays in its flush.                                                     *)
CloseReturns ==
  \A l \in Listeners :
    closer[l]["app"] = "stop" ~> (closer[l]["app"] = "returned" \/ [](loop[l] = "full"))

(* A listener whose net.Listener fails shuts down by itself: callers of    *)
(* Accept are released and its connections give their slots back, unless   *)
(* the accept loop never gets past the player it rejects.                  *)
FailedListenerShutsDown ==
  \A l \in Listeners :
    ~transport[l] ~> \/ ~accepting[l] /\ closer[l]["self"] = "returned"
                     \/ [](loop[l] = "full")

(* A connection whose transport is closed, by its peer, the application or *)
(* the listener, gives its slot back.  Only the send to Accept, which does *)
(* not watch the connection's context, can hold it up.                     *)
ClosedConnLeaves ==
  \A c \in Conns :
    (closed[c] /\ conn[c] \in Holding) ~> (conn[c] \notin Holding \/ conn[c] = "deliver")
==============================================================================
