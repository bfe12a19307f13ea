----------------------- MODULE ListenerLifecycleProofs -----------------------
(***************************************************************************)
(* Theorems about the listeners of a group, for any number of listeners    *)
(* and connections and any MaximumPlayers.                                 *)
(***************************************************************************)
EXTENDS ListenerLifecycle, FiniteSetTheorems, TLAPS

(* The connection an accept loop is creating is its own, and is where the  *)
(* loop says it is.                                                        *)
LoopInv ==
  \A l \in Listeners :
    /\ loop[l] \in {"load", "swap", "full"} =>
         creating[l] \in Conns /\ owner[creating[l]] = l /\ conn[creating[l]] = "accepted"
    /\ loop[l] = "register" =>
         creating[l] \in Conns /\ owner[creating[l]] = l /\ conn[creating[l]] = "admitted"

(* The counter is exact, within the limit, and a loop about to swap loaded *)
(* a value below the limit.                                                *)
SlotInv ==
  /\ SlotsExact
  /\ \A l \in Listeners : loop[l] = "swap" /\ MaximumPlayers > 0 => current[l] < MaximumPlayers

(* A set of connections is finite, and so is any subset of it. *)
LEMMA HoldersFinite == IsFiniteSet(Holders) /\ Cardinality(Holders) \in Nat
  BY ListenerAssumption, FS_Subset, FS_CardinalityType DEF Holders

(* A step that moves no connection into or out of Holding keeps Holders. *)
LEMMA HoldersKept ==
  ASSUME \A c \in Conns : conn'[c] \in Holding <=> conn[c] \in Holding
  PROVE  Holders' = Holders
  BY DEF Holders

(* Taking a slot adds one to the number of holders. *)
LEMMA HoldersGain ==
  ASSUME NEW d \in Conns, conn[d] \notin Holding, conn'[d] \in Holding,
         \A c \in Conns \ {d} : conn'[c] = conn[c]
  PROVE  Cardinality(Holders') = Cardinality(Holders) + 1
<1>1. Holders' = Holders \cup {d} /\ d \notin Holders
  BY DEF Holders
<1> QED BY <1>1, HoldersFinite, FS_AddElement

(* Giving a slot back takes one from it. *)
LEMMA HoldersLose ==
  ASSUME NEW d \in Conns, conn[d] \in Holding, conn'[d] \notin Holding,
         \A c \in Conns \ {d} : conn'[c] = conn[c]
  PROVE  Cardinality(Holders') = Cardinality(Holders) - 1
<1>1. Holders' = Holders \ {d} /\ d \in Holders
  BY DEF Holders
<1> QED BY <1>1, HoldersFinite, FS_RemoveElement

------------------------------------------------------------------------------
Inv == TypeOK /\ LoopInv /\ SlotInv

LEMMA InitInv == Init => Inv
<1> SUFFICES ASSUME Init PROVE Inv
  OBVIOUS
<1>1. TypeOK
  BY DEF Init, TypeOK, ConnPCs
<1>2. LoopInv
  BY DEF Init, LoopInv
<1>3. Holders = {}
  BY DEF Init, Holders, Holding
<1>4. SlotInv
  BY <1>3, FS_EmptySet, ListenerAssumption DEF Init, SlotInv, SlotsExact
<1> QED BY <1>1, <1>2, <1>4 DEF Inv

(* A step of an accept loop keeps the invariant. *)
LEMMA LoopKeepsInv ==
  ASSUME Inv, NEW l \in Listeners,
         LoopStep(l) \/ rejectFull(l) \/ \E c \in Conns : AcceptNet(l, c)
  PROVE  Inv'
<1> USE DEF Inv
<1> DEFINE d == creating[l]
<1>1. ASSUME NEW c \in Conns, AcceptNet(l, c) PROVE Inv'
  <2>1. TypeOK'
    BY <1>1 DEF AcceptNet, Move, TypeOK, ConnPCs, groupVars, closeVars
  <2>2. LoopInv'
    BY <1>1 DEF AcceptNet, Move, TypeOK, LoopInv
  <2>3. Holders' = Holders
    BY <1>1, HoldersKept DEF AcceptNet, Move, TypeOK, Holding
  <2> QED BY <1>1, <2>1, <2>2, <2>3 DEF SlotInv, SlotsExact, AcceptNet, TypeOK, groupVars
<1>2. CASE addLoad(l)
  <2>1. TypeOK'
    BY <1>2 DEF addLoad, TypeOK, groupVars, closeVars, connVars
  <2>2. LoopInv'
    BY <1>2 DEF addLoad, TypeOK, LoopInv, connVars
  <2>3. Holders' = Holders
    BY <1>2, HoldersKept DEF addLoad, connVars
  <2> QED BY <1>2, <2>1, <2>2, <2>3, ListenerAssumption
          DEF SlotInv, SlotsExact, addLoad, TypeOK, groupVars
<1>3. CASE addSwap(l)
  <2>0. d \in Conns /\ conn[d] = "accepted" /\ owner[d] = l
    BY <1>3 DEF addSwap, LoopInv
  <2>1. TypeOK'
    BY <1>3, <2>0 DEF addSwap, TypeOK, closeVars, ConnPCs, Holding
  <2>2. LoopInv'
    BY <1>3, <2>0 DEF addSwap, TypeOK, LoopInv
  <2>3. Cardinality(Holders') = Cardinality(Holders) + 1
    BY <1>3, <2>0, HoldersGain DEF addSwap, TypeOK, Holding
  <2>4. playerCount' = Cardinality(Holders')
    BY <1>3, <2>3 DEF SlotInv, SlotsExact, addSwap
  <2>5. MaximumPlayers > 0 => playerCount' <= MaximumPlayers
    BY <1>3, ListenerAssumption DEF SlotInv, addSwap, TypeOK
  <2>6. \A m \in Listeners : loop'[m] = "swap" /\ MaximumPlayers > 0 => current'[m] < MaximumPlayers
    BY <1>3 DEF SlotInv, addSwap, TypeOK
  <2> QED BY <2>1, <2>2, <2>4, <2>5, <2>6 DEF SlotInv, SlotsExact
<1>4. CASE addRetry(l)
  <2>1. TypeOK' /\ LoopInv'
    BY <1>4 DEF addRetry, TypeOK, LoopInv, groupVars, closeVars, connVars
  <2>2. Holders' = Holders
    BY <1>4, HoldersKept DEF addRetry, connVars
  <2> QED BY <1>4, <2>1, <2>2 DEF SlotInv, SlotsExact, addRetry, TypeOK, groupVars
<1>5. CASE rejectFull(l)
  <2>0. d \in Conns /\ conn[d] = "accepted" /\ owner[d] = l
    BY <1>5 DEF rejectFull, LoopInv
  <2>1. TypeOK'
    BY <1>5, <2>0 DEF rejectFull, TypeOK, groupVars, closeVars, ConnPCs
  <2>2. LoopInv'
    BY <1>5, <2>0 DEF rejectFull, TypeOK, LoopInv
  <2>3. Holders' = Holders
    BY <1>5, <2>0, HoldersKept DEF rejectFull, TypeOK, Holding
  <2> QED BY <1>5, <2>1, <2>2, <2>3 DEF SlotInv, SlotsExact, rejectFull, TypeOK, groupVars
<1>6. CASE register(l)
  <2>0. d \in Conns /\ conn[d] = "admitted" /\ owner[d] = l
    BY <1>6 DEF register, LoopInv
  <2>1. TypeOK'
    BY <1>6, <2>0 DEF register, TypeOK, groupVars, closeVars, ConnPCs, Holding
  <2>2. LoopInv'
    BY <1>6, <2>0 DEF register, TypeOK, LoopInv
  <2>3. Holders' = Holders
    BY <1>6, <2>0, HoldersKept DEF register, TypeOK, Holding
  <2> QED BY <1>6, <2>1, <2>2, <2>3 DEF SlotInv, SlotsExact, register, TypeOK, groupVars
<1>7. CASE AcceptNetFails(l)
  <2>1. TypeOK' /\ LoopInv'
    BY <1>7 DEF AcceptNetFails, TypeOK, LoopInv, groupVars, connVars, Callers
  <2>2. Holders' = Holders
    BY <1>7, HoldersKept DEF AcceptNetFails, connVars
  <2> QED BY <1>7, <2>1, <2>2 DEF SlotInv, SlotsExact, AcceptNetFails, TypeOK, groupVars
<1> QED BY <1>1, <1>2, <1>3, <1>4, <1>5, <1>6, <1>7 DEF LoopStep

(* A step that neither runs an accept loop nor moves a connection between  *)
(* states of different meaning keeps the loops' and the slots' invariant.  *)
LEMMA QuietKeepsInv ==
  ASSUME Inv, TypeOK', UNCHANGED <<playerCount, loop, current, creating, owner>>,
         \A c \in Conns : conn'[c] = conn[c] \/ (conn[c] \in Holding \ {"admitted"} /\ conn'[c] \in Holding)
                          \/ (conn[c] = "delete" /\ conn'[c] = "gone")
  PROVE  Inv'
<1>1. Holders' = Holders
  BY HoldersKept DEF Holding
<1>2. LoopInv'
  BY DEF Inv, LoopInv, Holding
<1> QED BY <1>1, <1>2 DEF Inv, SlotInv, SlotsExact

(* A step of a connection's goroutine, or of somebody who closes it. *)
LEMMA ConnKeepsInv ==
  ASSUME Inv, NEW c \in Conns,
         ExitStep(c) \/ PeerStep(c) \/ TimerStep(c) \/ ConnCloses(c)
         \/ \E l \in Listeners : Deliver(l, c)
  PROVE  Inv'
<1> USE DEF Inv
<1>1. ASSUME CloseAndRemove(c) PROVE Inv'
  <2>1. Cardinality(Holders') = Cardinality(Holders) - 1
    BY <1>1, HoldersLose DEF CloseAndRemove, Move, TypeOK, Holding
  <2>2. Cardinality(Holders') \in Nat
    <3>1. Holders' \subseteq Conns
      BY DEF Holders
    <3> QED BY <3>1, ListenerAssumption, FS_Subset, FS_CardinalityType
  <2>3. playerCount' = Cardinality(Holders') /\ playerCount' \in Nat
    BY <1>1, <2>1, <2>2 DEF CloseAndRemove, SlotInv, SlotsExact
  <2>4. TypeOK'
    BY <1>1, <2>3 DEF CloseAndRemove, Move, TypeOK, otherVars, loopVars, closeVars, ConnPCs, Running
  <2>5. LoopInv'
    BY <1>1 DEF CloseAndRemove, Move, TypeOK, LoopInv, otherVars, loopVars
  <2>6. MaximumPlayers > 0 => playerCount' <= MaximumPlayers
    BY <1>1, ListenerAssumption DEF CloseAndRemove, SlotInv, SlotsExact, TypeOK
  <2> QED BY <1>1, <2>3, <2>4, <2>5, <2>6
          DEF SlotInv, SlotsExact, CloseAndRemove, otherVars, loopVars
<1>2. ASSUME ReadBatch(c) \/ LogIn(c) \/ DispatchDone(c) \/ DispatchFails(c) \/ ReadFails(c)
             \/ DeliverStopped(c)
      PROVE Inv'
  <2>1. TypeOK'
    BY <1>2 DEF ReadBatch, LogIn, DispatchDone, DispatchFails, ReadFails, DeliverStopped, Move,
                TypeOK, groupVars, otherVars, loopVars, closeVars, ConnPCs, Holding
  <2> QED BY <1>2, <2>1, QuietKeepsInv
          DEF ReadBatch, LogIn, DispatchDone, DispatchFails, ReadFails, DeliverStopped, Move,
              TypeOK, groupVars, otherVars, loopVars, Holding
<1>3. ASSUME deleteConn(c) PROVE Inv'
  <2>1. TypeOK'
    BY <1>3 DEF deleteConn, Move, TypeOK, groupVars, otherVars, loopVars, closeVars, ConnPCs
  <2> QED BY <1>3, <2>1, QuietKeepsInv DEF deleteConn, Move, TypeOK, groupVars, otherVars, loopVars
<1>4. ASSUME Authenticate(c) \/ TimerStep(c) \/ ConnCloses(c) PROVE Inv'
  <2>1. TypeOK'
    BY <1>4 DEF Authenticate, TimerStep, timerChecks, timerCloses, ConnCloses, TypeOK, groupVars,
                otherVars, loopVars, closeVars
  <2> QED BY <1>4, <2>1, QuietKeepsInv
          DEF Authenticate, TimerStep, timerChecks, timerCloses, ConnCloses, groupVars,
              otherVars, loopVars
<1>5. ASSUME NEW l \in Listeners, Deliver(l, c) PROVE Inv'
  <2>1. TypeOK'
    BY <1>5 DEF Deliver, Move, TypeOK, groupVars, closeVars, ConnPCs, Holding
  <2> QED BY <1>5, <2>1, QuietKeepsInv DEF Deliver, Move, TypeOK, groupVars, Holding
<1> QED BY <1>1, <1>2, <1>3, <1>4, <1>5 DEF ExitStep, PeerStep

(* A step of a caller of Close, of Accept, of the pong goroutine or of the *)
(* net.Listener.                                                           *)
LEMMA CloserKeepsInv ==
  ASSUME Inv, NEW l \in Listeners,
         \/ TransportFails(l) \/ pongStops(l) \/ Accept(l) \/ AcceptStopped(l) \/ Close(l)
         \/ \E w \in Callers : CloserStep(l, w)
  PROVE  Inv'
<1> USE DEF Inv
<1>1. ASSUME TransportFails(l) \/ pongStops(l) \/ Accept(l) \/ AcceptStopped(l) \/ Close(l)
      PROVE Inv'
  <2>1. TypeOK'
    <3>1. CASE TransportFails(l)
      BY <3>1 DEF TransportFails, TypeOK, groupVars, closeVars, connVars
    <3>2. CASE pongStops(l)
      BY <3>2 DEF pongStops, TypeOK, groupVars, closeVars, connVars
    <3>3. CASE Accept(l)
      BY <3>3 DEF Accept, TypeOK, groupVars, closeVars, connVars
    <3>4. CASE AcceptStopped(l)
      BY <3>4 DEF AcceptStopped, TypeOK, groupVars, closeVars, connVars
    <3>5. CASE Close(l)
      BY <3>5 DEF Close, TypeOK, groupVars, loopVars, connVars, Callers
    <3> QED BY <1>1, <3>1, <3>2, <3>3, <3>4, <3>5
  <2> QED BY <1>1, <2>1, QuietKeepsInv
          DEF TransportFails, pongStops, Accept, AcceptStopped, Close, groupVars, loopVars, connVars
<1>2. ASSUME NEW w \in Callers,
             stopSignal(l, w) \/ stopTransport(l, w) \/ stopWait(l, w) \/ collect(l, w)
             \/ joinReaders(l, w) \/ closeReturns(l, w)
      PROVE Inv'
  <2>1. TypeOK'
    <3>1. CASE stopSignal(l, w)
      BY <3>1 DEF stopSignal, TypeOK, groupVars, connVars
    <3>2. CASE stopTransport(l, w)
      BY <3>2 DEF stopTransport, TypeOK, groupVars, connVars
    <3>3. CASE stopWait(l, w)
      BY <3>3 DEF stopWait, TypeOK, groupVars, loopVars, connVars
    <3>4. CASE collect(l, w)
      BY <3>4 DEF collect, TypeOK, groupVars, loopVars, connVars
    <3>5. CASE joinReaders(l, w)
      BY <3>5 DEF joinReaders, TypeOK, groupVars, loopVars, connVars
    <3>6. CASE closeReturns(l, w)
      BY <3>6 DEF closeReturns, TypeOK, groupVars, loopVars, connVars
    <3> QED BY <1>2, <3>1, <3>2, <3>3, <3>4, <3>5, <3>6
  <2> QED BY <1>2, <2>1, QuietKeepsInv
          DEF stopSignal, stopTransport, stopWait, collect, joinReaders, closeReturns, groupVars,
              loopVars, connVars
<1>3. ASSUME NEW w \in Callers, NEW c \in Conns, closeTransport(l, w, c) PROVE Inv'
  <2>1. TypeOK'
    BY <1>3 DEF closeTransport, TypeOK, groupVars, loopVars
  <2> QED BY <1>3, <2>1, QuietKeepsInv DEF closeTransport, groupVars, loopVars
<1> QED BY <1>1, <1>2, <1>3 DEF CloserStep

LEMMA NextKeepsInv == Inv /\ [Next]_vars => Inv'
<1> SUFFICES ASSUME Inv, [Next]_vars PROVE Inv'
  OBVIOUS
<1>1. CASE UNCHANGED vars
  <2>1. TypeOK'
    BY <1>1 DEF Inv, vars, TypeOK, groupVars, loopVars, closeVars, connVars
  <2> QED BY <1>1, <2>1, QuietKeepsInv DEF vars, groupVars, loopVars, connVars
<1>2. CASE Next
  BY <1>2, LoopKeepsInv, ConnKeepsInv, CloserKeepsInv DEF Next
<1> QED BY <1>1, <1>2

(* Every variable of the listeners keeps its type; that the counter never  *)
(* becomes negative rests on its being exact.                              *)
THEOREM TypeCorrect == Spec => []TypeOK
<1>1. Inv => TypeOK
  BY DEF Inv
<1> QED BY <1>1, InitInv, NextKeepsInv, PTL DEF Spec

(* The shared counter is exactly the number of connections that hold a     *)
(* slot and never exceeds MaximumPlayers, for any number of listeners in   *)
(* the group (ListenerGroup.add and remove).                               *)
THEOREM SlotsCounted == Spec => []SlotsExact
<1>1. Inv => SlotsExact
  BY DEF Inv, SlotInv
<1> QED BY <1>1, InitInv, NextKeepsInv, PTL DEF Spec

------------------------------------------------------------------------------
(* What makes Close join everything. *)
Collected == {"closing", "pong", "returned"}

(* A connection that an accept loop has not finished with is the one that  *)
(* loop is creating.                                                       *)
CreatingInv ==
  \A c \in Conns :
    /\ owner[c] \in Listeners => conn[c] # "new"
    /\ conn[c] = "accepted" => /\ owner[c] \in Listeners /\ creating[owner[c]] = c
                               /\ loop[owner[c]] \in {"load", "swap", "full"}
    /\ conn[c] = "admitted" => /\ owner[c] \in Listeners /\ creating[owner[c]] = c
                               /\ loop[owner[c]] = "register"

(* The map holds exactly the connections whose goroutine runs. *)
MapInv == \A l \in Listeners : connections[l] = connectionsWG(l)

(* Close collected the connections after the accept loop ended; every      *)
(* connection still in the map is one it will close or that is closed; it  *)
(* passed the wait group when none was left.                               *)
CloseInv ==
  \A l \in Listeners, w \in Callers :
    /\ closer[l][w] \in Collected =>
         loop[l] = "done" /\ connections[l] \subseteq snapshot[l][w] \cup {c \in Conns : closed[c]}
    /\ closer[l][w] \in {"pong", "returned"} => connections[l] = {}
    /\ closer[l][w] = "returned" => ~pong[l]

JoinInv == CreatingInv /\ MapInv /\ CloseInv

(* Nothing that leaves the loops, the connections' places and the map as   *)
(* they are disturbs the first two parts.                                  *)
LEMMA QuietKeepsMap ==
  ASSUME CreatingInv, MapInv, UNCHANGED <<loop, creating, owner, connections>>,
         \A c \in Conns : conn'[c] = conn[c] \/ (conn[c] \in Running /\ conn'[c] \in Running)
  PROVE  CreatingInv' /\ MapInv'
<1>1. CreatingInv'
  BY DEF CreatingInv, Running
<1>2. \A l \in Listeners : connectionsWG(l)' = connectionsWG(l)
  BY DEF connectionsWG, OwnedBy
<1> QED BY <1>1, <1>2 DEF MapInv

(* Nor is the third part disturbed by what only closes connections. *)
LEMMA QuietKeepsClose ==
  ASSUME CloseInv, UNCHANGED <<loop, connections, closer, snapshot, pong>>,
         \A c \in Conns : closed[c] => closed'[c]
  PROVE  CloseInv'
  BY DEF CloseInv

(* Nor by a step of an accept loop, which nobody has joined yet. *)
LEMMA LoopKeepsClose ==
  ASSUME CloseInv, NEW l \in Listeners, loop[l] # "done",
         \A m \in Listeners \ {l} : loop'[m] = loop[m] /\ connections'[m] = connections[m],
         UNCHANGED <<closer, snapshot, pong>>,
         \A c \in Conns : closed[c] => closed'[c]
  PROVE  CloseInv'
<1>1. \A w \in Callers : closer[l][w] \notin Collected /\ closer[l][w] \notin {"pong", "returned"}
  BY DEF CloseInv, Collected
<1>2. ASSUME NEW m \in Listeners, NEW w \in Callers
      PROVE  /\ closer'[m][w] \in Collected =>
                  /\ loop'[m] = "done"
                  /\ connections'[m] \subseteq snapshot'[m][w] \cup {c \in Conns : closed'[c]}
             /\ closer'[m][w] \in {"pong", "returned"} => connections'[m] = {}
             /\ closer'[m][w] = "returned" => ~pong'[m]
  <2>1. CASE m = l
    BY <1>1, <2>1
  <2>2. CASE m # l
    BY <2>2 DEF CloseInv
  <2> QED BY <2>1, <2>2
<1> QED BY <1>2 DEF CloseInv

LEMMA LoopKeepsJoin ==
  ASSUME Inv, JoinInv, NEW l \in Listeners,
         LoopStep(l) \/ rejectFull(l) \/ \E c \in Conns : AcceptNet(l, c)
  PROVE  JoinInv'
<1> USE DEF Inv, JoinInv
<1> DEFINE d == creating[l]
<1>0. loop[l] # "done" => \A w \in Callers : closer[l][w] \notin Collected
  BY DEF CloseInv
<1>1. ASSUME NEW c \in Conns, AcceptNet(l, c) PROVE JoinInv'
  <2>1. CreatingInv'
    BY <1>1 DEF AcceptNet, Move, TypeOK, CreatingInv
  <2>2. \A m \in Listeners : connectionsWG(m)' = connectionsWG(m)
    BY <1>1 DEF AcceptNet, Move, TypeOK, connectionsWG, OwnedBy, Running
  <2>3. MapInv'
    BY <1>1, <2>2 DEF AcceptNet, MapInv
  <2>4. CloseInv'
    BY <1>1, LoopKeepsClose DEF AcceptNet, TypeOK, closeVars
  <2> QED BY <2>1, <2>3, <2>4
<1>2. ASSUME addLoad(l) \/ addRetry(l) PROVE JoinInv'
  <2>1. CreatingInv'
    <3>1. CASE addLoad(l)
      BY <3>1 DEF addLoad, TypeOK, CreatingInv, connVars
    <3>2. CASE addRetry(l)
      BY <3>2 DEF addRetry, TypeOK, CreatingInv, connVars
    <3> QED BY <1>2, <3>1, <3>2
  <2>2. MapInv'
    BY <1>2 DEF addLoad, addRetry, MapInv, connectionsWG, OwnedBy, connVars
  <2>3. CloseInv'
    BY <1>2, LoopKeepsClose DEF addLoad, addRetry, TypeOK, closeVars, connVars
  <2> QED BY <2>1, <2>2, <2>3
<1>3. ASSUME addSwap(l) \/ rejectFull(l) PROVE JoinInv'
  <2>0. d \in Conns /\ conn[d] = "accepted" /\ owner[d] = l
    BY <1>3 DEF addSwap, rejectFull, LoopInv
  <2>1. CreatingInv'
    <3>1. CASE addSwap(l)
      BY <3>1, <2>0 DEF addSwap, TypeOK, CreatingInv
    <3>2. CASE rejectFull(l)
      BY <3>2, <2>0 DEF rejectFull, TypeOK, CreatingInv
    <3> QED BY <1>3, <3>1, <3>2
  <2>2. \A m \in Listeners : connectionsWG(m)' = connectionsWG(m)
    BY <1>3, <2>0 DEF addSwap, rejectFull, TypeOK, connectionsWG, OwnedBy, Running
  <2>3. MapInv'
    BY <1>3, <2>2 DEF addSwap, rejectFull, MapInv
  <2>4. CloseInv'
    BY <1>3, <2>0, LoopKeepsClose DEF addSwap, rejectFull, TypeOK, closeVars
  <2> QED BY <2>1, <2>3, <2>4
<1>4. ASSUME register(l) PROVE JoinInv'
  <2>0. d \in Conns /\ conn[d] = "admitted" /\ owner[d] = l
    BY <1>4 DEF register, LoopInv
  <2>1. CreatingInv'
    BY <1>4, <2>0 DEF register, TypeOK, CreatingInv
  <2>2. /\ connectionsWG(l)' = connectionsWG(l) \cup {d}
        /\ \A m \in Listeners \ {l} : connectionsWG(m)' = connectionsWG(m)
    BY <1>4, <2>0 DEF register, TypeOK, connectionsWG, OwnedBy, Running
  <2>3. MapInv'
    BY <1>4, <2>2 DEF register, MapInv, TypeOK
  <2>4. CloseInv'
    BY <1>4, LoopKeepsClose DEF register, TypeOK, closeVars
  <2> QED BY <2>1, <2>3, <2>4
<1>5. ASSUME AcceptNetFails(l) PROVE JoinInv'
  <2>1. CreatingInv'
    BY <1>5 DEF AcceptNetFails, TypeOK, CreatingInv, connVars
  <2>2. MapInv'
    BY <1>5 DEF AcceptNetFails, MapInv, connectionsWG, OwnedBy, connVars
  <2>3. CloseInv'
    BY <1>5, <1>0 DEF AcceptNetFails, CloseInv, TypeOK, connVars, Collected
  <2> QED BY <2>1, <2>2, <2>3
<1> QED BY <1>1, <1>2, <1>3, <1>4, <1>5 DEF LoopStep

LEMMA ConnKeepsJoin ==
  ASSUME Inv, JoinInv, NEW c \in Conns,
         ExitStep(c) \/ PeerStep(c) \/ TimerStep(c) \/ ConnCloses(c)
         \/ \E l \in Listeners : Deliver(l, c)
  PROVE  JoinInv'
<1> USE DEF Inv, JoinInv
<1>1. ASSUME \/ ReadBatch(c) \/ LogIn(c) \/ DispatchDone(c) \/ DispatchFails(c) \/ ReadFails(c)
             \/ DeliverStopped(c) \/ CloseAndRemove(c)
      PROVE JoinInv'
  <2>1. /\ UNCHANGED <<otherVars, connections, owner>>
        /\ closed' = closed \/ closed' = [closed EXCEPT ![c] = TRUE]
        /\ \E to \in Running : conn[c] \in Running /\ conn' = [conn EXCEPT ![c] = to]
    BY <1>1
    DEF ReadBatch, LogIn, DispatchDone, DispatchFails, ReadFails, DeliverStopped, CloseAndRemove,
        Move, Running
  <2>2. /\ UNCHANGED <<loop, creating, owner, connections, pong>>
        /\ UNCHANGED <<closer, snapshot>>
    BY <2>1 DEF otherVars, loopVars, closeVars
  <2>3. \A b \in Conns : conn'[b] = conn[b] \/ (conn[b] \in Running /\ conn'[b] \in Running)
    BY <2>1 DEF TypeOK
  <2>4. \A b \in Conns : closed[b] => closed'[b]
    BY <2>1 DEF TypeOK
  <2>5. CreatingInv' /\ MapInv'
    BY <2>2, <2>3, QuietKeepsMap
  <2>6. CloseInv'
    BY <2>2, <2>4, QuietKeepsClose
  <2> QED BY <2>5, <2>6
<1>2. ASSUME deleteConn(c) PROVE JoinInv'
  <2>1. CreatingInv'
    BY <1>2 DEF deleteConn, Move, TypeOK, CreatingInv, otherVars, loopVars
  <2>2. \A l \in Listeners : connectionsWG(l)' = connectionsWG(l) \ {c}
    BY <1>2 DEF deleteConn, Move, TypeOK, connectionsWG, OwnedBy, Running
  <2>3. MapInv'
    BY <1>2, <2>2 DEF deleteConn, MapInv
  <2>4. CloseInv'
    BY <1>2 DEF deleteConn, CloseInv, otherVars, loopVars, closeVars
  <2> QED BY <2>1, <2>3, <2>4
<1>3. ASSUME Authenticate(c) \/ TimerStep(c) \/ ConnCloses(c) PROVE JoinInv'
  <2>1. /\ UNCHANGED <<otherVars, connections, owner, conn>>
        /\ closed' = closed \/ closed' = [closed EXCEPT ![c] = TRUE]
    BY <1>3 DEF Authenticate, TimerStep, timerChecks, timerCloses, ConnCloses
  <2>2. /\ UNCHANGED <<loop, creating, owner, connections, pong, conn>>
        /\ UNCHANGED <<closer, snapshot>>
    BY <2>1 DEF otherVars, loopVars, closeVars
  <2>3. \A b \in Conns : closed[b] => closed'[b]
    BY <2>1 DEF TypeOK
  <2>4. CreatingInv' /\ MapInv'
    BY <2>2, QuietKeepsMap
  <2>5. CloseInv'
    BY <2>2, <2>3, QuietKeepsClose
  <2> QED BY <2>4, <2>5
<1>4. ASSUME NEW l \in Listeners, Deliver(l, c) PROVE JoinInv'
  <2>1. CreatingInv' /\ MapInv'
    BY <1>4, QuietKeepsMap DEF Deliver, Move, TypeOK, Running
  <2>2. CloseInv'
    BY <1>4, QuietKeepsClose DEF Deliver, closeVars
  <2> QED BY <2>1, <2>2
<1> QED BY <1>1, <1>2, <1>3, <1>4 DEF ExitStep, PeerStep

LEMMA CloserKeepsJoin ==
  ASSUME Inv, JoinInv, NEW l \in Listeners,
         \/ TransportFails(l) \/ pongStops(l) \/ Accept(l) \/ AcceptStopped(l) \/ Close(l)
         \/ \E w \in Callers : CloserStep(l, w)
  PROVE  JoinInv'
<1> USE DEF Inv, JoinInv
<1>1. ASSUME TransportFails(l) \/ Accept(l) \/ AcceptStopped(l) PROVE JoinInv'
  BY <1>1, QuietKeepsMap, QuietKeepsClose
  DEF TransportFails, Accept, AcceptStopped, closeVars, connVars
<1>2. ASSUME pongStops(l) PROVE JoinInv'
  <2>1. CreatingInv' /\ MapInv'
    BY <1>2, QuietKeepsMap DEF pongStops, connVars
  <2>2. CloseInv'
    BY <1>2 DEF pongStops, CloseInv, TypeOK, closeVars, connVars
  <2> QED BY <2>1, <2>2
<1>3. ASSUME Close(l) PROVE JoinInv'
  <2>1. CreatingInv' /\ MapInv'
    BY <1>3, QuietKeepsMap DEF Close, loopVars, connVars
  <2>2. CloseInv'
    BY <1>3 DEF Close, CloseInv, TypeOK, loopVars, connVars, Collected, Callers
  <2> QED BY <2>1, <2>2
<1>4. ASSUME NEW w \in Callers, stopSignal(l, w) \/ stopTransport(l, w) \/ stopWait(l, w)
      PROVE JoinInv'
  <2>1. CreatingInv' /\ MapInv'
    BY <1>4, QuietKeepsMap DEF stopSignal, stopTransport, stopWait, loopVars, connVars
  <2>2. CloseInv'
    <3>1. /\ \A m \in Listeners, v \in Callers :
                closer'[m][v] = closer[m][v] \/ closer'[m][v] \in {"stopping", "join"}
          /\ UNCHANGED <<loop, connections, snapshot, pong, closed>>
      <4>1. CASE stopSignal(l, w) BY <4>1 DEF stopSignal, TypeOK, connVars
      <4>2. CASE stopTransport(l, w) BY <4>2 DEF stopTransport, TypeOK, connVars
      <4>3. CASE stopWait(l, w) BY <4>3 DEF stopWait, TypeOK, loopVars, connVars
      <4> QED BY <1>4, <4>1, <4>2, <4>3
    <3> QED BY <3>1 DEF CloseInv, Collected
  <2> QED BY <2>1, <2>2
<1>5. ASSUME NEW w \in Callers, collect(l, w) PROVE JoinInv'
  <2>1. CreatingInv' /\ MapInv'
    BY <1>5, QuietKeepsMap DEF collect, loopVars, connVars
  <2>2. CloseInv'
    BY <1>5 DEF collect, CloseInv, TypeOK, loopVars, connVars, Collected
  <2> QED BY <2>1, <2>2
<1>6. ASSUME NEW w \in Callers, NEW c \in Conns, closeTransport(l, w, c) PROVE JoinInv'
  <2>1. CreatingInv' /\ MapInv'
    BY <1>6, QuietKeepsMap DEF closeTransport, loopVars
  <2>2. CloseInv'
    BY <1>6 DEF closeTransport, CloseInv, TypeOK, loopVars, Collected
  <2> QED BY <2>1, <2>2
<1>7. ASSUME NEW w \in Callers, joinReaders(l, w) PROVE JoinInv'
  <2>1. CreatingInv' /\ MapInv'
    BY <1>7, QuietKeepsMap DEF joinReaders, loopVars, connVars
  <2>2. connections[l] = {}
    BY <1>7 DEF joinReaders, MapInv
  <2>3. CloseInv'
    BY <1>7, <2>2 DEF joinReaders, CloseInv, TypeOK, loopVars, connVars, Collected
  <2> QED BY <2>1, <2>3
<1>8. ASSUME NEW w \in Callers, closeReturns(l, w) PROVE JoinInv'
  <2>1. CreatingInv' /\ MapInv'
    BY <1>8, QuietKeepsMap DEF closeReturns, loopVars, connVars
  <2>2. CloseInv'
    BY <1>8 DEF closeReturns, CloseInv, TypeOK, loopVars, connVars, Collected
  <2> QED BY <2>1, <2>2
<1> QED BY <1>1, <1>2, <1>3, <1>4, <1>5, <1>6, <1>7, <1>8 DEF CloserStep

(* When Close returns to any of its callers the listener has no goroutine  *)
(* left, no registered connection and no slot, for any number of           *)
(* listeners, connections and concurrent calls (Listener.Close).           *)
THEOREM CloseJoins == Spec => [](CloseJoinsAll /\ NothingJoinsAfterCollect)
<1>1. Init => JoinInv
  <2> SUFFICES ASSUME Init PROVE JoinInv
    OBVIOUS
  <2>1. CreatingInv
    BY ListenerAssumption DEF Init, CreatingInv
  <2>2. MapInv
    BY DEF Init, MapInv, connectionsWG, OwnedBy, Running
  <2>3. CloseInv
    BY DEF Init, CloseInv, Collected
  <2> QED BY <2>1, <2>2, <2>3 DEF JoinInv
<1>2. Inv /\ JoinInv /\ [Next]_vars => JoinInv'
  <2> SUFFICES ASSUME Inv, JoinInv, [Next]_vars PROVE JoinInv'
    OBVIOUS
  <2>1. CASE Next
    BY <2>1, LoopKeepsJoin, ConnKeepsJoin, CloserKeepsJoin DEF Next
  <2>2. CASE UNCHANGED vars
    BY <2>2, QuietKeepsMap, QuietKeepsClose
    DEF JoinInv, vars, loopVars, closeVars, connVars
  <2> QED BY <2>1, <2>2
<1>3. Inv /\ JoinInv => CloseJoinsAll /\ NothingJoinsAfterCollect
  <2> SUFFICES ASSUME Inv, JoinInv PROVE CloseJoinsAll /\ NothingJoinsAfterCollect
    OBVIOUS
  <2>1. NothingJoinsAfterCollect
    BY DEF JoinInv, CloseInv, NothingJoinsAfterCollect, Collected
  <2>2. ASSUME NEW l \in Listeners, NEW w \in Callers, closer[l][w] = "returned",
               NEW c \in OwnedBy(l)
        PROVE  conn[c] \in {"rejected", "gone"}
    <3>1. loop[l] = "done" /\ connectionsWG(l) = {}
      BY <2>2 DEF JoinInv, CloseInv, MapInv, Collected
    <3>2. c \in Conns /\ owner[c] = l /\ conn[c] \in ConnPCs
      BY <2>2 DEF OwnedBy, Inv, TypeOK
    <3>3. conn[c] \notin {"new", "accepted", "admitted"}
      BY <3>1, <3>2 DEF JoinInv, CreatingInv
    <3>4. conn[c] \notin Running
      BY <2>2, <3>1, <3>2 DEF connectionsWG
    <3> QED BY <3>2, <3>3, <3>4 DEF ConnPCs, Running, Holding
  <2>3. CloseJoinsAll
    BY <2>2 DEF CloseJoinsAll, JoinInv, CloseInv, Collected
  <2> QED BY <2>1, <2>3
<1> QED BY <1>1, <1>2, <1>3, InitInv, NextKeepsInv, PTL DEF Spec
==============================================================================
