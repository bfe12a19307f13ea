------------------------------ MODULE MCListener ------------------------------
(* Instances of ListenerLifecycle for TLC. *)
EXTENDS ListenerLifecycle, TLC

CONSTANTS l1, l2, c1, c2

ConnSymmetry == Permutations(Conns)

(* States in which the listeners of L were closed, and the connections of  *)
(* C left, before any other connection arrived.                            *)
EarlierClosed(L, C) ==
  /\ playerCount = 0
  /\ stop = [l \in Listeners |-> IF l \in L THEN "done" ELSE "no"]
  /\ transport = [l \in Listeners |-> l \notin L]
  /\ loop = [l \in Listeners |-> IF l \in L THEN "done" ELSE "accept"]
  /\ current = [l \in Listeners |-> 0]
  /\ creating = [l \in Listeners |-> NoConn]
  /\ connections = [l \in Listeners |-> {}]
  /\ pong = [l \in Listeners |-> l \notin L]
  /\ accepting = [l \in Listeners |-> FALSE]
  /\ closer = [l \in Listeners |-> [w \in Callers |-> IF l \in L THEN "returned" ELSE "idle"]]
  /\ snapshot = [l \in Listeners |-> [w \in Callers |-> {}]]
  /\ owner = [c \in Conns |-> IF c \in C THEN CHOOSE l \in L : TRUE ELSE NoListener]
  /\ conn = [c \in Conns |-> IF c \in C THEN "gone" ELSE "new"]
  /\ authenticated = [c \in Conns |-> FALSE]
  /\ loggedIn = [c \in Conns |-> FALSE]
  /\ closed = [c \in Conns |-> c \in C]
  /\ timer = [c \in Conns |-> "none"]

(* The listener with a login timeout and one connection, or the one        *)
(* without and both.                                                       *)
OneListener ==
  /\ EarlierClosed({l2}, {c2}) \/ EarlierClosed({l1}, {})
  /\ [][Next]_vars
  /\ Fairness
==============================================================================
