----------------------------- MODULE ProxyProofs -----------------------------
(***************************************************************************)
(* A theorem about the proxy: what the player is told when the server ends *)
(* the connection, however the two relaying goroutines interleave.         *)
(***************************************************************************)
EXTENDS Proxy, SequenceTheorems, TLAPS

Messages == {"reason", "connection lost"}
Deferring == {"deferServer", "deferClient", "deferClose", "ended"}

(* The server's side was not closed by the proxy and is not lost. *)
ServerSpoke == server \in {"none", "open", "reason"}

(* As long as that is so, a goroutine runs its deferred calls only if the  *)
(* player's side has ended: what they write to it is not sent.             *)
DeferInv ==
  ServerSpoke /\ (up \in Deferring \/ down \in Deferring) => client # "open"

(* Before the server disconnects the proxy, nothing was said to the player *)
(* and nobody quotes a reason...                                           *)
BeforeInv ==
  /\ handler \in {"none", "dial"} => server = "none"
  /\ server = "none" => handler \notin {"spawn", "relay"} /\ up = "none" /\ down = "none"
  /\ server \in {"none", "open"} =>
       /\ buffered = <<>> /\ told = NoMessage /\ client # "closed"
       /\ up \notin {"quote", "quoteClose", "deferClient", "deferClose"}
       /\ down \notin {"quote", "quoteClose"}

(* ...and after it, whatever is said is the reason, and is said before the *)
(* player's side is closed.                                                *)
AfterInv ==
  server = "reason" =>
    /\ \A i \in DOMAIN buffered : buffered[i] = "reason"
    /\ told \in {NoMessage, "reason"}
    /\ client = "closed" => told = "reason"
    /\ (up = "quoteClose" \/ down = "quoteClose") /\ client = "open" => buffered # <<>>

ProxyInv ==
  /\ buffered \in Seq(Messages)
  /\ DeferInv /\ BeforeInv /\ AfterInv

(* What the player's screen shows is a message that was written. *)
LEMMA ShownReason ==
  ASSUME ProxyInv, server = "reason", buffered # <<>>
  PROVE  Shown = "reason"
<1>1. Head(buffered) = buffered[1] /\ 1 \in DOMAIN buffered
  BY DEF ProxyInv
<1> QED BY <1>1 DEF ProxyInv, AfterInv, Shown

(* The player of a proxy whose server disconnects it with a reason is      *)
(* never told that the connection was lost, and is told the reason if it   *)
(* is still there, whichever goroutine meets the error first.              *)
THEOREM PlayerToldWhy == ProxySpec => []ClientToldWhy
<1> USE DEF NoMessage
<1>1. ProxyInit => ProxyInv
  BY DEF ProxyInit, ProxyInv, DeferInv, BeforeInv, AfterInv, Deferring
<1>2. ProxyInv /\ [ProxyNext]_proxyVars => ProxyInv'
  <2> SUFFICES ASSUME ProxyInv, [ProxyNext]_proxyVars PROVE ProxyInv'
    OBVIOUS
  <2> USE DEF ProxyInv, DeferInv, BeforeInv, AfterInv, Deferring, ServerSpoke
  <2>1. CASE AcceptPlayer
    BY <2>1 DEF AcceptPlayer
  <2>2. CASE Wait
    BY <2>2 DEF Wait
  <2>3. CASE ClientEnds
    BY <2>3 DEF ClientEnds
  <2>4. CASE ServerEnds
    BY <2>4 DEF ServerEnds
  <2>5. CASE Dial
    BY <2>5 DEF Dial
  <2>6. CASE StartGame \/ DoSpawn
    BY <2>6 DEF StartGame, DoSpawn, Spawn
  <2>7. CASE UpRead
    BY <2>7 DEF UpRead
  <2>8. CASE UpWrite
    <3>1. up' \in {"read", "quote", "deferServer"} /\ (up' = "quote" => server = "reason")
          /\ (up' = "deferServer" => server \notin {"open", "reason"})
      BY <2>8 DEF UpWrite
    <3> QED BY <2>8, <3>1 DEF UpWrite
  <2>9. CASE DownRead
    <3>1. down' \in {"write", "quote", "deferClient"} /\ (down' = "quote" => server = "reason")
          /\ (down' = "deferClient" => server \notin {"open", "reason"})
      BY <2>9 DEF DownRead
    <3> QED BY <2>9, <3>1 DEF DownRead
  <2>10. CASE DownWrite
    BY <2>10 DEF DownWrite
  <2>11. CASE Tick
    BY <2>11, ShownReason DEF Tick
  <2>12. ASSUME NEW message \in Messages, WriteDisconnect(message)
        PROVE  /\ buffered' \in Seq(Messages)
               /\ client # "open" => buffered' = buffered
               /\ client = "open" => buffered' # <<>>
               /\ (\A i \in DOMAIN buffered : buffered[i] = "reason") /\ message = "reason"
                    => \A i \in DOMAIN buffered' : buffered'[i] = "reason"
    BY <2>12, AppendProperties DEF WriteDisconnect
  <2>13. CASE UpQuote
    <3>1. CASE up = "quote" /\ up' = "quoteClose" /\ WriteDisconnect("reason")
               /\ UNCHANGED <<client, told>>
      BY <2>12, <2>13, <3>1 DEF UpQuote, Messages
    <3>2. CASE up = "quoteClose" /\ up' = "deferServer" /\ CloseClient
      <4>1. server = "reason" /\ client = "open" => Shown = "reason"
        BY <3>2, ShownReason
      <4> QED BY <2>13, <3>2, <4>1 DEF UpQuote, CloseClient
    <3> QED BY <2>13, <3>1, <3>2 DEF UpQuote
  <2>14. CASE DownQuote
    <3>1. CASE down = "quote" /\ down' = "quoteClose" /\ WriteDisconnect("reason")
               /\ UNCHANGED <<client, told>>
      BY <2>12, <2>14, <3>1 DEF DownQuote, Messages
    <3>2. CASE down = "quoteClose" /\ down' = "deferClient" /\ CloseClient
      <4>1. server = "reason" /\ client = "open" => Shown = "reason"
        BY <3>2, ShownReason
      <4> QED BY <2>14, <3>2, <4>1 DEF DownQuote, CloseClient
    <3> QED BY <2>14, <3>1, <3>2 DEF DownQuote
  <2>15. CASE UpDefer
    <3>1. CASE up = "deferServer"
      BY <2>15, <3>1 DEF UpDefer, CloseServer
    <3>2. CASE up = "deferClient"
      BY <2>12, <2>15, <3>2 DEF UpDefer, Messages
    <3>3. CASE up = "deferClose"
      BY <2>15, <3>3 DEF UpDefer, CloseClient
    <3> QED BY <2>15, <3>1, <3>2, <3>3 DEF UpDefer
  <2>16. CASE DownDefer
    <3>1. CASE down = "deferClient"
      BY <2>12, <2>16, <3>1 DEF DownDefer, Messages
    <3>2. CASE down = "deferClose"
      BY <2>16, <3>2 DEF DownDefer, CloseClient
    <3>3. CASE down = "deferServer"
      BY <2>16, <3>3 DEF DownDefer, CloseServer
    <3> QED BY <2>16, <3>1, <3>2, <3>3 DEF DownDefer
  <2>17. CASE UNCHANGED proxyVars
    BY <2>17 DEF proxyVars
  <2> QED BY <2>1, <2>2, <2>3, <2>4, <2>5, <2>6, <2>7, <2>8, <2>9, <2>10,
          <2>11, <2>13, <2>14, <2>15, <2>16, <2>17
          DEF ProxyNext, Handle, Up, Down
<1>3. ProxyInv => ClientToldWhy
  BY DEF ProxyInv, AfterInv, ClientToldWhy
<1> QED BY <1>1, <1>2, <1>3, PTL DEF ProxySpec
==============================================================================
