------------------------------- MODULE MCLogin -------------------------------
(* Instances of LoginSequence for TLC. *)
EXTENDS LoginSequence, TLC

CONSTANTS p1, p2

Quiet == [disableEncryption |-> FALSE, corrupt |-> {}, rejects |-> {}, expires |-> {}, drops |-> {}]

(* A login that nothing befalls, encrypted or not, and one that anything   *)
(* may befall.                                                             *)
EverySetting ==
  {Quiet, [Quiet EXCEPT !.disableEncryption = TRUE],
   [Quiet EXCEPT !.corrupt = {p2}, !.rejects = {"protocol", "login"},
                 !.expires = {"dial", "start"}, !.drops = {"client", "server"}]}

(* The client's transport fails. *)
ClientDrops == {[Quiet EXCEPT !.drops = {"client"}]}
==============================================================================
