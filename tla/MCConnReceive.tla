---------------------------- MODULE MCConnReceive ----------------------------
(* Instances of ConnReceive for TLC. *)
EXTENDS ConnReceive

CONSTANTS r1, r2
==============================================================================
