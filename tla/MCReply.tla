------------------------------ MODULE MCReply ------------------------------
(* Two requests, each of any kind, again and again. *)
EXTENDS Reply

CONSTANTS r1, r2
=============================================================================
