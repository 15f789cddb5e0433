-------------------------- MODULE MCHeaderListener --------------------------
(* A main chain and a fork that leaves it. *)
EXTENDS HeaderListener, TLC

CONSTANTS main, fork

OneFork == {main, fork}
OneForkHeights == (main :> 0) @@ (fork :> 1)
=============================================================================
