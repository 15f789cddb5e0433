------------------------- MODULE MCSigHashPointer -------------------------
(* A main chain and a fork that leaves it early enough for a full window to *)
(* be reorganised at its oldest block.                                      *)
EXTENDS SigHashPointer, TLC

CONSTANTS main, fork

OneFork == {main, fork}
OneForkHeights == (main :> 0) @@ (fork :> 1)

ThreadSymmetry == Permutations(Threads)
=============================================================================
