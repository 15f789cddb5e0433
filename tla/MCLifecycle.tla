---------------------------- MODULE MCLifecycle ----------------------------
(* Two requests, one contract with two formations, in one transaction or two. *)
EXTENDS Lifecycle, TLC

CONSTANTS c1, old, new, r1, r2

AllFormations == {old, new}
Owner == [f \in AllFormations |-> c1]
Stamp == (old :> 1) @@ (new :> 2)
AllTxs == {<<old>>, <<new, old>>}
=============================================================================
