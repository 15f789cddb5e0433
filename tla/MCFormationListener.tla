------------------------ MODULE MCFormationListener ------------------------
(* Two contracts.  One has three formations, two of them with the same       *)
(* timestamp, and a transaction may hold two formations, in either order.    *)
EXTENDS FormationListener, TLC

CONSTANTS c1, c2, old, new, twin, other

AllFormations == {old, new, twin, other}
Owner == (old :> c1) @@ (new :> c1) @@ (twin :> c1) @@ (other :> c2)
Stamp == (old :> 1) @@ (new :> 2) @@ (twin :> 2) @@ (other :> 1)
AllTxs == {<<old>>, <<new>>, <<twin, old>>, <<other>>}
=============================================================================
