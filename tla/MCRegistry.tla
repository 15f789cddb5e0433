----------------------------- MODULE MCRegistry -----------------------------
(* Two users, keys and signer counts and one xpub they may share.  Entities   *)
(* have a name and a city; a claim may leave the city out.                    *)
EXTENDS Registry, TLC

CONSTANTS name, city, acme, apex, oslo, u1, u2, k1, k2, r1, r2

Says(n, c) == [scalars |-> (name :> n) @@ (city :> c), administration |-> <<>>, management |-> <<>>]
Registered == {Says(acme, oslo), Says(apex, oslo)}
Asked == {Says(acme, Empty), Says(apex, oslo)}

Symmetry == Permutations({u1, u2}) \union Permutations({k1, k2}) \union Permutations({r1, r2})
=============================================================================
