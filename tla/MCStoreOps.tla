---------------------------- MODULE MCStoreOps ----------------------------
(* Two ranks that own a key each and have a client each.                   *)
EXTENDS StoreOps, TLC
CONSTANTS r1, r2, c1, c2, k1, k2
Home == (c1 :> r1) @@ (c2 :> r2)
Keeper == (k1 :> r1) @@ (k2 :> r2)
BothKeys == {<<k1, k2>>}
Bound == (c1 :> 2) @@ (c2 :> 1)
=============================================================================
