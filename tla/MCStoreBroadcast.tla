-------------------------- MODULE MCStoreBroadcast --------------------------
(* StoreBroadcast on a ring of four ranks, where opposite ranks are two hops *)
(* apart and every table chose one of the two ways.                          *)
EXTENDS StoreBroadcast

CONSTANTS CastA, CastB     \* bound: broadcasts of rank 0 and of rank 1

Ring == [r \in 0..3 |-> {(r + 1) % 4, (r + 3) % 4}]

RingDistance == [r \in 0..3 |-> [s \in 0..3 |->
  CASE r = s -> 0 [] s \in Ring[r] -> 1 [] OTHER -> 2]]

RingFirsthop == [r \in 0..3 |-> [s \in 0..3 |->
  CASE r = s -> r [] s \in Ring[r] -> s
    [] OTHER -> IF r < 2 THEN (r + 1) % 4 ELSE (r + 3) % 4]]

RingCast == [r \in 0..3 |-> CASE r = 0 -> CastA [] r = 1 -> CastB [] OTHER -> 0]
=============================================================================
