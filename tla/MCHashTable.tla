----------------------------- MODULE MCHashTable -----------------------------
(* Bounds for HashTable: the keys are interchangeable, so the hashes of    *)
(* key 1, 2, ... may be taken in increasing order; 3 and 7 collide in four *)
(* slots and not in eight, and both wrap around.                           *)
EXTENDS HashTable

MCKeys == 1 .. 4
MCHashes ==
  {h \in [MCKeys -> {0, 3, 7}] :
     h[1] = 0 /\ h[4] = 7 /\ \A k \in 1 .. 3 : h[k] <= h[k + 1]}
===============================================================================
