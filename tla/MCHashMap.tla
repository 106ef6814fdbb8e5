------------------------------ MODULE MCHashMap ------------------------------
(* Three keys: two collide at every capacity, the third collides with them at *)
(* capacity 3, and not at 7.                                                  *)
EXTENDS HashMap, TLC

CONSTANTS k1, k2, k3, v1, v2

MCKeys == {k1, k2, k3}
MCValues == {v1, v2}
MCHash == k1 :> 2 @@ k2 :> 2 @@ k3 :> 5

\* 1 and 4 can be allocated; the others are asked for and refused.
MCInitCaps == {1, 4} \cup 8 .. 200

Symmetry == Permutations(MCValues)
==============================================================================
