-------------------------------- MODULE MCHNSW --------------------------------
(* Instances of HNSW for TLC. *)
EXTENDS HNSW

TwoPairs == <<{0, 1}, {2, 3}>>
OneAndThree == <<{0}, {1, 2, 3}>>
TwoAndOne == [l \in Levels |-> IF l = 0 THEN 2 ELSE 1]
===============================================================================
