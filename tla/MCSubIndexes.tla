------------------------------ MODULE MCSubIndexes ------------------------------
(* Instances of SubIndexes for TLC. *)
EXTENDS SubIndexes, TLC

AnyOrder == Permutations(Subs)
===============================================================================
