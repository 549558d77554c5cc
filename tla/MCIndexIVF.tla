------------------------------ MODULE MCIndexIVF ------------------------------
(* Instances of IndexIVF for TLC. *)
EXTENDS IndexIVF

AllTypes == {"NoMap", "Array", "Hashtable"}
HashtableOnly == {"Hashtable"}

(* a source is the lists of another index: codes from 101, ids from 0 *)
At(k) == [id |-> k, code |-> 101 + k]
NoOther == {[l \in 0 .. (NList - 1) |-> <<>>]}
OneOther == {[l \in 0 .. (NList - 1) |-> IF l = 0 THEN <<>> ELSE <<At(0), At(1)>>]}
===============================================================================
