-------------------------------- MODULE IdStore --------------------------------
(***************************************************************************)
(* What an IndexIVF promises about the vectors it holds, with no list, no  *)
(* offset and no map in sight: a dictionary from ids to codes.  A call     *)
(* that removes names the ids first and takes away exactly those; a merge  *)
(* takes over the vectors of another index, all at once, with their ids    *)
(* shifted.                                                                *)
(***************************************************************************)
EXTENDS Integers

CONSTANT Shifts     \* the add_ids of a merge

VARIABLES store,    \* code of each id that is held
          doomed,   \* ids that the call in progress has still to remove
          pool      \* entries [id, code] of the index that is to be merged

svars == <<store, doomed, pool>>

SInit == store = <<>> /\ doomed = {} /\ pool \in SUBSET [id : Nat, code : Nat]

With(k, v) == [i \in DOMAIN store \union {k} |-> IF i = k THEN v ELSE store[i]]
Without(S) == [i \in DOMAIN store \ S |-> store[i]]

Insert(k, v) ==
    /\ k \notin DOMAIN store
    /\ store' = With(k, v)
    /\ UNCHANGED <<doomed, pool>>

Replace(k, v) ==
    /\ k \in DOMAIN store
    /\ store' = With(k, v)
    /\ UNCHANGED <<doomed, pool>>

Select(S) ==
    /\ doomed = {}
    /\ doomed' = S
    /\ UNCHANGED <<store, pool>>

(* some of the ids that are to go, and nothing else, go *)
Erase(S) ==
    /\ S # {} /\ S \subseteq doomed
    /\ store' = Without(S)
    /\ doomed' = doomed \ S
    /\ UNCHANGED pool

Clear == store' = <<>> /\ UNCHANGED <<doomed, pool>>

Absorb(shift) ==
    LET ids == {e.id + shift : e \in pool}
    IN  /\ ids \cap DOMAIN store = {}
        /\ store' = [i \in DOMAIN store \union ids |->
                        IF i \in ids THEN (CHOOSE e \in pool : e.id + shift = i).code
                                     ELSE store[i]]
        /\ pool' = {}
        /\ UNCHANGED doomed

SNext ==
    \/ \E k \in DOMAIN store' : Insert(k, store'[k]) \/ Replace(k, store'[k])
    \/ \E S \in {doomed'} : Select(S)
    \/ \E S \in {doomed \ doomed'} : Erase(S)
    \/ Clear
    \/ \E shift \in Shifts : Absorb(shift)

SSpec == SInit /\ [][SNext]_svars
================================================================================
