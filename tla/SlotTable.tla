------------------------------- MODULE SlotTable -------------------------------
(***************************************************************************)
(* The free-space table of an OnDiskInvertedLists: std::list<Slot> slots,  *)
(* as a sequence of [offset, capacity] records in bytes, and the           *)
(* operations that allocate_slot, free_slot and update_totsize make on it. *)
(* The code keeps the table sorted by offset and joins neighbours.         *)
(***************************************************************************)
EXTENDS Integers, Sequences, SequencesExt

VARIABLES slots, totsize   \* the table, and the size of the file in bytes

Slot(offset, capacity) == [offset |-> offset, capacity |-> capacity]

SlotEnd(s) == s.offset + s.capacity

(* Powers[k] is 2 to the k: what k doublings make of 1 *)
Powers[k \in Nat] == IF k = 0 THEN 1 ELSE 2 * Powers[k - 1]

(* the slots of table large enough for n bytes *)
Fitting(table, n) == {i \in DOMAIN table : table[i].capacity >= n}

(* Mutation of TakeFrom: the slot shrinks at its end, not at its beginning. *)
TakeFromKeepsOffset(table, i, n) ==
    IF table[i].capacity = n
    THEN RemoveAt(table, i)
    ELSE [table EXCEPT ![i] = Slot(@.offset, @.capacity - n)]

(* allocate_slot, once slot i was chosen: take from the beginning of it *)
TakeFrom(table, i, n) ==
    IF table[i].capacity = n
    THEN RemoveAt(table, i)
    ELSE [table EXCEPT ![i] = Slot(@.offset + n, @.capacity - n)]

(* allocate_slot: the file is doubled until there is room for n more bytes, *)
(* which takes no more than n doublings                                     *)
NewTotsize(size, n) ==
    LET first == IF size = 0 THEN 32 ELSE size * 2
        Enough(k) == first * Powers[k] - size >= n
    IN  first * Powers[CHOOSE k \in 0 .. n : Enough(k) /\ \A j \in 0 .. (k - 1) : ~Enough(j)]

(* update_totsize: the new bytes extend the last slot or make a new one *)
AddSpace(table, size, newSize) ==
    IF table # <<>> /\ SlotEnd(Last(table)) = size
    THEN [table EXCEPT ![Len(table)].capacity = @ + (newSize - size)]
    ELSE Append(table, Slot(size, newSize - size))

(* Mutation of FreeSlot: the freed bytes are never joined to the slot after *)
(* them.                                                                    *)
FreeSlotIgnoresNext(table, offset, capacity) ==
    LET prev == Cardinality({i \in DOMAIN table : table[i].offset <= offset})
        touchesPrev == prev > 0 /\ SlotEnd(table[prev]) = offset
    IN  CASE capacity = 0 -> table
          [] capacity > 0 /\ touchesPrev ->
                [table EXCEPT ![prev].capacity = @ + capacity]
          [] capacity > 0 /\ ~touchesPrev ->
                InsertAt(table, prev + 1, Slot(offset, capacity))

(* free_slot; prev is the number of slots that begin at offset or before *)
FreeSlot(table, offset, capacity) ==
    LET prev == Cardinality({i \in DOMAIN table : table[i].offset <= offset})
        next == prev + 1
        touchesPrev == prev > 0 /\ SlotEnd(table[prev]) = offset
        touchesNext == next <= Len(table)
                          /\ offset + capacity = table[next].offset
    IN  CASE capacity = 0 -> table
          [] capacity > 0 /\ touchesPrev /\ touchesNext ->
                RemoveAt([table EXCEPT ![prev].capacity =
                                           @ + capacity + table[next].capacity],
                         next)
          [] capacity > 0 /\ touchesPrev /\ ~touchesNext ->
                [table EXCEPT ![prev].capacity = @ + capacity]
          [] capacity > 0 /\ ~touchesPrev /\ touchesNext ->
                [table EXCEPT ![next] = Slot(offset, @.capacity + capacity)]
          [] capacity > 0 /\ ~touchesPrev /\ ~touchesNext ->
                InsertAt(table, next, Slot(offset, capacity))
================================================================================
