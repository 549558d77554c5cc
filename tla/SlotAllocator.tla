----------------------------- MODULE SlotAllocator -----------------------------
(***************************************************************************)
(* The table of free slots under a client that gives back exactly what it  *)
(* took, in any order.  (resize_locked is not such a client: it gives back *)
(* only the first capacity bytes of a region, so most branches of          *)
(* free_slot are never reached through it.)                                *)
(***************************************************************************)
EXTENDS SlotTable

CONSTANTS Requests,   \* bound: the sizes that are asked for, in bytes
          FileLimit   \* bound: size of the file

ASSUME RequestsAssumption == Requests \subseteq Nat \ {0}

VARIABLE used         \* the slots handed out and not given back

allocatorVars == <<slots, totsize, used>>

AllocatorInit ==
    /\ slots = <<>>
    /\ totsize = 0
    /\ used = {}

(* allocate_slot *)
Allocate(n) ==
    LET grows == Fitting(slots, n) = {}
        size == IF grows THEN NewTotsize(totsize, n) ELSE totsize
        table == IF grows THEN AddSpace(slots, totsize, size) ELSE slots
        i == Min(Fitting(table, n))
    IN  /\ size <= FileLimit
        /\ totsize' = size
        /\ slots' = TakeFrom(table, i, n)
        /\ used' = used \union {Slot(table[i].offset, n)}

Free(s) ==
    /\ slots' = FreeSlot(slots, s.offset, s.capacity)
    /\ used' = used \ {s}
    /\ UNCHANGED totsize

AllocatorNext ==
    \/ \E n \in Requests : Allocate(n)
    \/ \E s \in used : Free(s)

AllocatorSpec == AllocatorInit /\ [][AllocatorNext]_allocatorVars

-------------------------------------------------------------------------------
BytesOf(s) == s.offset .. (SlotEnd(s) - 1)

(* Every byte of the file is in exactly one slot, free or handed out.       *)
BytesPartitioned ==
    /\ \A r, s \in used : r # s => BytesOf(r) \cap BytesOf(s) = {}
    /\ \A i, j \in DOMAIN slots : i # j => BytesOf(slots[i]) \cap BytesOf(slots[j]) = {}
    /\ LET taken == UNION {BytesOf(s) : s \in used}
           free == UNION {BytesOf(slots[i]) : i \in DOMAIN slots}
       IN  taken \cap free = {} /\ taken \union free = 0 .. (totsize - 1)

(* However the regions come back, the table joins them: a free byte and the *)
(* free byte after it are in the same slot, so an empty file is one slot.   *)
FreeSpaceJoined ==
    /\ \A i, j \in DOMAIN slots : i < j => SlotEnd(slots[i]) < slots[j].offset
    /\ used = {} /\ totsize > 0 => slots = <<Slot(0, totsize)>>

(* Both: no byte is lost or handed out twice, and no hole stays split.      *)
FileAccountedFor == BytesPartitioned /\ FreeSpaceJoined
===============================================================================
