-------------------------- MODULE OnDiskInvertedLists --------------------------
(***************************************************************************)
(* The storage of an OnDiskInvertedLists: the list descriptors, the table  *)
(* of free slots and the mapped file.  LockLevels shows that the threads   *)
(* that run these operations never touch the same list, and that one at a  *)
(* time edits the table or remaps, so an operation is one step here.       *)
(*                                                                         *)
(* The file is a set of stored values, each with the byte it starts at;    *)
(* writing some bytes destroys every value it overlaps.  List l has its    *)
(* codes at offset and its ids at offset + CodeSize * capacity.            *)
(***************************************************************************)
EXTENDS SlotTable

CONSTANTS
    NList,          \* number of lists
    CodeSize,       \* bytes of a code
    IdBytes,        \* sizeof(idx_t)
    MaxBytes,       \* bound: size of the file
    MaxAdded,       \* bound: entries written
    MaxSize,        \* bound: entries of a list
    MaxChunk,       \* bound: entries written by a call
    NewSizes,       \* bound: sizes a list is resized to
    Ops,            \* the operations a run exercises
    InPlaceShrink,  \* may resize shrink a list within its old slot?
    GrowAfterMerge, \* may lists be resized after merge_from_multiple?
    Sources         \* what merge_from_multiple may be given

ASSUME SizesAssumption == CodeSize \in Nat \ {0} /\ IdBytes \in Nat \ {0}
ASSUME BoundsAssumption ==
    /\ NList \in Nat /\ MaxBytes \in Nat /\ MaxAdded \in Nat
    /\ MaxSize \in Nat /\ MaxChunk \in Nat
    /\ NewSizes \subseteq Nat
(* merge_from_multiple is given inverted lists of one shape *)
ASSUME SourcesAssumption == \A s \in Sources :
    /\ Len(s.ils) \in Nat \ {0} /\ DOMAIN s.ils = 1 .. Len(s.ils)
    /\ \A i \in DOMAIN s.ils :
          /\ DOMAIN s.ils[i] = DOMAIN s.ils[1]
          /\ \A l \in DOMAIN s.ils[i] : Len(s.ils[i][l]) \in Nat

VARIABLES lists, mem, nadded,
          merged,   \* was the file filled by merge_from_multiple?
          saved,    \* what the IO hook wrote of this index, if anything
          kept,     \* what lists held when saved, for those not changed since
          nopened   \* times the saved index was opened

vars == <<lists, slots, totsize, mem, nadded, merged, saved, kept, nopened>>

INVALID_OFFSET == -1
EntryBytes == IdBytes + CodeSize
NotSaved == [lists |-> <<>>]
NoSpace == [size |-> 0, capacity |-> 0, offset |-> INVALID_OFFSET]
ListNos == DOMAIN lists

Init ==
    /\ lists = [l \in 0 .. (NList - 1) |-> NoSpace]
    /\ slots = <<>>
    /\ totsize = 0
    /\ mem = {}
    /\ nadded = 0
    /\ merged = FALSE
    /\ saved = NotSaved
    /\ kept = <<>>
    /\ nopened = 0

-------------------------------------------------------------------------------
(* The mapped file. *)

Bytes(kind) == IF kind = "id" THEN IdBytes ELSE CodeSize
Value(kind, at, v) == [kind |-> kind, at |-> at, v |-> v]

Overlap(a, lenA, b, lenB) == a < b + lenB /\ b < a + lenA

(* what is left of m when the bytes from at on are written *)
Outside(m, at, len) == {e \in m : ~Overlap(e.at, Bytes(e.kind), at, len)}

(* memcpy of the values vs to at *)
WriteRun(m, kind, at, vs) ==
    Outside(m, at, Len(vs) * Bytes(kind))
        \union {Value(kind, at + (i - 1) * Bytes(kind), vs[i]) : i \in DOMAIN vs}

(* memcpy of n values from src to dst; NeverCopiesOntoItself says that the *)
(* two ranges do not overlap, where memcpy would be undefined              *)
CopyRun(m, kind, src, dst, n) ==
    LET len == n * Bytes(kind)
    IN  Outside(m, dst, len) \union
            {[e EXCEPT !.at = @ - src + dst] :
                e \in {x \in m : x.kind = kind /\ x.at \in src .. (src + len - 1)}}

get_codes(d) == d.offset
get_ids(d) == d.offset + CodeSize * d.capacity

-------------------------------------------------------------------------------
(* The operations, as functions of the storage st. *)

Storage == [lists |-> lists, slots |-> slots, totsize |-> totsize, mem |-> mem]

(* Mutation of RoundedCapacity: the power of two below n. *)
RoundedDown(n) ==
    Powers[CHOOSE k \in 0 .. n : Powers[k] <= n /\ n < 2 * Powers[k]]

(* resize_locked: 1 is doubled until it holds n entries *)
RoundedCapacity(n) ==
    Powers[CHOOSE k \in 0 .. n : Powers[k] >= n /\ \A j \in 0 .. (k - 1) : Powers[j] < n]

(* allocate_slot: first fit; a larger file when nothing fits *)
allocate_slot(st, n) ==
    LET grown ==
            IF Fitting(st.slots, n) # {} THEN st
            ELSE LET new == NewTotsize(st.totsize, n)
                 IN  [st EXCEPT !.slots = AddSpace(@, st.totsize, new),
                                !.totsize = new]
        i == Min(Fitting(grown.slots, n))
    IN  [offset |-> grown.slots[i].offset,
         st |-> [grown EXCEPT !.slots = TakeFrom(@, i, n)]]

(* Mutation of Freed: the region is given back in bytes, all of it. *)
FreedInBytes(st, l) ==
    [st EXCEPT !.slots = FreeSlot(@, st.lists[l].offset,
                                  st.lists[l].capacity * EntryBytes)]

(* resize_locked gives free_slot the capacity of the list, in entries *)
Freed(st, l) ==
    [st EXCEPT !.slots = FreeSlot(@, st.lists[l].offset, st.lists[l].capacity)]

(* Mutation of MoveList: the ids of the list stay behind. *)
MoveCodesOnly(st, l, new) ==
    LET old == st.lists[l]
        n == Min({new.size, old.size})
        codes == CopyRun(st.mem, "code", get_codes(old), get_codes(new), n)
    IN  [st EXCEPT !.lists[l] = new,
                   !.mem = IF old.offset # new.offset /\ n > 0 THEN codes ELSE @]

(* the end of resize_locked: nothing is copied when the offset is the same *)
MoveList(st, l, new) ==
    LET old == st.lists[l]
        n == Min({new.size, old.size})
        codes == CopyRun(st.mem, "code", get_codes(old), get_codes(new), n)
        both == CopyRun(codes, "id", get_ids(old), get_ids(new), n)
    IN  [st EXCEPT !.lists[l] = new,
                   !.mem = IF old.offset # new.offset /\ n > 0 THEN both ELSE @]

FitsSlot(st, l, n) ==
    n <= st.lists[l].capacity /\ n > st.lists[l].capacity \div 2

resize_locked(st, l, n) ==
    LET c == RoundedCapacity(n)
        a == allocate_slot(Freed(st, l), c * EntryBytes)
    IN  CASE FitsSlot(st, l, n) -> [st EXCEPT !.lists[l].size = n]
          [] ~FitsSlot(st, l, n) /\ n = 0 -> MoveList(Freed(st, l), l, NoSpace)
          [] ~FitsSlot(st, l, n) /\ n > 0 ->
                MoveList(a.st, l, [size |-> n, capacity |-> c, offset |-> a.offset])

(* update_entries: ids first, then codes *)
update_entries(st, l, first, entries) ==
    LET d == st.lists[l]
        ids == WriteRun(st.mem, "id", get_ids(d) + first * IdBytes,
                        [i \in DOMAIN entries |-> entries[i].id])
        codes == WriteRun(ids, "code", get_codes(d) + first * CodeSize,
                          [i \in DOMAIN entries |-> entries[i].code])
    IN  [st EXCEPT !.mem = IF entries = <<>> THEN @ ELSE codes]

Fresh(n) == [i \in 1 .. n |-> [code |-> nadded + i, id |-> nadded + i]]

-------------------------------------------------------------------------------
(* merge_from_multiple: ils is a sequence of sources, each a function from  *)
(* list numbers to sequences of entries.                                    *)

Ntotal(il) == SumFunction([l \in DOMAIN il |-> Len(il[l])])

(* the shift of source i adds up the totals of sources 2 .. i *)
ShiftOf(ils, i, shift) ==
    IF shift THEN SumFunctionOnSet([k \in DOMAIN ils |-> Ntotal(ils[k])], 2 .. i)
    ELSE 0

Shifted(entries, s) == [k \in DOMAIN entries |-> [entries[k] EXCEPT !.id = @ + s]]

MergedList(ils, l, shift) ==
    FlattenSeq([i \in DOMAIN ils |-> Shifted(ils[i][l], ShiftOf(ils, i, shift))])

(* Mutation of PackedLists: the offsets leave no room for the ids. *)
PackedCodes(ils) ==
    LET size == [l \in ListNos |-> SumFunction([i \in DOMAIN ils |-> Len(ils[i][l])])]
    IN  [l \in ListNos |->
            [size |-> size[l], capacity |-> size[l],
             offset |-> CodeSize * SumFunctionOnSet(size, {m \in ListNos : m < l})]]

(* the descriptors: packed in the order of the lists *)
PackedLists(ils) ==
    LET size == [l \in ListNos |-> SumFunction([i \in DOMAIN ils |-> Len(ils[i][l])])]
        offset == [l \in ListNos |->
                       EntryBytes * SumFunctionOnSet(size, {m \in ListNos : m < l})]
    IN  [l \in ListNos |-> [size |-> size[l], capacity |-> size[l],
                            offset |-> offset[l]]]

(* update_totsize on the empty file, then update_entries list by list *)
Merged(ils, shift) ==
    LET packed == PackedLists(ils)
        bytes == EntryBytes * SumFunction([l \in ListNos |-> packed[l].size])
        empty == [lists |-> packed, slots |-> AddSpace(slots, 0, bytes),
                  totsize |-> bytes, mem |-> {}]
        Fill(m, l) ==
            update_entries([empty EXCEPT !.mem = m], l, 0, MergedList(ils, l, shift)).mem
    IN  [empty EXCEPT !.mem = FoldLeft(Fill, {}, SetToSeq(ListNos))]

-------------------------------------------------------------------------------
(* Values that no list reads are forgotten, neither a list of the index nor *)
(* one of the saved index: only a resize that makes a list longer could show *)
(* them again, and what that shows is unspecified.                           *)
ReadBy(descriptors) ==
    UNION {[kind : {"code"}, at : get_codes(d) .. (get_codes(d) + d.size * CodeSize - 1)]
             \union
           [kind : {"id"}, at : get_ids(d) .. (get_ids(d) + d.size * IdBytes - 1)] :
              d \in Range(descriptors)}

Live(st) ==
    LET used == ReadBy(st.lists) \union ReadBy(saved.lists)
    IN  {e \in st.mem : [kind |-> e.kind, at |-> e.at] \in used}

Become(st) ==
    /\ st.totsize <= MaxBytes
    /\ lists' = st.lists
    /\ slots' = st.slots
    /\ totsize' = st.totsize
    /\ mem' = Live(st)

(* bound: one save, opened once, and after the save lists are only added to *)
(* or emptied, which is what takes and gives back most space                *)
Unsaved == saved = NotSaved /\ nopened = 0

(* list l is about to change: the saved index is out of date for it *)
Touch(l) ==
    /\ kept' = Restrict(kept, DOMAIN kept \ {l})
    /\ UNCHANGED <<saved, nopened>>

(* After a merge the table of free slots holds the whole file, which the    *)
(* lists own (update_totsize enters it and nothing takes it out again), so  *)
(* a list that is given a new slot overwrites others.  Runs that go on      *)
(* after a merge keep to calls that ask for no slot.                        *)
MayResize == GrowAfterMerge \/ ~merged

add_entries(l, n) ==
    /\ "add" \in Ops
    /\ MayResize
    /\ nadded + n <= MaxAdded
    /\ lists[l].size + n <= MaxSize
    /\ Become(update_entries(resize_locked(Storage, l, lists[l].size + n), l,
                             lists[l].size, Fresh(n)))
    /\ nadded' = nadded + n
    /\ Touch(l)
    /\ UNCHANGED merged

(* the new slot is the old one, at another capacity *)
ShrinksInPlace(l, n) ==
    LET new == resize_locked(Storage, l, n).lists[l]
    IN  new.offset = lists[l].offset /\ new.capacity < lists[l].capacity

resize(l, n) ==
    /\ "resize" \in Ops \/ ("shrink" \in Ops /\ n <= lists[l].size)
    /\ MayResize
    /\ InPlaceShrink \/ ~ShrinksInPlace(l, n)
    /\ Unsaved \/ n = 0
    /\ Become(resize_locked(Storage, l, n))
    /\ Touch(l)
    /\ UNCHANGED <<nadded, merged>>

update(l, first, n) ==
    /\ "update" \in Ops
    /\ Unsaved
    /\ nadded + n <= MaxAdded
    /\ first + n <= lists[l].size
    /\ Become(update_entries(Storage, l, first, Fresh(n)))
    /\ nadded' = nadded + n
    /\ Touch(l)
    /\ UNCHANGED merged

(* throws unless the file is empty; with nothing to store, mmap of an empty *)
(* file fails after the descriptors were set                                *)
merge_from_multiple(ils, shift) ==
    /\ "merge" \in Ops
    /\ totsize = 0
    /\ DOMAIN ils[1] = ListNos
    /\ IF \A i \in DOMAIN ils : Ntotal(ils[i]) = 0
       THEN Become([Storage EXCEPT !.lists = PackedLists(ils)])
       ELSE Become(Merged(ils, shift))
    /\ merged' = TRUE
    /\ kept' = <<>>
    /\ UNCHANGED <<nadded, saved, nopened>>

crop_invlists(l0, l1) ==
    /\ "crop" \in Ops
    /\ Unsaved
    /\ l0 <= l1 /\ l1 <= Cardinality(ListNos)
    /\ lists' = [l \in 0 .. (l1 - l0 - 1) |-> lists[l0 + l]]
    /\ kept' = <<>>    \* lists have other numbers now
    /\ UNCHANGED <<slots, totsize, mem, nadded, merged, saved, nopened>>

-------------------------------------------------------------------------------
(* What a reader of the lists gets: get_codes and get_ids. *)

Garbage == -1

ReadAt(kind, at) ==
    LET here == {e \in mem : e.kind = kind /\ e.at = at}
    IN  IF here = {} THEN Garbage ELSE (CHOOSE e \in here : TRUE).v

Content ==
    [l \in ListNos |->
        [i \in 1 .. lists[l].size |->
            [code |-> ReadAt("code", get_codes(lists[l]) + (i - 1) * CodeSize),
             id |-> ReadAt("id", get_ids(lists[l]) + (i - 1) * IdBytes)]]]

(* OnDiskInvertedListsIOHook::write: descriptors, free slots and size go    *)
(* into the file of the index, the entries stay in the mapped file          *)
write ==
    /\ "save" \in Ops
    /\ totsize > 0          \* an empty file cannot be mapped again
    /\ Unsaved
    /\ nadded < MaxAdded    \* bound: a save that entries can be added after
    /\ saved' = [lists |-> lists, slots |-> slots, totsize |-> totsize,
                 merged |-> merged]
    /\ kept' = Content
    /\ UNCHANGED <<lists, slots, totsize, mem, nadded, merged, nopened>>

(* Mutation of Reopened: the table of free slots is not read back. *)
ReopenedWithoutSlots ==
    [lists |-> saved.lists, slots |-> slots, totsize |-> saved.totsize, mem |-> mem]

Reopened ==
    [lists |-> saved.lists, slots |-> saved.slots, totsize |-> saved.totsize,
     mem |-> mem]

(* OnDiskInvertedListsIOHook::read in a process started later: the mapped   *)
(* file is as the last process left it, which may have gone on after write. *)
read ==
    /\ saved # NotSaved
    /\ Become(Reopened)
    /\ merged' = saved.merged
    /\ saved' = NotSaved   \* opened once, see Unsaved
    /\ kept' = <<>>
    /\ nopened' = nopened + 1
    /\ UNCHANGED nadded

Next ==
    \/ \E l \in ListNos :
          \/ \E n \in 0 .. MaxChunk : add_entries(l, n)
          \/ \E n \in NewSizes : resize(l, n)
          \/ \E n \in 1 .. MaxChunk, first \in 0 .. MaxSize : update(l, first, n)
    \/ \E s \in Sources : merge_from_multiple(s.ils, s.shift)
    \/ \E l0, l1 \in 0 .. NList : crop_invlists(l0, l1)
    \/ write
    \/ read

Spec == Init /\ [][Next]_vars

RegionBytes(l) == lists[l].capacity * EntryBytes

-------------------------------------------------------------------------------
(* Properties. *)

TypeOK ==
    /\ \A l \in ListNos :
          /\ lists[l] \in [size : Nat, capacity : Nat, offset : Nat \union {INVALID_OFFSET}]
          /\ lists[l].size <= lists[l].capacity
    /\ slots \in Seq([offset : Nat, capacity : Nat \ {0}])
    /\ totsize \in 0 .. MaxBytes
    /\ nadded \in 0 .. MaxAdded
    /\ merged \in BOOLEAN
    /\ DOMAIN kept \subseteq DOMAIN saved.lists
    /\ nopened \in 0 .. 1

(* allocate_slot hands out space nobody uses: the regions of the lists and  *)
(* the free slots are disjoint and lie inside the file (but for the table   *)
(* that merge_from_multiple leaves, see MayResize).                         *)
SpaceDisjoint == ~merged =>
    LET regions == {<<l, lists[l].offset, RegionBytes(l)>> :
                       l \in {m \in ListNos : lists[m].capacity > 0}}
                   \union {<<-i, slots[i].offset, slots[i].capacity>> : i \in DOMAIN slots}
    IN  /\ \A r, q \in regions : r[1] # q[1] => ~Overlap(r[2], r[3], q[2], q[3])
        /\ \A r \in regions : r[2] >= 0 /\ r[2] + r[3] <= totsize

(* resize_locked never copies a list onto a range it overlaps, where memcpy *)
(* would be undefined, although the old region is given back before the new *)
(* one is chosen.                                                           *)
CopiesApart ==
    \A l \in ListNos \cap DOMAIN lists' :
        LET n == Min({lists[l].size, lists'[l].size})
        IN  n > 0 /\ lists'[l].offset # lists[l].offset /\ nopened' = nopened =>
              /\ ~Overlap(get_codes(lists[l]), n * CodeSize,
                          get_codes(lists'[l]), n * CodeSize)
              /\ ~Overlap(get_ids(lists[l]), n * IdBytes,
                          get_ids(lists'[l]), n * IdBytes)

NeverCopiesOntoItself == [][CopiesApart]_lists

(* Each code is followed, capacity codes later, by its own id.              *)
IdsFollowCodes ==
    \A l \in ListNos : \A i \in DOMAIN Content[l] :
        Content[l][i].id = Content[l][i].code

-------------------------------------------------------------------------------
(* What merging should mean: each source is shifted by the number of        *)
(* entries in the sources before it.                                        *)
Concatenation(s) ==
    [l \in DOMAIN s.ils[1] |->
        FlattenSeq([i \in DOMAIN s.ils |->
            Shifted(s.ils[i][l],
                    IF s.shift
                    THEN SumFunctionOnSet([k \in DOMAIN s.ils |-> Ntotal(s.ils[k])],
                                          1 .. (i - 1))
                    ELSE 0)])]

Store == INSTANCE ListStore WITH
    content <- Content,
    Loads <- {Concatenation(s) : s \in Sources}

(* The file, read through the descriptors, behaves as sequences of entries. *)
ImplementsListStore == Store!SSpec

-------------------------------------------------------------------------------
(* What the documentation says and the code does not keep; README, section 4. *)

(* "maintaining a list of empty slots": two lists never share a byte of the *)
(* file.  SpaceDisjoint says so until a merge, and it fails after one.      *)
ListsKeepApart ==
    \A l, m \in {k \in ListNos : lists[k].capacity > 0} :
        l # m => ~Overlap(lists[l].offset, RegionBytes(l), lists[m].offset, RegionBytes(m))

(* "whatever space remains": no byte of the file is lost, regions and free  *)
(* slots add up to its size.  Fails when a list outgrows its slot.          *)
NoSpaceLost ==
    SumFunction([l \in ListNos |-> RegionBytes(l)])
        + SumFunction([i \in DOMAIN slots |-> slots[i].capacity]) = totsize

(* Where all calls are merges, the lists hold the entries of all sources    *)
(* with the ids they would have in one index filled source after source.    *)
(* Fails for shifted sources of different sizes.                            *)
MergeContinuesIds == merged => Content \in {Concatenation(s) : s \in Sources}
================================================================================
