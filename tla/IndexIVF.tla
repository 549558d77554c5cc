-------------------------------- MODULE IndexIVF --------------------------------
(***************************************************************************)
(* An IndexIVF: inverted lists of (id, code) entries, a count ntotal, and  *)
(* the DirectMap that finds the entry of an id again, as an array for the  *)
(* ids 0, 1, 2, ... or as a hash table for any ids.                        *)
(*                                                                         *)
(* add_core runs on several threads: thread r takes the vectors whose list *)
(* is r modulo the number of threads.  Calls that change an index do not   *)
(* overlap each other, so there is one call in progress; its steps are the *)
(* turns of the loops in the code, because some of them throw half way.    *)
(***************************************************************************)
EXTENDS Integers, Sequences, FiniteSets

CONSTANTS
    NList,      \* number of lists
    Ranks,      \* the threads of a parallel region
    Ids,        \* bound: ids that callers use
    MaxAdded,   \* bound: vectors added, updates included
    MaxBatch,   \* bound: vectors of a call
    Types,      \* the types of direct map a run tries
    Sources,    \* bound: the lists of the index that may be merged
    Shifts,     \* bound: add_id of a merge
    Careful     \* do callers leave unassigned vectors alone?

ASSUME RanksAssumption ==
    IsFiniteSet(Ranks) /\ Ranks = 0 .. (Cardinality(Ranks) - 1) /\ Ranks # {}
ASSUME NListAssumption == NList \in Nat \ {0}
ASSUME BoundsAssumption == MaxAdded \in Nat /\ MaxBatch \in Nat
ASSUME IdsAssumption == Ids \subseteq Nat /\ Shifts \subseteq Nat
ASSUME TypesAssumption == Types \subseteq {"NoMap", "Array", "Hashtable"}

VARIABLES
    lists,      \* the inverted lists
    ntotal,
    type,       \* of the direct map
    array,      \* its array: array[id + 1]
    hashtable,  \* its hash table: hashtable[id]
    call,       \* the call in progress
    other,      \* the index that may be merged into this one
    nadded,     \* vectors added so far; the code of a vector is its number
    nlost,      \* vectors without a list that ntotal counts
    partial     \* did set_type throw and leave a map that is half filled?

vars == <<lists, ntotal, type, array, hashtable, call, other, nadded, nlost, partial>>

Idle == [op |-> "none"]

(* list * 2^32 + offset; the list is -1 for a vector that has none *)
lo_build(l, ofs) == [list |-> l, ofs |-> ofs]
Unassigned == lo_build(-1, 0)
NoEntry == lo_build(-1, -1)

Places(ls) == UNION {{l} \X DOMAIN ls[l] : l \in DOMAIN ls}
Entries(ls) == {ls[x[1]][x[2]] : x \in Places(ls)}
StoredIds == {e.id : e \in Entries(lists)}
IdAt(x) == lists[x[1]][x[2]].id

SizeOf(ls) == Cardinality(Places(ls))

(* another index is an index: lists numbered from 0, an id in one place; its *)
(* vectors are not numbered among those added to this one                    *)
ASSUME SourcesAssumption ==
    \A s \in Sources :
        /\ IsFiniteSet(DOMAIN s)
        /\ DOMAIN s = 0 .. (Cardinality(DOMAIN s) - 1)
        /\ s \in [DOMAIN s -> Seq([id : Nat, code : Nat])]
        /\ \A x, y \in Places(s) : s[x[1]][x[2]].id = s[y[1]][y[2]].id => x = y
        /\ \A e \in Entries(s) : e.code > MaxAdded

Init ==
    /\ lists = [l \in 0 .. (NList - 1) |-> <<>>]
    /\ ntotal = 0
    /\ type = "NoMap"
    /\ array = <<>>
    /\ hashtable = <<>>
    /\ call = Idle
    /\ other \in {[lists |-> s, ntotal |-> SizeOf(s)] : s \in Sources}
    /\ nadded = 0
    /\ nlost = 0
    /\ partial = FALSE

-------------------------------------------------------------------------------
(* Adding a batch of vectors. *)

Batch(ids, ls) == [i \in DOMAIN ids |-> [id |-> ids[i], list |-> ls[i], code |-> nadded + i]]
Entry(v) == [id |-> v.id, code |-> v.code]

(* Mutation of Owner: the threads share out the vectors, not the lists. *)
OwnerByVector(i, l) == i % Cardinality(Ranks)

(* the thread that enters vector i, whose list is l *)
Owner(i, l) == IF l = -1 THEN 0 ELSE l % Cardinality(Ranks)

(* add_core up to the parallel region, with DirectMapAdd::DirectMapAdd *)
AddCall(vecs) ==
    [op |-> "add", vecs |-> vecs, base |-> Len(array),
     todo |-> [r \in Ranks |-> {i \in DOMAIN vecs : Owner(i, vecs[i].list) = r}],
     all_ofs |-> [i \in DOMAIN vecs |-> NoEntry]]

BeginAdd(vecs) ==
    /\ call' = AddCall(vecs)
    /\ array' = IF type = "Array" THEN array \o [i \in DOMAIN vecs |-> NoEntry] ELSE array

Fresh(ids) ==
    \A i, j \in DOMAIN ids : ids[i] \notin StoredIds /\ (ids[i] = ids[j] => i = j)

Implicit(ids) == \A i \in DOMAIN ids : ids[i] = ntotal + i - 1

(* A caller gives an id to one vector at a time: its own or, calling add,   *)
(* the next ones from ntotal on.  check_can_add wants the latter with an    *)
(* array.  With a hash table only ids of the caller are modelled.           *)
add_with_ids(ids, ls) ==
    /\ call = Idle
    /\ nadded + Len(ids) <= MaxAdded
    /\ Fresh(ids)
    /\ type = "Array" => Implicit(ids)
    /\ BeginAdd(Batch(ids, ls))
    /\ nadded' = nadded + Len(ids)
    /\ UNCHANGED <<lists, ntotal, type, hashtable, other, nlost, partial>>

(* thread r enters its next vector: add_entry and DirectMapAdd::add *)
add_one(r) ==
    /\ call.op = "add"
    /\ \E i \in call.todo[r] :
          LET v == call.vecs[i]
              lo == IF v.list = -1 THEN Unassigned ELSE lo_build(v.list, Len(lists[v.list]))
          IN  /\ \A j \in call.todo[r] : i <= j
              /\ lists' = IF v.list = -1 THEN lists
                          ELSE [lists EXCEPT ![v.list] = Append(@, Entry(v))]
              /\ array' = IF type = "Array" THEN [array EXCEPT ![call.base + i] = lo]
                                            ELSE array
              /\ call' = [call EXCEPT !.todo[r] = @ \ {i},
                                      !.all_ofs[i] = IF type = "Hashtable" THEN lo ELSE @]
    /\ UNCHANGED <<ntotal, type, hashtable, other, nadded, nlost, partial>>

(* DirectMapAdd::~DirectMapAdd; the ids of a batch are distinct *)
Entered(vecs, all_ofs) ==
    [id \in DOMAIN hashtable \union {vecs[i].id : i \in DOMAIN vecs} |->
        IF \E i \in DOMAIN vecs : vecs[i].id = id
        THEN all_ofs[CHOOSE i \in DOMAIN vecs : vecs[i].id = id]
        ELSE hashtable[id]]

(* the threads have joined *)
add_end ==
    /\ call.op = "add"
    /\ \A r \in Ranks : call.todo[r] = {}
    /\ hashtable' = IF type = "Hashtable" THEN Entered(call.vecs, call.all_ofs) ELSE hashtable
    /\ ntotal' = ntotal + Len(call.vecs)
    /\ nlost' = nlost + Cardinality({i \in DOMAIN call.vecs : call.vecs[i].list = -1})
    /\ call' = Idle
    /\ UNCHANGED <<lists, type, array, other, nadded, partial>>

-------------------------------------------------------------------------------
(* The direct map. *)

(* Mutation of EntryFor: the offset is taken after the entry is passed. *)
EntryForPassed(id, places) ==
    LET here == {x \in places : IdAt(x) = id}
    IN  IF here = {} THEN NoEntry
        ELSE LET x == CHOOSE y \in here : TRUE IN lo_build(x[1], x[2])

(* Mutation of EntryFor: the array begins with zeros, not with -1. *)
EntryForZero(id, places) ==
    LET here == {x \in places : IdAt(x) = id}
    IN  IF here = {} THEN lo_build(0, 0)
        ELSE LET x == CHOOSE y \in here : TRUE IN lo_build(x[1], x[2] - 1)

EntryFor(id, places) ==
    LET here == {x \in places : IdAt(x) = id}
    IN  IF here = {} THEN NoEntry
        ELSE LET x == CHOOSE y \in here : TRUE IN lo_build(x[1], x[2] - 1)

Before(x, y) == x[1] < y[1] \/ (x[1] = y[1] /\ x[2] < y[2])

(* the entries that the loop of set_type meets before an id that is out of *)
(* range makes it throw                                                    *)
Scanned ==
    {x \in Places(lists) :
        \A y \in Places(lists) : IdAt(y) >= ntotal => Before(x, y)}

set_type(new) ==
    /\ call = Idle
    /\ new # type
    /\ type' = new
    /\ array' = IF new = "Array" THEN [k \in 1 .. ntotal |-> EntryFor(k - 1, Scanned)]
                                 ELSE <<>>
    /\ hashtable' = IF new = "Hashtable"
                    THEN [id \in StoredIds |-> EntryFor(id, Places(lists))]
                    ELSE <<>>
    /\ partial' = (new = "Array" /\ Scanned # Places(lists))
    /\ UNCHANGED <<lists, ntotal, call, other, nadded, nlost>>

reset ==
    /\ call = Idle
    /\ array' = <<>>
    /\ hashtable' = <<>>
    /\ lists' = [l \in DOMAIN lists |-> <<>>]
    /\ ntotal' = 0
    /\ nlost' = 0
    /\ partial' = FALSE
    /\ UNCHANGED <<type, call, other, nadded>>

-------------------------------------------------------------------------------
(* Removing and updating vectors. *)

(* update_entry of the last entry at ofs, then resize *)
TakenOut(es, ofs) ==
    [p \in 1 .. (Len(es) - 1) |-> IF p = ofs + 1 THEN es[Len(es)] ELSE es[p]]

(* Mutation of Compacted: an entry that is moved is not tested itself. *)
CompactedUntested(es, sel) ==
    LET k == Cardinality({p \in DOMAIN es : es[p].id \notin sel})
    IN  [p \in 1 .. k |-> IF es[p].id \in sel THEN es[Len(es)] ELSE es[p]]

(* the scan of one list: holes are filled from the end of the list, with    *)
(* entries that stay, so the first hole gets the last of these              *)
Compacted(es, sel) ==
    LET kept == {p \in DOMAIN es : es[p].id \notin sel}
        k == Cardinality(kept)
        holes == (1 .. k) \ kept
        Filler(h) == CHOOSE f \in kept :
                        Cardinality({g \in kept : g > f}) = Cardinality({i \in holes : i < h})
    IN  [p \in 1 .. k |-> IF p \in kept THEN es[p] ELSE es[Filler(p)]]

(* callers know which of their vectors were given no list *)
Assigned(id) ==
    CASE type = "Array" -> id < Len(array) => array[id + 1].list # -1
      [] type = "Hashtable" -> id \in DOMAIN hashtable => hashtable[id].list # -1
      [] OTHER -> TRUE

(* the call throws at once with an array *)
remove_ids(ids) ==
    /\ call = Idle
    /\ type # "Array"
    /\ Careful => \A i \in DOMAIN ids : Assigned(ids[i])
    /\ call' = IF type = "NoMap"
               THEN [op |-> "scan", sel |-> {ids[i] : i \in DOMAIN ids}]
               ELSE [op |-> "remove", rest |-> ids, nremove |-> 0, then |-> <<>>]
    /\ UNCHANGED <<lists, ntotal, type, array, hashtable, other, nadded, nlost, partial>>

(* without a map all lists are scanned, each by one thread; the result is   *)
(* the same in every order                                                  *)
scan ==
    /\ call.op = "scan"
    /\ lists' = [l \in DOMAIN lists |-> Compacted(lists[l], call.sel)]
    /\ ntotal' = ntotal - (SizeOf(lists) - SizeOf(lists'))
    /\ call' = Idle
    /\ UNCHANGED <<type, array, hashtable, other, nadded, nlost, partial>>

(* Mutation of TableWithout: the entry that was moved keeps its old offset. *)
TableForgetsMoved(id) == [i \in DOMAIN hashtable \ {id} |-> hashtable[i]]

(* the hash table once id is gone and the last entry of its list moved *)
TableWithout(id) ==
    LET lo == hashtable[id]
        last == Len(lists[lo.list]) - 1
        last_id == lists[lo.list][last + 1].id
        moved == IF lo.ofs < last THEN {last_id} ELSE {}
    IN  [i \in (DOMAIN hashtable \ {id}) \union moved |->
            IF i \in moved THEN lo ELSE hashtable[i]]

remove_next ==
    /\ call.op = "remove"
    /\ call.rest # <<>>
    /\ LET id == Head(call.rest)
           lo == hashtable[id]
       IN  IF id \in DOMAIN hashtable
           THEN /\ lists' = [lists EXCEPT ![lo.list] = TakenOut(@, lo.ofs)]
                /\ hashtable' = TableWithout(id)
                /\ call' = [call EXCEPT !.rest = Tail(@), !.nremove = @ + 1]
           ELSE /\ call' = [call EXCEPT !.rest = Tail(@)]
                /\ UNCHANGED <<lists, hashtable>>
    /\ UNCHANGED <<ntotal, type, array, other, nadded, nlost, partial>>

(* Mutation of Removed: update_vectors counts what it asked for. *)
RemovedAsAsked(c) == IF c.then = <<>> THEN c.nremove ELSE Len(c.then)

Removed(c) == c.nremove

(* the end of remove_ids; update_vectors then adds the vectors again, or    *)
(* throws when some ids were not found                                      *)
remove_end ==
    /\ call.op = "remove"
    /\ call.rest = <<>>
    /\ ntotal' = ntotal - Removed(call)
    /\ IF call.then # <<>> /\ call.nremove = Len(call.then)
       THEN BeginAdd(call.then)
       ELSE call' = Idle /\ UNCHANGED array
    /\ UNCHANGED <<lists, type, hashtable, other, nadded, nlost, partial>>

update_vectors(ids, ls) ==
    /\ call = Idle
    /\ type # "NoMap"
    /\ nadded + Len(ids) <= MaxAdded
    /\ Careful => \A i \in DOMAIN ids : Assigned(ids[i])
    /\ ~partial
    /\ type = "Array" => \A i \in DOMAIN ls : ls[i] # -1
    /\ call' = IF type = "Array"
               THEN [op |-> "update", rest |-> Batch(ids, ls)]
               ELSE [op |-> "remove", rest |-> ids, nremove |-> 0, then |-> Batch(ids, ls)]
    /\ nadded' = nadded + Len(ids)
    /\ UNCHANGED <<lists, ntotal, type, array, hashtable, other, nlost, partial>>

(* update_codes for one vector: out of its old list, into the new one *)
update_one ==
    /\ call.op = "update"
    /\ call.rest # <<>>
    /\ LET v == Head(call.rest)
           lo == array[v.id + 1]
           es == lists[lo.list]
           out == [lists EXCEPT ![lo.list] = TakenOut(@, lo.ofs)]
           moved == IF lo.ofs # Len(es) - 1
                    THEN [array EXCEPT ![es[Len(es)].id + 1] = lo]
                    ELSE array
       IN  IF v.id < Len(array)
           THEN /\ lists' = [out EXCEPT ![v.list] = Append(@, Entry(v))]
                /\ array' = [moved EXCEPT ![v.id + 1] = lo_build(v.list, Len(out[v.list]))]
                /\ call' = [call EXCEPT !.rest = Tail(@)]
           ELSE call' = Idle /\ UNCHANGED <<lists, array>>   \* throws
    /\ UNCHANGED <<ntotal, type, hashtable, other, nadded, nlost, partial>>

update_end ==
    /\ call.op = "update"
    /\ call.rest = <<>>
    /\ call' = Idle
    /\ UNCHANGED <<lists, ntotal, type, array, hashtable, other, nadded, nlost, partial>>

-------------------------------------------------------------------------------
(* Merging another index into this one. *)

Shifted(es, add_id) == [p \in DOMAIN es |-> [es[p] EXCEPT !.id = @ + add_id]]

(* no direct map on either side, and ids that do not collide; an index that *)
(* was merged away is empty or not used again                               *)
MayMerge(add_id) ==
    /\ call = Idle
    /\ type = "NoMap"
    /\ other.ntotal > 0
    /\ \A e \in Entries(other.lists) : e.id + add_id \notin StoredIds

Emptied == [lists |-> [l \in DOMAIN other.lists |-> <<>>], ntotal |-> 0]

(* list by list in parallel; the lists do not depend on each other *)
merge_from(add_id) ==
    /\ MayMerge(add_id)
    /\ DOMAIN lists = DOMAIN other.lists
    /\ lists' = [l \in DOMAIN lists |-> lists[l] \o Shifted(other.lists[l], add_id)]
    /\ ntotal' = ntotal + other.ntotal
    /\ other' = Emptied
    /\ UNCHANGED <<type, array, hashtable, call, nadded, nlost, partial>>

(* ivfflat_concat_merge and ivfpq_concat_merge: the lists of the other      *)
(* index come after the lists of this one, in new inverted lists            *)
BeginConcat(add_id, flat) ==
    /\ MayMerge(add_id)
    /\ call' = [op |-> "concat", add_id |-> add_id, flat |-> flat, new_lists |-> lists]
    /\ UNCHANGED <<lists, ntotal, type, array, hashtable, other, nadded, nlost, partial>>

ivfflat_concat_merge(add_id) == BeginConcat(add_id, TRUE)
ivfpq_concat_merge(add_id) == BeginConcat(add_id, FALSE)

Pending == DOMAIN other.lists \ {l - Cardinality(DOMAIN lists) : l \in DOMAIN call.new_lists}

NewList(l) == Cardinality(DOMAIN lists) + l

(* the next list is copied; the flat version empties it at once *)
concat_list(l) ==
    /\ call.op = "concat"
    /\ l \in Pending
    /\ \A k \in Pending : l <= k
    /\ call' = [call EXCEPT !.new_lists =
          [m \in DOMAIN @ \union {NewList(l)} |->
              IF m = NewList(l) THEN Shifted(other.lists[l], call.add_id) ELSE @[m]]]
    /\ other' = IF call.flat THEN [other EXCEPT !.lists[l] = <<>>] ELSE other
    /\ UNCHANGED <<lists, ntotal, type, array, hashtable, nadded, nlost, partial>>

concat_end ==
    /\ call.op = "concat"
    /\ Pending = {}
    /\ lists' = call.new_lists
    /\ ntotal' = ntotal + other.ntotal
    /\ other' = [other EXCEPT !.ntotal = 0]
    /\ call' = Idle
    /\ UNCHANGED <<type, array, hashtable, nadded, nlost, partial>>

-------------------------------------------------------------------------------
SeqsUpTo(S, n) == UNION {[1 .. k -> S] : k \in 1 .. n}

Next ==
    \/ \E ids \in SeqsUpTo(Ids, MaxBatch) :
          \/ \E ls \in [DOMAIN ids -> DOMAIN lists \union {-1}] :
                add_with_ids(ids, ls) \/ update_vectors(ids, ls)
          \/ remove_ids(ids)
    \/ \E r \in Ranks : add_one(r)
    \/ add_end
    \/ \E t \in Types : set_type(t)
    \/ reset
    \/ scan \/ remove_next \/ remove_end
    \/ update_one \/ update_end
    \/ \E s \in Shifts : merge_from(s) \/ ivfflat_concat_merge(s) \/ ivfpq_concat_merge(s)
    \/ \E l \in DOMAIN other.lists : concat_list(l)
    \/ concat_end

Spec == Init /\ [][Next]_vars

-------------------------------------------------------------------------------
(* Properties. *)

LOs(ls) == {Unassigned, NoEntry} \union {lo_build(x[1], x[2] - 1) : x \in Places(ls)}

(* Entries of the map are places in the lists, or say that there is none;   *)
(* the count of an index is never negative, that is, as a size_t it does    *)
(* not wrap.                                                                *)
TypeOK ==
    /\ \A e \in Entries(lists) : e.id \in Nat /\ e.code \in Nat
    /\ ntotal \in Nat /\ nlost \in Nat
    /\ type \in {"NoMap", "Array", "Hashtable"}
    /\ \A k \in DOMAIN array : array[k] \in LOs(lists)
    /\ \A id \in DOMAIN hashtable : hashtable[id] \in LOs(lists)
    /\ nadded \in 0 .. MaxAdded
    /\ call.op \in {"none", "add", "scan", "remove", "update", "concat"}

(* what the direct map says of every id, with what a running add will still *)
(* enter                                                                     *)
Map ==
    CASE type = "Hashtable" /\ call.op = "add" -> Entered(call.vecs, call.all_ofs)
      [] type = "Hashtable" /\ call.op # "add" -> hashtable
      [] type = "Array" -> [id \in 0 .. (Len(array) - 1) |-> array[id + 1]]
      [] OTHER -> <<>>

Recorded(id) == IF id \in DOMAIN Map THEN Map[id] ELSE NoEntry

(* The map and the lists agree after every step, also between the moves     *)
(* that removals and updates make: what the map finds is the vector with    *)
(* that id, and every vector is found where it is.  A set_type that threw   *)
(* half way leaves vectors out; what its map does find is still right, also *)
(* after later adds.                                                        *)
MapAgrees ==
    type # "NoMap" =>
        /\ ~partial => \A x \in Places(lists) :
                          Recorded(IdAt(x)) = lo_build(x[1], x[2] - 1)
        /\ \A id \in Ids :
              LET lo == Recorded(id)
              IN  lo.list # -1 => /\ <<lo.list, lo.ofs + 1>> \in Places(lists)
                                  /\ IdAt(<<lo.list, lo.ofs + 1>>) = id

(* Between calls ntotal counts the vectors in the lists and those that were *)
(* given no list, and an array has one element for each of them.            *)
CountAgrees ==
    call = Idle => /\ ntotal = SizeOf(lists) + nlost
                   /\ type = "Array" => Len(array) = ntotal

(* Whatever the order in which the threads run, the vectors of a batch get  *)
(* into each list in the order of the batch, as in a sequential add.        *)
BatchOrderKept ==
    call.op = "add" =>
        LET batch == {call.vecs[i].code : i \in DOMAIN call.vecs}
            Code(x) == lists[x[1]][x[2]].code
        IN  \A x, y \in Places(lists) :
                {Code(x), Code(y)} \subseteq batch /\ x[1] = y[1] /\ x[2] < y[2]
                    => Code(x) < Code(y)

(* The inverted lists assert that a list number is in range (list_size:     *)
(* "assert(list_no < nlist)"); remove_ids takes it from the hash table.     *)
ListNoInRange ==
    call.op = "remove" /\ call.rest # <<>> /\ Head(call.rest) \in DOMAIN hashtable
        => hashtable[Head(call.rest)].list \in DOMAIN lists

-------------------------------------------------------------------------------
(* The vectors of the other index that are not merged yet *)
Unmerged ==
    IF other.ntotal = 0 THEN {}
    ELSE Entries(other.lists) \union
            (IF call.op # "concat" THEN {}
             ELSE {[e EXCEPT !.id = @ - call.add_id] :
                      e \in Entries([m \in DOMAIN call.new_lists \ DOMAIN lists |->
                                        call.new_lists[m]])})

Doomed ==
    (CASE call.op = "remove" -> {call.rest[k] : k \in DOMAIN call.rest}
       [] call.op = "scan" -> call.sel
       [] OTHER -> {})
    \cap StoredIds

Store == INSTANCE IdStore WITH
    store <- [id \in StoredIds |-> (CHOOSE e \in Entries(lists) : e.id = id).code],
    doomed <- Doomed,
    pool <- Unmerged

(* The index is a dictionary from ids to codes: moving entries to fill the  *)
(* places of removed ones loses, doubles and mixes up nothing, a removal    *)
(* takes exactly what was asked for, and a merge takes over all at once.    *)
ImplementsIdStore == Store!SSpec
===============================================================================
