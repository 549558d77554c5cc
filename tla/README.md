# TLA+ models of Faiss and IVFMerger

This directory holds TLA+ specifications of parts of this repository, TLC
configurations that check them on small instances, and TLAPS proofs of results
that hold for every instance. Paths below are relative to `faiss/` in the
repository unless they say otherwise.

1. [The system](#1-the-system)
2. [Modules and how they correspond to the code](#2-modules-and-how-they-correspond-to-the-code)
3. [Runs](#3-runs)
4. [Disagreements between code and documentation](#4-disagreements-between-code-and-documentation)
5. [Proofs](#5-proofs)
6. [What is not modelled](#6-what-is-not-modelled)
7. [Plan](#7-plan)

To repeat a run: `tlc -config LockLevels_safety.cfg MCLockLevels.tla`; the table
in section 3 names the module of each configuration. To repeat a proof:
`tlapm LockLevels_proofs.tla`.

## 1. The system

The repository is the Faiss similarity-search library with one addition, the
merge of IVF index shards (`IndexIVFFlatMerge*`, `IndexIVFPQMerge*`,
`IndexIVFRaBitQMerge*`). Most of Faiss is numeric code without shared state:
what a state machine can say about it is little. The parts below keep state that
several calls or several threads change; they are where the hard behaviour is.

### Components with interesting state

**Lock levels of the on-disk lists** (`invlists/OnDiskInvertedLists.cpp`,
`struct LockLevels`).
State: a mutex, the set of lists whose level-1 lock is held, the count of threads
at level 2, two flags, three condition variables.
Operations: lock and unlock of levels 1 (one per list), 2 (allocator), 3 (remap).
Callers: `add_entries`, `resize`, the prefetch threads.
Hard: level 3 waits for all level-1 holders except those that wait at level 2
for the very thread that waits at level 3; a wrong signal leaves a thread asleep
for ever; a failed remap unwinds without unlocking.
Correct when lists, the allocator and the remap are exclusive, no wakeup is lost
and every call returns.

**Storage of the on-disk lists** (same file, `OnDiskInvertedLists`).
State: a descriptor (size, capacity, offset) per list, a sorted table of free
slots, the size of the file, the mapped bytes.
Operations: `add_entries`, `update_entries`, `resize`, `merge_from_multiple`,
`crop_invlists`, and below them `allocate_slot`, `free_slot`, `update_totsize`.
Hard: first fit and joining of holes over long histories, regions that are freed
before they are copied from, ids whose place depends on the capacity.
Correct when regions never overlap and a reader gets the sequences of entries
that the calls promise.

**Prefetch** (same file, `OngoingPrefetch`).
State: a list of tasks with a cursor, the threads that read, a mutex for each of
the two.
Operations: `prefetch_lists` (empty the tasks, join the old threads, fill the
tasks, create threads), `get_next_list`, `one_list`, destructor.
Hard: the tasks are filled without the mutex that guards them; the join waits for
threads that wait for lists others resize.
Correct when nobody reads the tasks half built and no join waits for ever.

**IVF flat merge** (`IndexIVFFlatMerge.cpp`, `IndexIVFFlatMergeMT.cpp`).
State: the vectors of all shards in one array, a table of lists of ids, an
assignment, centroids.
Operations: stacking the shards, dropping empty lists, stage 1 (group lists, or
split them by quota with a repair of empty parts, and a fallback that halves the
largest), stage 2 (train centroids, reassign every vector), materialisation.
Hard: integer quotas that must add up to the target, splits that k-means may
leave empty, threads that write one assignment vector, exceptions between steps.
Correct when no vector is lost or copied whatever k-means answers, when
the call ends, and when it fails only for a reason found in its arguments.

**IVF PQ and RaBitQ merge** (`IndexIVFPQMerge.cpp`, `IndexIVFRaBitQMerge.cpp`).
State: the above, under `merge_ivf_data`, and for each new list a buffer of ids and
codes with a count of the places taken.
Operations: argument checks, the steps of the flat merge on the caller's raw vectors,
training of the codebook, encoding: by one thread per shard (PQ), inside the
reassignment (RaBitQ of one bit) or list by list (several bits).
`*_concat_merge` copies lists from one index into another.
Hard: all encoding threads write to the buffers of all lists, without a lock, at places
claimed by `fetch_add`; buffers are sized before from the merged lists.
Correct when no place is given out twice and each buffer ends up full.

**WorkerThread** (`utils/WorkerThread.cpp`).
State: a queue of functions and promises, a stop flag, a condition variable.
Operations: `add`, `stop`, the thread's loop and its flush at exit.
Hard: an add or a stop between the worker's test and its wait; a stop with
functions queued; the flush walks over the queue without the mutex.

**ThreadedIndex** (`impl/ThreadedIndex-inl.h`).
State: the collection of indices with their workers.
Operations: `runOnIndex` (fan out, collect, rethrow), `addIndex`,
`removeIndex`, destructor; a search or add is one `runOnIndex`.
Hard: one index throws while others run; a worker stopped meanwhile.
Correct when every function runs once, a call ends only after the last of its
functions, and it throws exactly if one of them threw.

**IndexShards, IndexReplicas** (`IndexShards.cpp`, `IndexReplicas.cpp`), with
`IndexShardsIVF` on top.
State: the sub-indexes; `ntotal` and `is_trained` copied from them.
Operations: adding and removing a sub-index with a callback that may throw,
`train`, `reset`, `add`, `add_with_ids`, splitting batches and translating labels.
Hard: a sub-index throws and the others have done their part; the copied totals
are then old; shards joined or removed while they hold vectors.
Correct when the collection answers as one index would.

**IndexIVF and DirectMap** (`IndexIVF.cpp`, `invlists/DirectMap.cpp`).
State: the lists, `ntotal`, and a map from ids to places (an array or a hash table).
Operations: `add_with_ids`, whose threads divide the lists between them,
`set_direct_map_type`, `reset`, `remove_ids`, `update_vectors`, `merge_from`, and
`ivfflat_concat_merge` and `ivfpq_concat_merge`, which merge the same data.
Hard: a removal moves the last entry of a list into the hole, and so changes where
another id is; an update is a removal and an insertion; calls that throw halfway.
Correct when the map finds each vector where it is, `ntotal` counts them, and no
vector is lost, doubled or given another's id.

**In-memory inverted lists** (`invlists/InvertedLists.cpp`,
`BlockInvertedLists.cpp`): arrays per list, and views (slices, stacks, masks).

**IndexIDMap** (`IndexIDMap.cpp`): a map of ids and its inverse under removal.

**IVFlib** (`IVFlib.cpp`): sliding windows and `merge_into`.

**HNSW** (`impl/HNSW.cpp`, `IndexHNSW.cpp`).
State: a level per node, a list of neighbours per node and level, `entry_point`,
`max_level`, a lock per node.
Operations: `hnsw_add_vertices` (groups of nodes by level, a barrier between them),
`add_with_locks` by many threads (greedy descent, search, links, reverse links).
Hard: lists are read without a lock; the own lock is released for the reverse
links; the entry point and the top level are read in separate steps.
Correct when no link is lost or entered twice, no thread uses a level that a node
does not have, no node is left without neighbours, and nobody waits for ever.

**VisitedTable** (`impl/VisitedTable.cpp`): marks by version number; the number
wraps.

**Index IO and the on-disk hook** (`impl/index_read.cpp`, `index_write.cpp`,
`OnDiskInvertedListsIOHook`): descriptors and slots are saved once while the
mapped file keeps changing.

**Interruption and range results** (`impl/AuxIndexStructures.cpp`): one global
callback; per-thread buffers joined at the end.

### Components without

Clustering, quantizers, fast-scan and SIMD kernels, flat and binary indexes,
transforms, factory and cloning, GPU, Metal and SVS back ends, C and Python
interfaces, contrib. `PROJECT.json` lists each with the reason.

### How they interact

    IndexShards / IndexReplicas                 IndexIVF
            | one function per index                | add, search
      ThreadedIndex                            InvertedLists
            | queue, promise                        |
      WorkerThread (one per index)         OnDiskInvertedLists <- prefetch threads
                                             LockLevels | SlotTable | mapped file
    merge_ivfflat(shards) --> lists --> new IndexIVFFlat
    merge_ivfpq, merge_ivfrabitq --> merge_ivf_data --> lists --> codes --> new index
          ^ OpenMP threads in stage 2 and in the encoding

`add_entries` and `resize` of an on-disk list run under the lock levels: level 1
around the call, level 2 around the change of the slot table, level 3 around the
remap inside it. The merge builds an index from copies of the shards and shares
nothing with running searches.

## 2. Modules and how they correspond to the code

| module | what it is |
|---|---|
| `LockLevels` | `struct LockLevels` and the callers between its calls |
| `ListAccess` | abstract: exclusive claims on lists, one allocator, a quiet remap |
| `SlotTable` | the table of free slots: first fit, growth, joining |
| `SlotAllocator` | the table under a client that returns regions whole |
| `OnDiskInvertedLists` | descriptors, slots and mapped bytes, one step per operation |
| `ListStore` | abstract: each list is a sequence of (code, id) entries |
| `IVFFlatMerge` | the lists of a merge, serial and multi-threaded, step by step |
| `IVFMerge` | `merge_ivfflat`, `merge_ivfpq`, `merge_ivfrabitq`: lists and codes together |
| `MergedIndex` | abstract: the index or the exception a caller may get |
| `WorkerThread` | one worker: queue, stop flag, condition variable, futures |
| `ThreadedIndex` | callers of `runOnIndex`, the owner, and the workers together |
| `FanOut` | abstract: outcomes of the functions of a call |
| `Prefetch` | `OngoingPrefetch` and its threads, on top of `LockLevels` |
| `IndexIVF` | an IVF index under calls that add, remove, update and merge |
| `IdStore` | abstract: a dictionary from ids to codes |
| `HNSW` | `hnsw_add_vertices` and the threads of `add_with_locks` |
| `SubIndexes` | `IndexShards` and `IndexReplicas` |
| `MC*` | definitions that give constants their values for TLC |
| `*_proofs` | theorems, section 5; `Sums_proofs` has what the others use about sums |

`PROJECT.json` maps each definition that models code to its lines.

### LockLevels and ListAccess

A thread's `pc` says where it is between the lock calls: about to take level 1,
using the list, waiting at level 2, allocating, waiting at level 3, remapping,
moving its list, finishing under level 1. A prefetch thread goes from "use"
straight to `unlock_1`; add and resize may do that too (the size fits the slot)
or go through level 2, and from there through level 3 or not.

Code between a lock of `mutex1` and its release is one action with `mutex1` free
as guard. `lock_3` returns with `mutex1` held and `unlock_3` releases it, so the
mutex has an owner during the remap. `pthread_cond_wait` puts a thread to sleep;
only a signal, a broadcast or a spurious wakeup makes it runnable, and
it evaluates its condition again.

`update_totsize` may throw (`munmap`, `truncate`, `mmap`). No frame on the way out
unlocks anything: the thread goes to "thrown" and keeps level 1, 2, 3 and
`mutex1`. From then on every call on any list blocks. The model shows that this
at least keeps everybody away from the broken mapping (`RemapExclusion`).

The comment at `OnDiskInvertedLists.cpp:38-39` says that the thread at level 3 is
alone ("no other thread holds lock1(m) for m != n"). The code is weaker, on
purpose: threads waiting in `lock_2` keep their level-1 locks. What matters is
that they do not touch the mapping, and this is what the properties say.

### Storage: SlotTable, OnDiskInvertedLists, ListStore

The file is a set of stored values with the byte each begins at. Writing destroys
what it overlaps. `Content` reads through the descriptors as `get_codes` and
`get_ids` do. `resize_locked` is modelled with its order of steps: free the old
region (giving back `capacity` *bytes*, see section 4), allocate, copy when the
offset changed, update the descriptor. LockLevels justifies one step per operation:
one thread at a time edits the table, and a list has one user.

The IO hook saves descriptors, free slots and size with the index; the entries stay
in the mapped file, which later calls go on changing. `write` keeps a copy of the
first three; `read` is a process that starts later and maps the file as the last
process left it, whether that one ended well or crashed after the save. The abstract
store says what such an index reads: lists that did not change since
the save are intact, the others hold anything. That the second half cannot be more
is in the code: nothing of the saved index is protected from reuse.

Release builds (`README.md:57`, `INSTALL.md:144`) turn asserts off, so
the models do not rely on any `assert`.

Because resize gives back too little, the branches of `free_slot` that join on
both sides are hardly reached through it. `SlotAllocator` exercises `SlotTable`
with a client that returns regions whole. The mutation `FreedInBytes` of `Freed`
gives back the whole region in bytes: `NeverCopiesOntoItself` fails for
it, because the freed region may then be handed out for the same list while the
data is copied from it. A repair of the accounting has to copy before it frees,
or use `memmove`.

### IVFFlatMerge, IVFMerge and MergedIndex

A vector is the place it came from, (shard, list, position); the table of lists is
a sequence of sets of ids. Everything decided by distance is nondeterministic:
k-means labels, nearest centroids, the halves of a split. So the checks hold for
every answer of k-means, good or bad. The integer logic is kept: the quotas with
their rounding and round-robin correction (given in closed form, round by round),
the repair of empty parts, the passes and their cap, the fallback, sample sizes,
order of the checks and the exceptions they throw.

Things a reader may look for:
- lists stay sorted by id in quota passes, so `back()` is the largest id and sets
  are enough;
- the reassignment of one list is one step, because the threads write disjoint
  elements of the assignment; that they are disjoint is `Partition`;
- `sample_fraction` is taken from (0, 1], as a percentage;
- code under `#if 0` is left out;
- modes: "serial" is one OpenMP thread, "mt" several, "mt_lloyd" more than 32,
  where training uses the parallel Lloyd that accepts few vectors.

`IVFFlatMerge` is what all merges share; `IVFMerge` extends it by the encoding and has
the specification. A code is the vector it encodes. The list step that
reassigns is joined with the callback that encodes for RaBitQ of one bit, as in the
code (`Reassign`). For PQ, `take_position` is the `fetch_add` and `write_entry` the
stores after it, so that any two threads may be between the two at once; rounding and
refinement of codes happen in between and share nothing. The buffers of the code begin
with zeros where the model has `NoEntry`, so a place that nobody fills is seen. The order of the vectors of one
source list within a batch is not modelled: they are taken by id. `raw_vectors`,
`encoder` and `pq_train_min` stand for the options that the code checks before or while it
encodes.

### WorkerThread, ThreadedIndex, FanOut

A function is named by the caller that added it; `future[c][i]` is the future of
caller `c` on index `i`. What happens under the worker's mutex is one step; a
function runs between two steps, so others interleave. The flush after the loop
takes entries off where the code walks over them; nothing else reads them after.
`runOnIndex` visits indices in order, and collects futures from the first again.

`ThreadedIndex.h:19` says the interface is not thread safe. The model respects
this where `indices_` changes: an index is erased only while no call runs. It lets
the owner stop a worker at any time, which no correct owner does during a call,
so that everything a worker answers to a late `add` is reached and checked.

### Prefetch

`Prefetch` extends `LockLevels`: the threads of `Pool` go through `lock_1` and
`unlock_1` of that module, and get the list from `get_next_list` instead of a free
choice; the other threads add and resize. Since `prefetch_lists` holds a
mutex from beginning to end, one call at a time is under way, and its caller has no
state of its own. Whether a list is empty is read without lock 1; the model lets
the test go either way. The destructor runs when no call does, as for any C++
object; it waits for the prefetch threads.

### IndexIVF and IdStore

An entry is an id and a code; the code of a vector is its number, so that entries
that swap ids or codes are told apart. Lists are chosen freely, -1 included. The
threads of `add_core` take one vector a step, so every interleaving of lists
is met. Removal with the hash table and update with the array go id by id: the map
is checked between any two moves. Removal by scan is one step for all lists, since
each list is scanned by one thread and nothing else is shared but the count. The
part of `remove_ids` that fills holes from the end of a list is given in closed form.

Callers are assumed to use an id for one vector at a time, as the hash table
needs, and (`Careful`) to leave alone vectors that were given no list; section 4
has what happens otherwise. `Map` is what the direct map will say of every id once the
running add has joined its threads, and `Recorded` what it says of one. An index that
may be merged in is an index: `SourcesAssumption` says that its lists are numbered from 0, that
each of its ids is in one place, and that its vectors are not numbered like those added here.

### HNSW

Distances are left out: a search finds any part of what it can reach, a node links
to any of what was found, pruning keeps any non-empty part. What holds here holds
for any data and any parameters of the search. A link is written under the lock of its list
and read without one; a reader collects sets of nodes, so that seeing a list before or
after an update is all it can tell apart. `entry_point` and `max_level` are
separate variables, each read and written at its own step. Memory is
sequentially consistent in the model; the code has plain reads of both, so a compiler or
processor that reorders them could do more. What a greedy descent can reach from its
nearest node is `Reach`, the least set that is closed under the links of the level.

The model follows one thing that is easy to miss: the own lock is released while reverse
links are entered, and taken again, which is what keeps two threads from waiting
for each other's node.

### SubIndexes

`ThreadedIndex` shows that a call runs one function on each index; here each of
these runs is a step, in any order, and may throw. `past` collects what
excuses a collection from answering as one index: a call threw, an index that held
vectors joined or left, ids were given by the caller. `reset` clears it, since
afterwards everything is empty.

## 3. Runs

| run | module, configuration | distinct states |
|---|---|---|
| `lock_safety` | `MCLockLevels`, `LockLevels_safety.cfg` | 49 676 |
| `prefetch` | `MCPrefetch`, `Prefetch.cfg` | 573 996 |
| `ondisk_storage` | `MCOnDiskInvertedLists`, `OnDisk_storage.cfg` | 229 177 |
| `slot_allocator` | `SlotAllocator`, `SlotAllocator.cfg` | 169 669 |
| `ivf_merge` | `MCIVFMerge`, `IVFMerge.cfg` | 38 203 |
| `threaded_index` | `ThreadedIndex`, `ThreadedIndex.cfg` | 90 074 |
| `sub_indexes` | `MCSubIndexes`, `SubIndexes.cfg` | 7 046 357 |
| `direct_map` | `MCIndexIVF`, `IndexIVF.cfg` | 288 183 |
| `hnsw` | `MCHNSW`, `HNSW.cfg` | 992 994 |

Three more runs (`ondisk_shrink`, `ivf_unassigned`, `hnsw_race`) each end in a
counterexample; section 4.

**lock_safety**: types, exclusion of lists and remap, no lost wakeup, and that the
three levels never wait in a circle (`SomeThreadCanProceed`). Four threads, three lists, two calls
each: one thread can remap while one sleeps at level 2, one reads and one waits
at `lock_1`, which are all the roles. Threads and lists are symmetric: the
code compares list numbers for equality only. Remaps may fail, and after a
failure the system stops, so deadlock is not checked here; `SomeThreadCanProceed`
says for all other states that a thread in a call can go on, without the help of a
new call or a spurious wakeup.

**prefetch**: the tasks are filled while nobody reads them; the locks implement
`ListAccess`, and every call returns; deadlock is checked. Two threads that add or
resize once, a pool of two, two lists, two calls of `prefetch_lists` that ask for both
lists, for one list twice (two readers for one lock) or for none, and the destructor.
One call more than one is needed to join the threads of the call before; two
adders and two readers on two lists fill every role of the locks. No
symmetry (unsound for liveness). Remaps do not fail here: after a failure calls
block for ever, as said in section 2. Fairness: weak, for each adder,
each prefetch thread, and the caller of `prefetch_lists` once it is inside. The
operating system schedules runnable threads; the model does not assume that a thread wins the race
for a lock. Nobody has to make another call.

**ondisk_storage**: types, disjoint regions and slots inside the file, no copy
onto itself, and the refinement of `ListStore` under add, resize, update, merge,
crop, save and reopen. Two lists, 64 bytes, ids of three bytes: a file that grows
once or twice, holes of several sizes, lists that move past each other, and
that move into space the saved index uses. Merges of one or two sources with up to two entries each. With
`shift_ids` the sources have equal sizes, the case in which the shift is right
(section 4 for the other).
`InPlaceShrink = FALSE` leaves out the one resize that loses ids, `GrowAfterMerge =
FALSE` adds after a merge that need space (section 4), so that the run
shows the rest is right. After a save lists only grow or are emptied, and the saved index is
opened once: these calls are the ones that take and give back space.

**slot_allocator**: every byte of the file is in one slot, free or used; all
neighbouring holes are joined. Every history of requests of 8, 11 and 20 bytes
within 64: sums of the sizes meet and miss each other, so all four cases of
`free_slot` and partial takes occur.

**ivf_merge**: types, the partition of the vectors, encoders apart, no empty list
between quota passes, the refinement of `MergedIndex`, termination. The flat calls in
`MCIVFMerge` have at most six vectors: with three or more an empty list, long
and short lists, targets from 0 to one too many, one option at a
time; the two instances named there make quotas overshoot and undershoot; the improper ones have ids that
collide or lie outside. `MaxPasses = 2` and `SplitCap = 3` stand for 256 and 64:
they make passes run out and caps bind for six vectors. The calls of compressed
indexes have three or four vectors; two shards of two let two encoders meet in one
list in every order. `PqSamplePercent = 100` stands for 5, of which nothing would be
left here; `pq_train_min` is met and missed. Fairness: the call runs
on its caller's threads and waits for nobody but the threads it joins, which do not
wait, so weak fairness of `Next`.

**threaded_index**: types, one function per pending future, the flush undisturbed,
the refinement of `FanOut`, calls end, stopped workers exit. Two callers, two
indices, two calls in all: queues of length two, a stop at every point of a call,
both with and without worker threads. Fairness: weak, for each caller within its
call and for each worker; nobody has to begin a call or a removal. The system
rests when the calls are made, so deadlock is not checked.

**sub_indexes**: types, totals that agree unless an exception left them old, and
answers as of one index. Three indices (interchangeable) that start empty and
untrained, the three kinds of collection, two adds of three vectors: with one, two or three
shards three vectors split evenly, unevenly and one each; an index that left
may join again with what it holds. Any sub-index may throw in any call.

**direct_map**: types, map and lists agree between any two steps, `ntotal` counts the
vectors, batches keep their order, and the refinement of `IdStore`. Two lists and
two threads, batches of up to two vectors out of three ids and three vectors
in all: a list of three, where a removal moves an entry past another, and where the
moved entry is itself to be removed; every type of map, and changes of the type between calls. One other
index to merge, once.

**hnsw**: types, levels exist, no link is entered twice or lost, no node is left
alone, the entry point is at the top, every call ends. Two threads, two calls that
add two nodes each, levels 0 and 1, lists of two (level 0) and one (level 1), so
that lists are pruned while others write to them. A group of two runs in parallel
(`Threshold = 1` stands for 100). The callback may interrupt either call. `AnyLevels = FALSE`
leaves out groups of two that raise the maximum level in the second call, the case of
section 4. Two more instances were checked by hand and hold: a call with one
node and one with three on one level (29 938 states), and three on two levels without
interrupts and liveness (1.4 million states). Fairness: weak, for each thread and for the barrier.
The system rests when the batches are added, so deadlock is not checked; that threads
do not wait for each other is `AllAdded`.

Each property has a mutation of a modelled definition, kept beside the
original and named in `PROJECT.json`, for which TLC finds it violated.

## 4. Disagreements between code and documentation

| run | what the code does | what says otherwise |
|---|---|---|
| `ondisk_shrink` | a list shrunk into the beginning of its own region keeps its offset, so nothing is copied, but its ids are looked for elsewhere (`OnDiskInvertedLists.cpp:472`) | `OnDiskInvertedLists.h:39`, `tests/test_ondisk_ivf.cpp:87` |
| `ivf_unassigned` | a vector without a list enters the hash table as list -1, and removing it by id takes this number to the inverted lists (`DirectMap.cpp:208`) | `InvertedLists.cpp:299`, `IndexIVF.h:262` |
| `hnsw_race` | a thread reads the entry point, another raises it with the maximum level, the first reads the level and uses a level the old entry point does not have (`HNSW.cpp:1000`) | `HNSW.h:127` |

`ondisk_shrink` uses the real size of an id and a list of nine entries; the
smallest case needs the freed bytes, as many as the old capacity, to hold the new
region. `ivf_unassigned` needs a quantizer that answers -1, as it does for NaN.
`hnsw_race` needs a call in which a group of more than 100 nodes has a level above all
earlier nodes, typically the second add to an index that began with few.

Met while modelling, and visible in the definitions, but not the subject of a run. The first
three contradict a property stated in `OnDiskInvertedLists`; TLC refutes each within three
steps when it is given as an INVARIANT, with the real size of an id (`IdBytes = 8`) and the constants
`Ops <- AddOnly`; `Ops <- MergeThenAdd`, `GrowAfterMerge = TRUE`, `Sources <- OneListFull`; and
`Ops <- MergeOnly`, `Sources <- SmallerSecondShard`.

- `resize_locked` frees `capacity` bytes of a region of `capacity` entries
  (`OnDiskInvertedLists.cpp:455`; `Freed`): the rest is in no list and no slot, where
  `OnDiskInvertedLists.h:73` says "whatever space remains". `NoSpaceLost` fails when a list
  outgrows its first slot.
- `merge_from_multiple` leaves the whole file in the free slots (`:607`; `MayResize`), where
  `OnDiskInvertedLists.h:46` says "a list of empty slots". `ListsKeepApart` fails when
  entries are added to a list that is empty after the merge: it has nothing to give back
  and takes the beginning of the file, which is the first list. (A list that has entries gives its region
  back first, and a build with assertions stops there.)
- With `shift_ids`, source i is shifted by the totals of sources 1..i instead of 0..i-1
  (`:594`; `ShiftOf`; compare `IVFlib.h:48` and `tests/test_contrib.py:907`, whose shards
  have equal sizes). `MergeContinuesIds` fails for shards of two entries and one: the ids are 0, 1
  and 1.
- `global_cs` is added to by all prefetch threads without synchronisation.
- The multi-threaded stage 2 samples although a training set was given
  (`IndexIVFFlatMergeMT.cpp:1754`; compare `IndexIVFFlatMerge.h:58`).
- RaBitQ of several bits with `target_nlist = 0` keeps every source list without a
  word (`IndexIVFFlatMerge.cpp:2658`; `KeepsLists`), where PQ and one bit throw.
- The PQ merge needs as many sampled vectors as its queries and candidates
  (`IndexIVFPQMerge.cpp:981`; `CodebookTrains`), by default 64 + 8192 out of 5 %: it throws for
  fewer than about 165 120 vectors.
- `merge_ivf_data` moves lists and centroids out of its argument and an exception on the
  way loses them (`IndexIVFFlatMerge.cpp:2670`); its callers hold them locally and throw too.
- An exception inside an OpenMP region of the merge (`IndexIVFFlatMergeMT.cpp:1386`)
  ends the program.
- `ThreadedIndex::reset` sets `is_trained = false` though the sub-indexes stay
  trained (`reset` and `end` in `SubIndexes`).
- `IndexReplicas::addIndex` throws for an index of another size, but keeps it
  (`onAfterAddIndex`).
- `ivfpq_concat_merge` leaves the lists of its source full with `ntotal` 0, where
  `ivfflat_concat_merge` empties them (`IndexIVFPQMerge.cpp:2263`; `concat_list`).
- `add` takes ids from `ntotal` (`IndexIVF.cpp:278`), which after removals are in use;
  the model lets callers add only ids that are free (`Fresh`).
- `DirectMapAdd` sets its `ntotal` for the array only (`DirectMap.cpp:146`).

## 5. Proofs

All proofs are for arbitrary constants (finite sets of threads and lists, any
number of callers, indices, calls, batches, lists and levels, any shards and sizes), under the assumptions named
in the modules. No bound on the state is used: `MaxOps`, `MaxPasses`, `MaxCalls`,
`MaxAdded` and the like only appear as any number. Three results have a hypothesis on a constant that says how the
code is used: `~AnyLevels` for HNSW and `Careful` for IndexIVF, where a run shows that it is needed (`hnsw_race`,
`ivf_unassigned`), and `~GrowAfterMerge` for `NeverCopiesOntoItself`, which leaves out the resizes after
a merge that section 4 describes.

Proved, with the name of the theorem:

| property | theorem |
|---|---|
| `LockLevels`: `TypeOK`, `ListExclusion`, `RemapExclusion`, `NoLostWakeup`, `SomeThreadCanProceed`, `ImplementsListAccess` | `TypeCorrect`, `ListsAreExclusive`, `RemapIsExclusive`, `WakeupsAreKept`, `SomeoneProceeds`, `LocksImplementListAccess` |
| `Prefetch`: `TasksArePrivate`, `ImplementsListAccess` | `TasksStayPrivate`, `PrefetchImplementsListAccess` |
| `IVFMerge`: `TypeOK`, `Partition`, `EncodersApart`, `SplitsLeaveNoListEmpty` | `TypeCorrect`, `MergePartitions`, `EncodersStayApart`, `SplitsFill` |
| `ThreadedIndex`: `TypeOK`, `OneFunctionPerFuture`, `FlushIsAlone`, `ImplementsFanOut` | `TypeCorrect`, `FunctionsAreKept`, `FlushIsUndisturbed`, `Implements` |
| `IndexIVF`: `TypeOK`, `MapAgrees`, `CountAgrees`, `BatchOrderKept`, `ImplementsIdStore` | `TypeCorrect`, `MapCorrect`, `CountCorrect`, `OrderCorrect`, `ImplementsDictionary` |
| `OnDiskInvertedLists`: `TypeOK`, `SpaceDisjoint`, `NeverCopiesOntoItself` | `TypesKept`, `SpaceIsDisjoint`, `CopiesStayApart` |
| `SlotAllocator`: `FileAccountedFor` | `FileIsAccountedFor` |
| `SubIndexes`: `TypeOK`, `TotalAgrees`, `AnswersAsOne` | `TypeCorrect`, `TotalsAgree`, `AnswersAreOne` |
| `HNSW`: `TypeOK`, `LevelsExist`, `LinksAreNew`, `NoLinkLost`, `NoNodeLeftAlone`, `EntryPointIsTop` | `TypeCorrect`, `LevelsExistInvariant`, `LinksAreNewInvariant`, `NoLinkLostInvariant`, `NoNodeLeftAloneInvariant`, `EntryPointCorrect` |

**`LockLevels_proofs`.** The inductive invariant `LockInv` relates the counters
to the threads: `level1_holders` contains the list of each thread past `lock_1`
and has as many members as there are such threads; `n_level2` is the number of
threads that hold level 2 or wait for it; `level2_in_use` says whether one holds
it; while a thread remaps it owns the mutex and the level-1 holders number at most
`n_level2`. The core is a counting argument:
when `lock_3` passes, the number of level-1 holders is at most `n_level2`. Every thread
counted at level 2 is a level-1 holder, and a finite set with as many members as
one of its subsets is that subset: nobody else holds level 1, hence nobody
touches a list. Types alone do not give it,
because the comparison is between two cardinalities. From it:
`TypeCorrect`, `ListsAreExclusive`, `AllocatorIsExclusive` (checked by TLC as a part of
`ListAccess`), `RemapIsExclusive`.
`WakeInv` adds that sleepers sleep where their `pc` says and that `level3_in_use`
announces the thread at level 3, which gives `WakeupsAreKept`.

`SomeoneProceeds`, that the levels never wait in a circle, puts all of this together. Two
facts are added (`OwnersInv`): between two steps mutex1 is owned by a thread in
`update_totsize` or by nobody, and `level3_in_use` has a thread behind it. Then the thread
nearest to the innermost level can go on (`NoCircle`): the owner of mutex1; else one that
holds level 2 or is at its list, where nothing is waited for; else the one in `lock_3`, because then every level-1
holder waits in `lock_2` and is counted in `n_level2` (`WaitersAreCounted`, the count of
`LockInv` in the other direction); else one in `lock_2`, because level 2 is free and
`NoLostWakeup` keeps one of its waiters awake; else one in `lock_1`, because nobody holds a list.

In the second part of the module `LocksImplementListAccess`: every step of the locks is
a step of `ListAccess` or a stutter, under the mapping defined at the end of
`LockLevels` (a claim is a list past `lock_1`; the allocator is the thread between
lock and unlock of level 2; remapping is being inside `update_totsize`).

**Prefetch, in the third part of `LockLevels_proofs`.** The composition inherits from the locks: `PrefetchKeepsLocks`
shows that `LockInv` is kept when lists come from `get_next_list`, because each
step of the composition is one of the locks' actions, leaves them alone, or is the
beginning of a call with a list that the tasks hold (`TaskKeepsLocks`). From it
`PrefetchImplementsListAccess`, with the view of a step as one of `ListAccess` taken
from the lemmas of the refinement. `TasksStayPrivate` rests on the order in
`prefetch_lists`: join before fill, create after.

**`IVFMerge_proofs`.** `TypeCorrect` and
`MergePartitions`: for any shards, options and answers of k-means, after every step each id is in exactly one list.
The inductive invariant adds to types and `Partition` that the assignment is
complete while lists are being reassigned and unused before and after. The
lemmas behind it say how the code rearranges lists: labelling every id once,
grouping whole lists, splitting one, moving one id. That the stacked shards are lists of
entries is `StackedTypes`: a fold is a choice of its partial results, which exist
(`Stackable`) because otherwise there would be a least shard for which they do not.
The assumptions are about the arguments only: ids and options are integers, `SplitCap` is
positive.

`EncodersStayApart` needs `CountersLead`: every place that a thread holds, and every
place already written, is at most the count of its list. So the place handed out next, one
past the count, is held by nobody and empty. That the count never passes the size of the
buffer needs sums over shards and stays with TLC (`ImplementsMergedIndex`: the
buffers of the answer are full).

`SplitsFill`: no list is empty between two quota passes, whatever labels k-means gives. The
strengthening `Filled` follows the argument through the stages. Concatenation may leave an id in two
lists only if another is missing, for there are as many entries as ids
(`ConcatFills`, by `FlattenPlaces`: each place of a flattened sequence belongs to one
element); compression refuses such shards, otherwise it keeps the lists that have ids. A quota is
at most the size of its list in every round (`QuotasFit`), and a list has no more parts than
its quota (`PartsAreCounted`), so a split list has a vector for each of its parts: `EnoughFor`. The repair moves
vectors within these parts and keeps `EnoughFor`. It ends when no empty part has a sibling with two
vectors; then each sibling has at most one, and if one had none they would be too few
(`RepairedMeansFilled`). Empty lists may still come from a grouping down to `target`, after which
there is no quota pass, and from the fallback and stage 2, which follow the passes; the property
says nothing of them.

**`ThreadedIndex_proofs`.** `FunctionsAreKept`: a future is pending exactly when
one function, queued or running, will set it. It is not inductive: a caller that
added a function to an index twice would break it. `InStep` says why it does
not: what a caller has still to add is not pending, and what is pending it has
still to collect. The lemmas on `Occurrences` count how often a function is in a
queue under `Append` and `Tail`. `FlushIsUndisturbed` follows from
`StopComesFirst`: a worker leaves its loop only when the stop flag is set, and
then `add` refuses. `TypeCorrect` as usual.

`Implements`, the refinement of `FanOut`, needs `Collects` besides: what a caller has
done so far. The indices of a call stay until it ends; what it has yet to hand out is untouched;
each future it has collected is settled; and `threw_` is set exactly if one of these
holds an exception. Without it the end of a call could not be shown to be an end that `FanOut` allows: it must
come after the last function, and with the right result.

**`IndexIVF_proofs`.** The inductive invariant has two layers, each checked by TLC before it
was proved. `OrderInv` needs no map: shapes of the lists and of the call in progress,
codes that are not given out yet (`CodeInv`), and, for a running add, that every entry of the batch is in its
list, was entered by the thread that owns the list, and that what the
thread has still to enter comes later (`TodoInv`, `BatchInv`). `OrderCorrect` is read off it.
`IdInv` is about ids: each is in one place (`Unique`); the map and the lists agree both ways, `Forward` from
the entries to the map and `Backward` from the map to the entries; the ids of a batch are new and
distinct until they are entered; in an update by the hash table, the ids that were removed stay gone until they
are added again (`RemoveInv`: this is why `remove_end` compares the counts); while lists are copied, copies
and lists still to be copied hold different ids and together as many as before
(`MergeInv`); and `CountInv` relates `ntotal` to the lists at every point of a call, counting what has
been entered and not yet counted, and what was removed and not yet subtracted.
The core is `CutMap`: when the last entry of a list moves into a hole, a map that agreed
before and is changed at two ids agrees after. The cardinalities (`CompactedIs`: the holes
of a scan are as many as the fillers behind them) rest on bijections between what is kept and
the places it gets.

In the second half of the module `ImplementsDictionary`: every step is a step of `IdStore` or
a stutter. The entries of the lists, as a set, are all that `IdStore` sees; the lemmas
of the first part say what each operation does to this set: appending adds an entry (`AppendedEntries`), taking
one out takes just that one although another moves (`CutEntries`), a scan takes what was selected
(`ScanEntries`), a merge adds the other entries under new ids (`MergeEntries`). Then sets of entries with distinct
ids are dictionaries (`DictIs`), and the four changes are those of `IdStore`. For the concatenating
merge, which copies list by list but takes over all vectors in its last step, the invariant is `CopyInv`: a
list of the other index is still to be copied, among the copies, or empty. The vectors not merged
yet are then the same after each copy, whether the source is emptied or not (`PoolCopied`).

**`HNSW_proofs`.** Two layers. `ControlInv` follows the calls, the groups and the two
critical sections: who is in one, that the threads of a group hold different nodes, that
`entry_point` is inserted and of level `max_level` outside the assignments, that no inserted
node is above `max_level`, and that a group that has been left, interrupted or not, has raised the graph
to its level. It holds of every add, and gives `EntryPointCorrect`. `GraphInv` follows the lists: a list holds only nodes that have its level and are
inserted or linked at that level (`Ready`); a thread touches only such nodes, and the list it is about to write is locked
by it and still what it has read; nodes found at a level have no link to the own one there
(`WorkInv`), which gives `LinksAreNew`; every link is mutual, or one side was pruned, or a thread has still to
enter it (`MutualInv`), which gives `NoLinkLost`; and a node without neighbours is the only one
so far, and every thread that is about to end has it before it (`ConnectedInv`), which gives
`NoNodeLeftAlone`. It needs `~AnyLevels`: a large group that raises the maximum
level makes the level a thread reads one that its nearest node may not have.

**`Sums_proofs`.** The models add up sizes with the library's `SumFunctionOnSet`, a recursion over
the subsets of a set that takes out an element named by CHOOSE. The prover has no induction
over such definitions, so an induction is done here by hand, as the choice of a
smallest set for which the claim fails (`SmallestSubset`, from the well-founded order on finite
sets). `SumComputed` says that the sum exists, `SumWithout` that any element may be taken
out; from these: sums of equal functions, of zeros, under renaming, of steps of a
sequence, and of a part.

**`SubIndexes_proofs`.** `TypeCorrect` and `TotalsAgree` rest on `Typed` and `Counts`; `Counts` follows a
call in progress, because `reset` writes `ntotal` only at its end. `AnswersAreOne` needs what is true in the
middle of an add, `Adding`: with shards, the labels present are those of the adds before and of the
parts whose shard has run, whatever the order; with successive ids, each shard that has run numbers its
part from 0 and its codes begin at its place in the batch; with replicas, those that
have run hold the same, one batch more than those that have not. The parts of a batch
are followed by `SplitAt`, whose lemmas are about integer division: consecutive parts meet, the first begins at
0, the last ends at the end of the batch, for every number of shards and every size. That each vector
has a label of its own is a bijection between labels and vectors, and the translation by
sizes of earlier shards is a sum of steps.

**`OnDiskInvertedLists_proofs`.** First the table of free slots. `InOrder` says
that slots are apart with at least a byte between two of them. `FreeRight` shows, for each of the four
cases of `free_slot`, that the table stays in order and its bytes are those from before and the
region; `Allotted` that what `allocate_slot` hands out was free or beyond the end of the
file, and that the table loses just these bytes, whether the file grows or not. That enough
doublings exist is again a choice of the least number without them.
`FileIsAccountedFor` combines them: `Accounted` says that the file is the disjoint union of
what was handed out and what is in the table. That an empty file is one slot follows from `InOrder`: two
slots would leave a byte between them.

Then the lists. `Stored` says that descriptors are sound and, as long as no merge has filled
the file, that regions of lists and bytes of the table are pairwise disjoint and inside the file
(`Apart`), of the running index and of the saved one. It is by bytes, where
`SpaceDisjoint` compares ranges (`NoByteNoOverlap` goes from one to the other). What
`resize_locked` gives back is a part of the region (`GivenBack`: `capacity` bytes of `capacity`
entries), so nothing is ever freed that another list owns. `ResizeKeeps` is the step of the
three cases of a resize, `BecomeKeeps` the rest of every operation. `SpaceIsDisjoint` and
`TypesKept` are read off `Stored`. A merge leaves `Apart` for good, as the code does, and
only types are claimed after it.

`CopiesStayApart` is the least obvious of these. `resize_locked` frees the old region before it allocates
the new one, so the new one may be any free space that touches the old one, or part of it. It is
safe for two reasons. What is freed are the first bytes of the region, and at least one byte of the
region is left (`RegionIsLonger`: an entry has two bytes or more). And space is taken from the beginning of
a slot, before which no byte is free (`PlaceIsWalled`, from `InOrder`). So a new place that begins
in the freed bytes would have a free byte before it, unless it is the old place; and one that
begins before the old region and reaches into it would need a free byte before the old region, which there never is.
This last is the strengthening: `Walled`, no list has a free byte just before its region, is kept by every
resize (`ResizeKeepsWalls`). `Orderly` adds that regions are disjoint after a merge as well, by sums of sizes
(`PackedApart`), since `crop_invlists` then gives lists other numbers.

Only model-checked, not proved:
- liveness (`AllCallsReturn`, `Termination`, `CallsEnd`, `StoppedWorkersExit`,
  `AllAdded`): fairness and ENABLED are out of the prover's reach;
- the refinements `ImplementsListStore` and `ImplementsMergedIndex`: the bytes of the
  file and the codes of a merge are built by folds over sequences, each of which would need an
  induction as in `Sums_proofs`.

## 6. What is not modelled

Of modelled components: `print()` of the lock levels; the sum that prefetch threads
compute; `read_ArrayInvertedLists` and `set_all_lists_sizes`, which lay out a
read-only file, and `do_mmap` details; construction of a worker (one empty function, awaited before
any other call); `addIndex` and `reset` of `ThreadedIndex`, which `SubIndexes` has one
level up; `shard_ivfflat`; the numeric part of codebook training and encoding, the blocked
form of the serial PQ encoder, and `Concat` for PQ, which returns `IndexShards`; search, reconstruction, `copy_subset_to` and `add_sa_codes` of
`IndexIVF`; search and the deterministic build of HNSW; the merging of distances in
`IndexShards`; allocation failure everywhere; vectors with NaN in the merge, for which k-means
may name no list.

Whole components: section 1 names them, `PROJECT.json` gives each a reason. In
short: numeric code has no state to model, and it is the largest part of the
repository by far (SIMD kernels, decoders, quantizers, GPU); serialisation writes and
reads fields in order. What is modelled is therefore a small share of all lines, and
most of the lines where calls, threads or files share state.

Two hazards have no property; `PROJECT.json` says why: the wrap of the version number in
`VisitedTable`, and adding after `merge_from_multiple` (section 4). A call does not learn that a stopped
worker refused its function; `FanOut` allows this, and `ThreadedIndex.h:19` rules out a removal
during a call. After a call on shards or replicas has thrown, the properties
speak again after the next call that ends well (`TotalAgrees`) or after `reset`
(`AnswersAsOne`): what they hold in between is not promised. After a `set_type` that threw, `MapAgrees`
says that what the map finds is right, not that it finds everything.

## 7. Plan

Done, modelling, in the order of importance: lock levels, storage with save and
reopen, merge of flat and compressed indexes, workers, prefetch on the locks, direct maps and concatenating merges,
HNSW insertion, shards and replicas; the abstract specifications `ListAccess`,
`ListStore`, `MergedIndex`, `FanOut`, `IdStore`.

Done, proving: safety of the lock levels and their refinement, both also with prefetch
threads; the partition of the merge, the encoders and the quota passes; the worker queues and the refinement of
`FanOut`; all safety properties of HNSW; all of IndexIVF and the refinement of `IdStore`; all of the shards and replicas;
the free slots, the disjoint regions and the copies of the on-disk lists.

Next, proving, in this order:

1. `ImplementsListStore` without merges: the bytes of a list under `CopyRun` and `WriteRun`.
2. `ImplementsMergedIndex`: the buffers of the encoders are full, by sums over shards.

Left to model: `VisitedTable`, `IndexIDMap`,
`BlockInvertedLists`, sliding windows of `IVFlib`, `IndexShardsIVF`, and selection by
heaps and partitioning against a reference over bounded inputs.
