----------------------------- MODULE IVFFlatMerge -----------------------------
(***************************************************************************)
(* The lists of a merged IVF index: what merge_ivfflat does, and what      *)
(* merge_ivfpq and merge_ivfrabitq have merge_ivf_data do for them.        *)
(*                                                                         *)
(* Concat keeps every list of every shard.  Merge brings the number of     *)
(* lists to target_nlist in stage 1 (grouping lists, or splitting them by  *)
(* quota and then the largest first), trains target_nlist centroids in     *)
(* stage 2 and moves every vector to a list near the one it was in.  The   *)
(* method of a call is "concat" or "merge" for flat indexes, "ivfpq",      *)
(* "rabitq" (several bits) or "rabitq_1bit" for a merge of compressed      *)
(* ones, whose new codes are the subject of IVFMerge.                      *)
(*                                                                         *)
(* Vectors have no coordinates here: every choice the code makes by        *)
(* distance (k-means labels, nearest centroids) is a nondeterministic one. *)
(* A vector is the place it came from, <<shard, list, position>>, and the  *)
(* table of lists is a sequence of sets of global ids.  Mode "serial" is   *)
(* one OpenMP thread, "mt" several, "mt_lloyd" more than 32 of them.       *)
(***************************************************************************)
EXTENDS Integers, Sequences, FiniteSets, SequencesExt, FiniteSetsExt

CONSTANTS
    Calls,       \* the calls to study: records [indices, options]
    MaxPasses,   \* quota passes before the fallback; 256 in the code
    SplitCap     \* largest quota of a list in the MT build; 64 in the code

VARIABLES
    indices,     \* the shards: sequences of lists of local ids
    options,     \* MergeArguments, with the mode the thread count selects;
                 \* raw_vectors: the caller gives all of them;
                 \* encoder: the options of the new codes pass their checks
    pc,
    ntotal,      \* data.ntotal
    target,      \* target_nlist, or what stands for it when it is 0
    lists,       \* data.lists once the shards were stacked
    passes,      \* quota_pass
    group,       \* the list each part of the last quota pass comes from
    assign,      \* stage 2: the new list of each id, 0 for -1
    todo,        \* stage 2: lists whose ids are not yet reassigned
    answer       \* the index or the exception that the caller gets

vars == <<indices, options, pc, ntotal, target, lists, passes, group, assign,
          todo, answer>>

arguments == <<indices, options>>
sizes == <<ntotal, target>>
stage2 == <<assign, todo>>

-----------------------------------------------------------------------------
(* Stacking the shards. *)

ShardSize(shard) == Len(FlattenSeq(shard))

(* the lists of all shards, with global ids: local id + id_offset *)
Stacked(shards) ==
    LET Add(acc, k) ==
          [offset |-> acc.offset + ShardSize(shards[k]),
           lists  |-> acc.lists \o
              [l \in DOMAIN shards[k] |->
                 [i \in DOMAIN shards[k][l] |->
                    [id |-> shards[k][l][i] + acc.offset, vec |-> <<k, l, i>>]]]]
    IN  FoldLeft(Add, [offset |-> 0, lists |-> <<>>],
                 [k \in DOMAIN shards |-> k]).lists

Compressed == options.method \in {"ivfpq", "rabitq", "rabitq_1bit"}

(* one bit RaBitQ takes the serial code whatever the number of threads *)
Serial == options.mode = "serial" \/ options.method = "rabitq_1bit"

(* merge_ivf_data has nothing to do without a target *)
KeepsLists == options.method = "concat" \/ (Compressed /\ options.target_nlist = 0)

(* the caller has the vectors; IVFPQ cannot draw a training set for no lists *)
AcceptsCall ==
    /\ Compressed => options.raw_vectors
    /\ options.method = "ivfpq" => options.target_nlist > 0

(* the lists are there: codes that depend on where a vector was are left *)
AfterLists ==
    IF options.method \in {"ivfpq", "rabitq_1bit"} THEN "encode" ELSE "materialize"

(* ids are integers, and so are the options that count *)
ASSUME CallsAssumption ==
    \A call \in Calls :
        /\ call.indices \in Seq(Seq(Seq(Int)))
        /\ call.options.target_nlist \in Nat
        /\ call.options.split_max_k_per_cluster \in Int
ASSUME PassesAssumption == MaxPasses \in Nat
ASSUME CapAssumption == SplitCap \in Nat \ {0}

Ids == 0 .. (ntotal - 1)

IdsOf(list) == {list[i].id : i \in DOMAIN list}

(* id_loc: when ids collide the last vector wins *)
VectorAt(id) ==
    LET all == FlattenSeq(Stacked(indices))
    IN  all[Max({i \in DOMAIN all : all[i].id = id})].vec

Entry(id) == [id |-> id, vec |-> VectorAt(id)]

-----------------------------------------------------------------------------
(* Quotas: into how many parts a pass splits each list. *)

SizeOf(c) == Cardinality(lists[c])

MaxK == IF Serial
        THEN Max({1, options.split_max_k_per_cluster}) ELSE SplitCap

(* the share of the target in proportion to the size, rounded to nearest *)
Share(n) == (2 * n * target + ntotal) \div (2 * ntotal)

FirstQuota(c) ==
    IF SizeOf(c) < 2 THEN 1 ELSE Min({SizeOf(c), MaxK, Max({1, Share(SizeOf(c))})})

Total(quota) == FoldLeft(+, 0, quota)

(* r rounds over the lists that each add one part to every list that can    *)
(* have one more; -r rounds that each take one back                         *)
AfterRounds(r) ==
    [c \in DOMAIN lists |->
        IF r >= 0 THEN Max({FirstQuota(c), Min({FirstQuota(c) + r, MaxK, SizeOf(c)})})
                  ELSE Max({FirstQuota(c) + r, 1})]

(* too few parts: the last full round that fits, and the one begun after it *)
Rising ==
    {<<AfterRounds(r), AfterRounds(r + 1)>> :
        r \in {q \in 0 .. target : /\ Total(AfterRounds(q)) <= target
                                   /\ q = target \/ Total(AfterRounds(q + 1)) > target}}

(* too many parts *)
Falling ==
    {<<AfterRounds(-r), AfterRounds(-r - 1)>> :
        r \in {q \in 0 .. target : /\ Total(AfterRounds(-q)) >= target
                                   /\ Total(AfterRounds(-q - 1)) < target}}

(* the round that is begun serves the first lists only, as many as are left; *)
(* std::sort may leave lists of the same size in any order                   *)
Begun(last, next, left, goesFirst) ==
    LET open == {c \in DOMAIN lists : next[c] # last[c]}
    IN  {[c \in DOMAIN lists |-> IF c \in served THEN next[c] ELSE last[c]] :
            served \in {s \in SUBSET open :
                          /\ Cardinality(s) = Min({left, Cardinality(open)})
                          /\ s \X (open \ s) \subseteq goesFirst}}

Pairs == (DOMAIN lists) \X (DOMAIN lists)
Larger == {p \in Pairs : SizeOf(p[1]) >= SizeOf(p[2])}
Smaller == {p \in Pairs : SizeOf(p[1]) <= SizeOf(p[2])}

(* Mutation of Quotas: nothing is taken back when rounding gave too much. *)
QuotasRoundedUp ==
    {AfterRounds(0)} \union
    (UNION {Begun(p[1], p[2], target - Total(p[1]), Larger) : p \in Rising})

Quotas ==
    (UNION {Begun(p[1], p[2], target - Total(p[1]), Larger) : p \in Rising})
    \union (UNION {Begun(p[1], p[2], Total(p[1]) - target, Smaller) : p \in Falling})

(* the list that each part belongs to *)
PartsOf(quota) == FlattenSeq([c \in DOMAIN lists |-> [t \in 1 .. quota[c] |-> c]])

-----------------------------------------------------------------------------
(* The steps of the call. *)

Init ==
    /\ \E call \in Calls : indices = call.indices /\ options = call.options
    /\ pc = "concat"
    /\ ntotal = 0
    /\ target = 0
    /\ lists = <<>>
    /\ passes = 0
    /\ group = <<>>
    /\ assign = <<>>
    /\ todo = {}
    /\ answer = [state |-> "pending", lists |-> <<>>]

Thrown == [state |-> "thrown", lists |-> <<>>]

Throw ==
    /\ pc' = "end"
    /\ answer' = Thrown
    /\ UNCHANGED <<arguments, sizes, lists, passes, group, stage2>>

Return(newLists) ==
    /\ pc' = "end"
    /\ answer' = [state |-> "index", lists |-> newLists]
    /\ UNCHANGED <<arguments, sizes, lists, passes, group, stage2>>

(* a step of stage 1 that leaves everything but the lists alone *)
Relist(newLists, next) ==
    /\ lists' = newLists
    /\ pc' = next
    /\ UNCHANGED <<arguments, sizes, passes, group, stage2, answer>>

Goto(next) == Relist(lists, next)

(* Mutation of InRange: global ids are not checked. *)
InRangeUnchecked(table, n) == TRUE

InRange(table, n) == UNION {table[c] : c \in DOMAIN table} \subseteq 0 .. (n - 1)

concat_indices_into_ivfdata ==
    LET stacked == Stacked(indices)
        table == [c \in DOMAIN stacked |-> IdsOf(stacked[c])]
    IN  /\ pc = "concat"
        /\ ntotal' = Len(FlattenSeq(stacked))
        /\ target' = target
        /\ IF AcceptsCall /\ InRange(table, ntotal')
           THEN /\ lists' = table
                /\ pc' = IF KeepsLists THEN AfterLists ELSE "compress"
                /\ answer' = answer
           ELSE /\ lists' = <<>>
                /\ pc' = "end"
                /\ answer' = Thrown
        /\ UNCHANGED <<arguments, passes, group, stage2>>

(* merge_full_on_ivfdata: target_nlist 0 asks a flat merge for as many      *)
(* lists as there are, empty ones included                                  *)
TargetNlist == IF options.target_nlist = 0 THEN Len(lists) ELSE options.target_nlist

AcceptsOptions == TargetNlist > 0 /\ options.remap_neighbor_k > 0

(* build_assign_from_lists: the last list that has an id owns it; it throws *)
(* if an id has no owner                                                    *)
IsOwner(c, id) == id \in lists[c] /\ \A d \in DOMAIN lists : id \in lists[d] => d <= c

AllOwned == \A id \in Ids : \E c \in DOMAIN lists : IsOwner(c, id)

(* the number of a list among those that are kept: the ones with ids *)
NewNumber(c) == Cardinality({d \in 1 .. c : lists[d] # {}})

(* the merge begins by dropping the empty lists *)
compress_empty_clusters ==
    /\ pc = "compress"
    /\ target' = TargetNlist
    /\ \/ /\ AcceptsOptions
          /\ \E owner \in [Ids -> DOMAIN lists] :
                /\ \A id \in Ids : IsOwner(owner[id], id)
                /\ lists' = [i \in 1 .. NewNumber(Len(lists)) |->
                                {id \in Ids : NewNumber(owner[id]) = i}]
          /\ pc' = "stage1"
          /\ answer' = answer
       \/ /\ ~AcceptsOptions \/ ~AllOwned
          /\ pc' = "end"
          /\ answer' = Thrown
          /\ lists' = lists
    /\ UNCHANGED <<arguments, ntotal, passes, group, stage2>>

(* Mutation of Grouped: a list replaces the one that joined before it. *)
GroupedLastOnly(map_old_to_new) ==
    [t \in 1 .. target |->
        UNION {lists[old] : old \in {c \in DOMAIN lists :
                  /\ map_old_to_new[c] = t
                  /\ \A d \in DOMAIN lists : map_old_to_new[d] = t => d <= c}}]

(* each list joins the list of its nearest new centroid *)
Grouped(map_old_to_new) ==
    [t \in 1 .. target |->
        UNION {lists[old] : old \in {c \in DOMAIN lists : map_old_to_new[c] = t}}]

(* more lists than wanted *)
reduce_centroids_to_target_kmeans ==
    /\ pc = "stage1"
    /\ Len(lists) > target
    /\ \E map_old_to_new \in [DOMAIN lists -> 1 .. target] :
          Relist(Grouped(map_old_to_new), "stage1")

(* One pass over all lists: part t belongs to list group[t], the label of  *)
(* an id is the part its nearest centroid stands for.  A pass that splits  *)
(* nothing ends the passes.                                                *)
quota_split_clusters_kmeans ==
    /\ pc = "stage1"
    /\ Len(lists) \in 1 .. (target - 1)
    /\ passes < MaxPasses
    /\ \E parts \in {PartsOf(quota) : quota \in Quotas} :
          /\ parts \in Seq(DOMAIN lists)
          /\ IF Len(parts) > target THEN Throw ELSE
                /\ passes' = passes + 1
                /\ group' = parts
                /\ pc' = IF Len(parts) = Len(lists) THEN "fallback" ELSE "repair"
                /\ \E label \in [Ids -> DOMAIN parts] :
                      /\ \A id \in Ids : id \in lists[parts[label[id]]]
                      /\ lists' = [t \in DOMAIN parts |-> {id \in Ids : label[id] = t}]
                /\ UNCHANGED <<arguments, sizes, stage2, answer>>

Siblings(t) == {s \in DOMAIN lists : group[s] = group[t]}

(* largest_nonempty: the first of the largest parts of the same list *)
IsLargestSibling(s, t) ==
    /\ s \in Siblings(t)
    /\ \A r \in Siblings(t) : SizeOf(r) <= SizeOf(s) /\ (SizeOf(r) = SizeOf(s) => s <= r)

(* Mutation of Hollow: empty parts stay. *)
HollowIgnored == {}

(* the empty parts that can still get a vector *)
Hollow == {t \in DOMAIN lists : lists[t] = {} /\ \E s \in Siblings(t) : SizeOf(s) > 1}

(* the first empty part takes the last id of the largest; then the pass is over *)
repair_empty_parts ==
    /\ pc = "repair"
    /\ \E t \in Hollow, src \in DOMAIN lists :
          /\ \A u \in Hollow : t <= u
          /\ IsLargestSibling(src, t)
          /\ \E moved \in lists[src] :
                /\ \A id \in lists[src] : id <= moved
                /\ Relist([lists EXCEPT ![src] = @ \ {moved}, ![t] = {moved}], "repair")

end_of_quota_pass ==
    /\ pc = "repair"
    /\ Hollow = {}
    /\ Goto("stage1")

passes_exhausted ==
    /\ pc = "stage1"
    /\ Len(lists) \in 1 .. (target - 1)
    /\ passes = MaxPasses
    /\ Goto("fallback")

(* ivfdata_split_cluster_at: two lists in place of list c *)
SplitAt(c, half) ==
    [d \in 1 .. (Len(lists) + 1) |->
        CASE d < c -> lists[d]
          [] d = c -> half
          [] d = c + 1 -> lists[c] \ half
          [] d > c + 1 -> lists[d - 1]]

(* the first of the largest lists that have two vectors or more *)
IsLargest(c) ==
    /\ SizeOf(c) >= 2
    /\ \A d \in DOMAIN lists : SizeOf(d) <= SizeOf(c) /\ (SizeOf(d) = SizeOf(c) => c <= d)

split_largest_nonempty_cluster ==
    /\ pc = "fallback"
    /\ Len(lists) < target
    /\ \/ \E c \in DOMAIN lists :
             /\ IsLargest(c)
             /\ \E half \in SUBSET lists[c] : Relist(SplitAt(c, half), "fallback")
       \/ /\ \A c \in DOMAIN lists : SizeOf(c) < 2
          /\ Throw

(* stage 1 is over, or had nothing to start from *)
end_of_stage1 ==
    /\ pc \in {"stage1", "fallback"}
    /\ Len(lists) = target \/ lists = <<>>
    /\ Goto("stage2")

(* sample_ids_random_fraction *)
SampleSize == Max({1, (ntotal * options.sample_percent) \div 100})

(* IVFPQ draws a training set from the vectors of the caller, RaBitQ none *)
GivenSize ==
    CASE options.method = "ivfpq" -> Min({SampleSize, 256 * options.target_nlist})
      [] options.method = "merge" -> options.n_stage2_training_vectors
      [] OTHER -> 0

(* get_stage2_training_vectors exists in the serial build only *)
UsesGiven == Serial /\ GivenSize > 0

(* only the parallel Lloyd accepts fewer training vectors than centroids *)
CanTrainOn(n_sample) == n_sample >= target \/ (~Serial /\ options.mode = "mt_lloyd")

(* stage 2: train the centroids from a sample, start the reassignment *)
train_kmeans_centroids_with_init ==
    LET trains == /\ Len(lists) = target
                  /\ CanTrainOn(IF UsesGiven THEN GivenSize ELSE SampleSize)
    IN  /\ pc = "stage2"
        /\ \/ /\ trains
              /\ todo' = DOMAIN lists
              /\ assign' = [id \in Ids |-> IF Serial THEN 0
                             ELSE CHOOSE c \in DOMAIN lists : id \in lists[c]]
              /\ pc' = "reassign"
              /\ UNCHANGED <<arguments, sizes, lists, passes, group, answer>>
           \/ /\ ~trains
              /\ Throw

(* Mutation of Remaining: the batch loop over a list starts again. *)
RemainingKeepsList(c) == todo

Remaining(c) == todo \ {c}

(* One list: each id goes to the nearest of the new centroids near the     *)
(* list's own.  The serial build takes the lists in order, the threads of  *)
(* the MT build in any order; they write different elements of assign.     *)
reassign_one_cluster(c) ==
    /\ pc = "reassign"
    /\ c \in todo
    /\ Serial => \A d \in todo : c <= d
    /\ \E near \in kSubset(Min({options.remap_neighbor_k, target}), 1 .. target) :
         \E best_tgt \in [lists[c] -> near] :
            assign' = [id \in Ids |-> IF id \in lists[c] THEN best_tgt[id] ELSE assign[id]]
    /\ todo' = Remaining(c)
    /\ UNCHANGED <<arguments, sizes, pc, lists, passes, group, answer>>

(* one bit RaBitQ has its codes by now and gives up the lists *)
rebuild_lists_from_assign ==
    /\ pc = "reassign"
    /\ todo = {}
    /\ CASE options.method = "rabitq_1bit" -> Relist(<<>>, AfterLists)
         [] options.method # "rabitq_1bit" /\ (\A id \in Ids : assign[id] # 0) ->
              Relist([t \in 1 .. target |-> {id \in Ids : assign[id] = t}], AfterLists)
         [] OTHER -> Throw

(* materialize_invlists_from_ivfdata: ids in order, each with its vector;    *)
(* build_rabitq_from_old_state_k0 does the same with codes of several bits   *)
sync_ivfdata_to_index ==
    LET stacked == Stacked(indices)
        ids(c) == IF KeepsLists
                  THEN [i \in DOMAIN stacked[c] |-> stacked[c][i].id]
                  ELSE SetToSortSeq(lists[c], <)
    IN  /\ pc = "materialize"
        /\ IF options.method = "rabitq" /\ ~options.encoder THEN Throw ELSE
           Return([c \in DOMAIN lists |-> [i \in DOMAIN ids(c) |-> Entry(ids(c)[i])]])

(* every step but the reassignment, during which some indexes are encoded *)
ListStep ==
    \/ concat_indices_into_ivfdata
    \/ compress_empty_clusters
    \/ reduce_centroids_to_target_kmeans
    \/ quota_split_clusters_kmeans
    \/ repair_empty_parts
    \/ end_of_quota_pass
    \/ passes_exhausted
    \/ split_largest_nonempty_cluster
    \/ end_of_stage1
    \/ train_kmeans_centroids_with_init
    \/ rebuild_lists_from_assign
    \/ sync_ivfdata_to_index

-----------------------------------------------------------------------------
(* Properties. *)

(* Every variable keeps its type: in particular the lists of stage 1 hold   *)
(* ids of the stacked shards only, and quotas never ask for an entry that   *)
(* does not exist (data.lists, final_assign, quota_pass).                   *)
TypeOK ==
    /\ \E call \in Calls : indices = call.indices /\ options = call.options
    /\ pc \in {"concat", "compress", "stage1", "repair", "fallback", "stage2",
               "reassign", "materialize", "encode", "end"}
    /\ lists \in Seq(SUBSET Ids)
    /\ passes \in 0 .. MaxPasses
    /\ \A t \in DOMAIN group : group[t] \in Nat
    /\ assign = <<>> \/ assign \in [Ids -> 0 .. target]
    /\ todo \subseteq DOMAIN lists
    /\ answer.state \in {"pending", "index", "thrown"}

Working == pc \in {"stage1", "repair", "fallback", "stage2", "reassign"}
              \/ (pc = "materialize" /\ ~KeepsLists)
              \/ (pc = "encode" /\ options.method = "ivfpq")

(* From the first compression to the last list written every id is in       *)
(* exactly one list: grouping, quota splits with their repair, halving and   *)
(* reassigning by many threads neither lose nor copy a vector                *)
(* (build_assign_from_lists would throw, or an index would miss a vector).   *)
Partition ==
    Working =>
        \A id \in Ids : \E c \in DOMAIN lists :
            /\ id \in lists[c]
            /\ \A d \in DOMAIN lists : id \in lists[d] => d = c

(* Between two quota passes no list is empty: the pass hands out at most as  *)
(* many parts as there are vectors and its repair fills every part           *)
(* (an empty list would never be split and would be searched for nothing).   *)
SplitsLeaveNoListEmpty ==
    pc = "stage1" /\ passes > 0 => \A c \in DOMAIN lists : lists[c] # {}
================================================================================
