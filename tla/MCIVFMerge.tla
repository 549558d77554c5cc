------------------------------ MODULE MCIVFMerge ------------------------------
(* Calls of merge_ivfflat, merge_ivfpq and merge_ivfrabitq for TLC: small    *)
(* shards chosen so that every branch of stage 1 is taken, with the thread   *)
(* counts and options that matter.                                           *)
EXTENDS IVFMerge

Flat(method, modes, targets, maxk, given, percent, near) ==
    [method : {method}, mode : modes, target_nlist : targets,
     split_max_k_per_cluster : maxk, n_stage2_training_vectors : given,
     sample_percent : percent, remap_neighbor_k : near,
     raw_vectors : {FALSE}, encoder : {TRUE}, pq_train_min : {1}]

Coded(methods, modes, targets, percent, raw, accepted, train_min) ==
    [method : methods, mode : modes, target_nlist : targets,
     split_max_k_per_cluster : {64}, n_stage2_training_vectors : {1},
     sample_percent : percent, remap_neighbor_k : {2},
     raw_vectors : raw, encoder : accepted, pq_train_min : train_min]

On(shards, opts) == [indices : shards, options : opts]

AllModes == {"serial", "mt", "mt_lloyd"}

(* three vectors: one list empty, one long list, three short lists *)
Three == { << <<<<0, 1>>, <<>>>>, <<<<0>>>> >>,
           << <<<<2, 0, 1>>>> >>,
           << <<<<0>>, <<1>>>>, <<<<0>>>> >> }

(* two lists of two: target 3 makes the quotas add up to 4 *)
TwoPairs == { << <<<<0, 1>>>>, <<<<1, 0>>>> >> }

(* one list of four: with quotas of at most 2 two passes may not suffice *)
OneLong == { << <<<<3, 2, 1, 0>>>> >> }

(* three lists of two: target 4 makes the quotas add up to 3 *)
ThreePairs == { << <<<<0, 1>>>>, <<<<0, 1>>, <<2, 3>>>> >> }

(* ids that collide, or lie outside, and a shard without vectors *)
Improper == { << <<<<0>>, <<0>>>> >>, << <<<<2>>, <<0>>>> >>, << <<<<>>>> >> }

FlatCalls ==
    On(Three, Flat("merge", AllModes, 0 .. 4, {64}, {0}, {100}, {1, 2}))
    \union On(Three, Flat("merge", {"serial"}, 2 .. 3, {1}, {0}, {100}, {1}))
    \union On(Three, Flat("merge", AllModes, {2}, {64}, {0, 1, 2}, {5, 70}, {1}))
    \union On(TwoPairs, Flat("merge", AllModes, {1, 3}, {0, 64}, {0}, {100}, {1}))
    \union On(OneLong, Flat("merge", {"serial"}, {4}, {2}, {0}, {5}, {1}))
    \union On(ThreePairs, Flat("merge", {"serial"}, {4}, {64}, {0}, {100}, {1}))
    \union On(Improper, Flat("merge", {"serial"}, {0, 1}, {64}, {0}, {100}, {0, 1}))
    \union On(Three \union TwoPairs \union Improper,
              Flat("concat", {"serial"}, {0}, {64}, {0}, {100}, {1}))

Codes == {"ivfpq", "rabitq", "rabitq_1bit"}

(* two shards of two vectors let two encoders meet in one list *)
CodedCalls ==
    On(Three, Coded(Codes, AllModes, 0 .. 4, {100}, {TRUE}, {TRUE}, {3}))
    \union On(TwoPairs, Coded(Codes, {"serial", "mt"}, {2}, {100}, {TRUE}, {TRUE}, {4}))
    \union On(Three, Coded(Codes, {"serial", "mt"}, {2}, {70}, BOOLEAN, BOOLEAN, {4}))
    \union On(Improper, Coded(Codes, {"serial", "mt"}, {0, 1}, {100}, {TRUE}, {TRUE}, {1}))

MergeCalls == FlatCalls \union CodedCalls
================================================================================
