------------------------------- MODULE IVFMerge -------------------------------
(***************************************************************************)
(* merge_ivfflat, merge_ivfpq and merge_ivfrabitq: the lists of the merged *)
(* index (IVFFlatMerge) and the codes that go into them.                   *)
(*                                                                         *)
(* IVFPQ encodes when the lists are known.  Buffers of the right sizes are *)
(* made for the new lists; each shard is re-encoded by one thread, which   *)
(* takes the next place of the buffer of a vector's new list by            *)
(* fetch_add and then writes id and code there.  One bit RaBitQ encodes    *)
(* within stage 2, as soon as a batch has its new lists.                   *)
(*                                                                         *)
(* A code is known by the vector that it encodes.  Within a batch of one   *)
(* list the order of vectors is not modelled: they are taken by id.        *)
(***************************************************************************)
EXTENDS IVFFlatMerge

CONSTANT PqSamplePercent   \* PQ_SAMPLE_PERCENT; 5 in the code

ASSUME ShardsAssumption == \A call \in Calls : DOMAIN call.indices # {}

VARIABLES
    buffers,     \* out_ids and out_codes of each new list
    out_pos,     \* IVFPQ: how many places of each buffer are taken
    encoder      \* IVFPQ: for each shard the entries read, and the place its
                 \* thread has taken and not yet filled (0: none)

encoding == <<buffers, out_pos, encoder>>

NoEntry == [id |-> -1, vec |-> <<>>]

(* the entries of shard k in the order in which its lists are walked *)
ShardEntries(k) ==
    SelectSeq(FlattenSeq(Stacked(indices)), LAMBDA e : e.vec[1] = k)

MergeInit ==
    /\ Init
    /\ buffers = <<>>
    /\ out_pos = <<>>
    /\ encoder = <<>>

-----------------------------------------------------------------------------
(* One bit RaBitQ. *)

Buffer(t) == IF buffers = <<>> THEN <<>> ELSE buffers[t]

(* the ids of list c that go to list t *)
GoTo(t, c) == {id \in lists[c] : assign'[id] = t}

(* encode_in_remap_rabitq_1bit_callback: each id joins its list with a code *)
encode_in_remap(c) ==
    /\ buffers' = IF options.method # "rabitq_1bit" THEN buffers
                  ELSE [t \in 1 .. target |->
                          LET ids == SetToSortSeq(GoTo(t, c), <)
                          IN  Buffer(t) \o [i \in DOMAIN ids |-> Entry(ids[i])]]
    /\ UNCHANGED <<out_pos, encoder>>

Encoded == Len(FlattenSeq(buffers))

(* build_rabitq_from_in_remap_buffers_direct_1bit *)
build_from_in_remap_buffers ==
    /\ pc = "encode"
    /\ options.method = "rabitq_1bit"
    /\ IF Encoded = ntotal /\ ~KeepsLists THEN Return(buffers) ELSE Throw
    /\ UNCHANGED encoding

-----------------------------------------------------------------------------
(* IVFPQ. *)

(* the sample that trains the codebook; that a caller's cap on it leaves   *)
(* enough is one of the checks that options.encoder stands for             *)
PqTrainSize == Max({1, (ntotal * PqSamplePercent) \div 100})

CodebookTrains == options.encoder /\ PqTrainSize >= options.pq_train_min

(* the codebook is trained, or refused; buffers get the sizes of the lists *)
allocate_output ==
    /\ pc = "encode"
    /\ options.method = "ivfpq"
    /\ encoder = <<>>
    /\ \/ /\ CodebookTrains
          /\ buffers' = [x \in DOMAIN lists |-> [pos \in 1 .. SizeOf(x) |-> NoEntry]]
          /\ out_pos' = [x \in DOMAIN lists |-> 0]
          /\ encoder' = [k \in DOMAIN indices |-> [read |-> 0, list |-> 0, pos |-> 0]]
          /\ UNCHANGED vars
       \/ /\ ~CodebookTrains
          /\ Throw
          /\ UNCHANGED encoding

Done(k) == encoder[k].pos = 0 /\ encoder[k].read = Len(ShardEntries(k))

(* Mutation of NextPosition: the counter of a list is read, not advanced. *)
NextPositionUntaken(x) == IF out_pos[x] = 0 THEN 1 ELSE out_pos[x]

NextPosition(x) == out_pos[x] + 1

(* out_pos[x].fetch_add(1): a place in the new list of the next vector; the *)
(* serial build takes one shard after another                               *)
take_position(k) ==
    /\ pc = "encode"
    /\ encoder[k].pos = 0
    /\ encoder[k].read < Len(ShardEntries(k))
    /\ Serial => \A j \in DOMAIN indices : j < k => Done(j)
    /\ \E x \in DOMAIN lists :
          /\ IsOwner(x, ShardEntries(k)[encoder[k].read + 1].id)
          /\ out_pos' = [out_pos EXCEPT ![x] = NextPosition(x)]
          /\ encoder' = [encoder EXCEPT ![k] =
                [read |-> @.read + 1, list |-> x, pos |-> NextPosition(x)]]
    /\ UNCHANGED <<vars, buffers>>

(* out_ids[x][pos] = gid, and the code *)
write_entry(k) ==
    /\ pc = "encode"
    /\ encoder[k].pos > 0
    /\ buffers' = [buffers EXCEPT ![encoder[k].list][encoder[k].pos] =
                      ShardEntries(k)[encoder[k].read]]
    /\ encoder' = [encoder EXCEPT ![k].pos = 0]
    /\ UNCHANGED <<vars, out_pos>>

(* all threads have joined: add_entries for each list *)
add_entries ==
    /\ pc = "encode"
    /\ encoder # <<>>
    /\ \A k \in DOMAIN encoder : Done(k)
    /\ Return(buffers)
    /\ UNCHANGED encoding

-----------------------------------------------------------------------------
Reassign(c) == reassign_one_cluster(c) /\ encode_in_remap(c)

MergeLists ==
    /\ ListStep
    /\ UNCHANGED encoding

Step ==
    \/ MergeLists
    \/ \E c \in todo : Reassign(c)
    \/ build_from_in_remap_buffers
    \/ allocate_output
    \/ \E k \in DOMAIN encoder : take_position(k)
    \/ \E k \in DOMAIN encoder : write_entry(k)
    \/ add_entries

Finished == pc = "end" /\ UNCHANGED <<vars, encoding>>

Next == Step \/ Finished

Spec == MergeInit /\ [][Next]_<<vars, encoding>>

(* the call runs on the caller's threads and waits for nobody but the       *)
(* threads that it joins, none of which waits                               *)
FairSpec == Spec /\ WF_<<vars, encoding>>(Next)

-----------------------------------------------------------------------------
(* Properties. *)

Written(x, pos) == pos \in DOMAIN buffers[x] /\ buffers[x][pos] # NoEntry

(* Two threads never fill the same place of a list, and no place is filled   *)
(* twice, although every thread may write to every list (out_ids and         *)
(* out_codes are written without a lock, IndexIVFPQMerge.cpp:2152-2158).     *)
EncodersApart ==
    \A k \in DOMAIN encoder :
        encoder[k].pos > 0 =>
            /\ ~Written(encoder[k].list, encoder[k].pos)
            /\ \A j \in DOMAIN encoder \ {k} :
                  <<encoder[j].list, encoder[j].pos>> # <<encoder[k].list, encoder[k].pos>>

(* The caller gets every vector once, under its id, in target_nlist lists    *)
(* (a merge) or list by list (Concat), or an exception that the arguments    *)
(* explain: no quota, split, training or encoding step of the code fails on  *)
(* its own account, and the places of the new lists are all filled.          *)
Merged == INSTANCE MergedIndex
ImplementsMergedIndex == Merged!MSpec

(* The loops of stage 1 end: quota passes stop when they make no progress,   *)
(* and every fallback split adds a list even if k-means leaves half of it    *)
(* empty; the encoders read every shard to its end.                          *)
Termination == <>(pc = "end")
================================================================================
