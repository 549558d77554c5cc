------------------------------ MODULE MergedIndex ------------------------------
(***************************************************************************)
(* What merging IVF flat shards promises: an index that holds every vector *)
(* of every shard once, under the id that follows from numbering the       *)
(* shards one after another, or an exception that the arguments deserve.   *)
(* How the vectors are spread over the lists is left open by a merge and   *)
(* fixed by Concat.  Codes of compressed indexes stand for their vectors.  *)
(***************************************************************************)
EXTENDS Integers, Sequences, FiniteSets, SequencesExt

CONSTANTS Calls,           \* the argument lists: [indices, options]
          PqSamplePercent  \* as in IVFMerge

VARIABLES indices, \* sequence of shards; shard = sequence of lists of local ids
          options, \* MergeArguments, as in IVFFlatMerge
          answer   \* [state, lists]: "pending", then "index" or "thrown"

mvars == <<indices, options, answer>>

Pending == [state |-> "pending", lists |-> <<>>]

SizeOf(lists) == Len(FlattenSeq(lists))

Before(k) == SubSeq(indices, 1, k - 1)

(* the vectors of list l of shard k under their global ids; a vector is     *)
(* known by the place it comes from                                         *)
Renumbered(k, l) ==
    [i \in DOMAIN indices[k][l] |->
        [id  |-> indices[k][l][i] + SizeOf(FlattenSeq(Before(k))),
         vec |-> <<k, l, i>>]]

(* every list of every shard, one after another *)
OneAfterAnother ==
    FlattenSeq([k \in DOMAIN indices |->
                   [l \in DOMAIN indices[k] |-> Renumbered(k, l)]])

NTotal == SizeOf(OneAfterAnother)

(* the shards number their vectors from 0 without gaps *)
ProperIds == {e.id : e \in ToSet(FlattenSeq(OneAfterAnother))} = 0 .. (NTotal - 1)

Target == IF options.target_nlist = 0 THEN Len(OneAfterAnother)
                                      ELSE options.target_nlist

Compressed == options.method \in {"ivfpq", "rabitq", "rabitq_1bit"}

(* the lists stay as they are: by request, or because several-bit RaBitQ     *)
(* was not told how many lists to make                                      *)
Stacks == \/ options.method = "concat"
          \/ options.method = "rabitq" /\ options.target_nlist = 0

SameVectors(entries, others) ==
    Len(entries) = Len(others) /\ ToSet(entries) = ToSet(others)

MInit ==
    \E call \in Calls :
        /\ indices = call.indices
        /\ options = call.options
        /\ answer = Pending

Deliver ==
    /\ answer = Pending
    /\ answer'.state = "index"
    /\ ProperIds =>
          \E all \in {OneAfterAnother} :
             IF Stacks
             THEN answer'.lists = all
             ELSE /\ Len(answer'.lists) = Target
                  /\ SameVectors(FlattenSeq(answer'.lists), FlattenSeq(all))
    /\ UNCHANGED <<indices, options>>

(* the exceptions a caller must expect: ids that do not number the vectors, *)
(* no lists or no neighbours asked for, more lists than vectors, or a       *)
(* training set smaller than the lists                                      *)
CannotMergeLists ==
    \/ Target = 0 \/ options.remap_neighbor_k = 0
    \/ Target > NTotal
    \/ Target > options.n_stage2_training_vectors
          /\ options.n_stage2_training_vectors > 0
    \/ 100 * Target > NTotal * options.sample_percent

(* for compressed indexes also: no vectors, options the encoder refuses, no  *)
(* number of lists, or too few vectors to train a codebook                   *)
CannotEncode ==
    \/ ~options.raw_vectors
    \/ options.method \in {"ivfpq", "rabitq"} /\ ~options.encoder
    \/ options.method \in {"ivfpq", "rabitq_1bit"} /\ options.target_nlist = 0
    \/ options.method = "ivfpq" /\ options.pq_train_min > 1
          /\ 100 * options.pq_train_min > NTotal * PqSamplePercent

Throw ==
    /\ answer = Pending
    /\ answer'.state = "thrown"
    /\ ~ProperIds \/ (Compressed /\ CannotEncode) \/ (~Stacks /\ CannotMergeLists)
    /\ UNCHANGED <<indices, options>>

MSpec == MInit /\ [][Deliver \/ Throw]_mvars
================================================================================
