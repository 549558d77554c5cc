------------------------------- MODULE SubIndexes -------------------------------
(***************************************************************************)
(* IndexShards and IndexReplicas: a collection of sub-indexes behind one   *)
(* index.  Shards split a batch and join results, with the ids of the      *)
(* sub-indexes (kind "shards") or with ids shifted by the sizes of the     *)
(* shards before ("successive"); replicas all hold the same.               *)
(*                                                                         *)
(* A call runs a function on every sub-index, as FanOut promises: once, in *)
(* any order, and any of them may throw.  The collection counts vectors    *)
(* itself and brings its count up to date after calls that ended well.     *)
(* Calls on a collection do not overlap.                                   *)
(***************************************************************************)
EXTENDS Integers, Sequences, FiniteSets, Functions

CONSTANTS
    Subs,       \* the indexes that may be in the collection
    Kinds,      \* the kinds of collection a run tries
    BatchSizes, \* bound: vectors of an add
    MaxAdds,    \* bound: calls of add
    GivenIds    \* bound: first ids that callers give to a batch

ASSUME KindsAssumption == Kinds \subseteq {"shards", "successive", "replicas"}
ASSUME BatchesAssumption == BatchSizes \subseteq Nat /\ GivenIds \subseteq Nat

VARIABLES
    kind,
    sub,        \* [vecs, trained] of each index; a vector is an [id, code]
    indices,    \* the sub-indexes in their order
    ntotal, is_trained,
    call,       \* the call in progress
    nadds,      \* add calls so far
    nadded,     \* vectors of the adds to sub-indexes that ended well since a reset
    stale,      \* has the collection failed to bring ntotal up to date?
    past        \* what happened since the collection was empty and in order

vars == <<kind, sub, indices, ntotal, is_trained, call, nadds, nadded, stale, past>>

Idle == [op |-> "none"]

Size(s) == Len(sub[s].vecs)
Positions == DOMAIN indices
Members == {indices[k] : k \in Positions}
Sizes == [k \in Positions |-> Size(indices[k])]

Init ==
    /\ kind \in Kinds
    /\ sub = [s \in Subs |-> [vecs |-> <<>>, trained |-> FALSE]]
    /\ indices = <<>>
    /\ ntotal = 0
    /\ is_trained = FALSE   \* of no use before there is a sub-index
    /\ call = Idle
    /\ nadds = 0
    /\ nadded = 0
    /\ stale = FALSE
    /\ past = {}

-------------------------------------------------------------------------------
(* syncWithSubIndexes. *)

(* the first sub-index at which it throws, if any; shards may have any size *)
Agrees(k) ==
    /\ sub[indices[k]].trained = sub[indices[1]].trained
    /\ kind = "replicas" => Size(indices[k]) = Size(indices[1])

Misfits == {k \in Positions : ~Agrees(k)}

(* the shards whose sizes are added up before it throws *)
Counted == {k \in Positions : \A j \in Misfits : k < j}

(* Mutation of SyncedTotal: replicas are added up like shards. *)
SyncedTotalOfAll == SumFunctionOnSet(Sizes, Counted)

SyncedTotal ==
    IF kind = "replicas" THEN Size(indices[1])
    ELSE SumFunctionOnSet(Sizes, Counted)

Thrown(b) ==
    /\ stale' = b
    /\ past' = IF b THEN past \union {"threw"} ELSE past

syncWithSubIndexes ==
    /\ ntotal' = IF indices = <<>> THEN 0 ELSE SyncedTotal
    /\ is_trained' = IF indices = <<>> THEN FALSE ELSE sub[indices[1]].trained
    /\ Thrown(Misfits # {})

-------------------------------------------------------------------------------
(* The collection itself.  Both calls are two steps: indices_ changes, then *)
(* onAfterAddIndex or onAfterRemoveIndex runs and may throw.                *)

(* Mutation of IsNew: only the first index is compared. *)
IsNewToFirst(s) == \A k \in 1 .. Len(indices) : k = 1 => s # indices[k]

IsNew(s) == s \notin Members

addIndex(s) ==
    /\ call = Idle
    /\ IsNew(s)
    /\ indices' = Append(indices, s)
    /\ call' = [op |-> "onAfterAddIndex"]
    /\ past' = IF Size(s) > 0 THEN past \union {"filled"} ELSE past
    /\ UNCHANGED <<kind, sub, ntotal, is_trained, nadds, nadded, stale>>

(* replicas only compare the new one with the first *)
onAfterAddIndex ==
    /\ call.op = "onAfterAddIndex"
    /\ call' = Idle
    /\ IF kind = "replicas" /\ Len(indices) > 1
       THEN /\ Thrown(stale \/ ~Agrees(Len(indices)))
            /\ UNCHANGED <<ntotal, is_trained>>
       ELSE syncWithSubIndexes
    /\ UNCHANGED <<kind, sub, indices, nadds, nadded>>

removeIndex(k) ==
    /\ call = Idle
    /\ indices' = [j \in 1 .. (Len(indices) - 1) |-> indices[IF j < k THEN j ELSE j + 1]]
    /\ call' = [op |-> "onAfterRemoveIndex"]
    /\ past' = IF Size(indices[k]) > 0 /\ (kind = "replicas" => Len(indices) = 1)
               THEN past \union {"removed"} ELSE past
    /\ UNCHANGED <<kind, sub, ntotal, is_trained, nadds, nadded, stale>>

onAfterRemoveIndex ==
    /\ call.op = "onAfterRemoveIndex"
    /\ call' = Idle
    /\ syncWithSubIndexes
    /\ UNCHANGED <<kind, sub, indices, nadds, nadded>>

-------------------------------------------------------------------------------
(* Functions on all sub-indexes. *)

Run(op, batch) ==
    call' = [op |-> op, batch |-> batch, todo |-> Positions, threw |-> FALSE]

train ==
    /\ call = Idle
    /\ Run("train", <<>>)
    /\ UNCHANGED <<kind, sub, indices, ntotal, is_trained, nadds, nadded, stale, past>>

reset ==
    /\ call = Idle
    /\ Run("reset", <<>>)
    /\ UNCHANGED <<kind, sub, indices, ntotal, is_trained, nadds, nadded, stale, past>>

(* Mutation of AutoId: ids are numbered within the batch. *)
AutoIdInBatch(i) == i - 1

AutoId(i) == ntotal + i - 1

(* ids of a batch, made up or given; the codes are numbers from 1.  With    *)
(* "successive" and with replicas each sub-index makes up ids itself.       *)
Batch(n) == [i \in 1 .. n |-> [id |-> AutoId(i), code |-> i]]
GivenBatch(n, first) == [i \in 1 .. n |-> [id |-> first + i - 1, code |-> i]]

add(n) ==
    /\ call = Idle
    /\ nadds < MaxAdds
    /\ kind = "successive" => ntotal = 0
    /\ Run("add", Batch(n))
    /\ nadds' = nadds + 1
    /\ UNCHANGED <<kind, sub, indices, ntotal, is_trained, nadded, stale, past>>

add_with_ids(n, first) ==
    /\ call = Idle
    /\ nadds < MaxAdds
    /\ kind = "shards"
    /\ Run("add", GivenBatch(n, first))
    /\ nadds' = nadds + 1
    /\ past' = past \union {"given"}
    /\ UNCHANGED <<kind, sub, indices, ntotal, is_trained, nadded, stale>>

(* Mutation of SplitAt: every shard takes n / nshard vectors. *)
SplitAtRounded(k, n) == (k - 1) * (n \div Len(indices))

SplitAt(k, n) == ((k - 1) * n) \div Len(indices)

(* the vectors that go to the k-th sub-index *)
Part(k) ==
    IF kind = "replicas" THEN call.batch
    ELSE SubSeq(call.batch, SplitAt(k, Len(call.batch)) + 1, SplitAt(k + 1, Len(call.batch)))

OwnIds(s, vecs) == [i \in DOMAIN vecs |-> [id |-> Size(s) + i - 1, code |-> vecs[i].code]]

Added(s, vecs) == sub[s].vecs \o (IF kind = "shards" THEN vecs ELSE OwnIds(s, vecs))

(* the function of the call runs on the k-th sub-index *)
run(k) ==
    /\ call.op \in {"train", "reset", "add"}
    /\ k \in call.todo
    /\ LET s == indices[k]
       IN  \/ /\ call.op = "add" => sub[s].trained
              /\ sub' = CASE call.op = "train" -> [sub EXCEPT ![s].trained = TRUE]
                          [] call.op = "reset" -> [sub EXCEPT ![s].vecs = <<>>]
                          [] call.op = "add" -> [sub EXCEPT ![s].vecs = Added(s, Part(k))]
              /\ call' = [call EXCEPT !.todo = @ \ {k}]
           \/ /\ call' = [call EXCEPT !.todo = @ \ {k}, !.threw = TRUE]
              /\ UNCHANGED sub
    /\ UNCHANGED <<kind, indices, ntotal, is_trained, nadds, nadded, stale, past>>

(* the functions have ended, and the call returns or throws *)
end ==
    /\ call.op \in {"train", "reset", "add"}
    /\ call.todo = {}
    /\ call' = Idle
    /\ nadded' = IF call.threw THEN nadded
                 ELSE CASE call.op = "reset" -> 0
                        [] call.op = "add" /\ indices # <<>> -> nadded + Len(call.batch)
                        [] OTHER -> nadded
    /\ IF call.threw
       THEN /\ Thrown(TRUE)
            /\ UNCHANGED <<ntotal, is_trained>>
       ELSE IF call.op = "reset"
       THEN /\ past' = {}
            /\ stale' = FALSE
            /\ ntotal' = 0
            /\ is_trained' = FALSE
       ELSE syncWithSubIndexes
    /\ UNCHANGED <<kind, sub, indices, nadds>>

-------------------------------------------------------------------------------
Next ==
    \/ \E s \in Subs : addIndex(s)
    \/ \E k \in Positions : removeIndex(k)
    \/ onAfterAddIndex \/ onAfterRemoveIndex
    \/ train \/ reset
    \/ \E n \in BatchSizes : add(n) \/ \E first \in GivenIds : add_with_ids(n, first)
    \/ \E k \in Positions : run(k)
    \/ end

Spec == Init /\ [][Next]_vars

-------------------------------------------------------------------------------
(* Searching.  It changes nothing; the labels are those of a search now. *)

translations(k) ==
    IF kind = "successive" THEN SumFunctionOnSet(Sizes, 1 .. (k - 1)) ELSE 0

(* what a search over the whole collection can return *)
Answers(k) == {<<translations(k) + v.id, v.code>> : v \in Range(sub[indices[k]].vecs)}

-------------------------------------------------------------------------------
(* Properties. *)

(* The collection has no index twice; counts are sizes.                     *)
TypeOK ==
    /\ \A j, k \in Positions : indices[j] = indices[k] => j = k
    /\ Members \subseteq Subs
    /\ ntotal \in Nat
    /\ \A s \in Subs : \A i \in 1 .. Size(s) : sub[s].vecs[i].id \in Nat
    /\ past \subseteq {"threw", "filled", "removed", "given"}
    /\ call.op \in {"none", "onAfterAddIndex", "onAfterRemoveIndex", "train", "reset", "add"}

(* Between calls ntotal is the number of vectors that the collection holds, *)
(* unless an exception kept it from being brought up to date; the next call *)
(* that ends well sets it right again.                                      *)
TotalAgrees ==
    call = Idle /\ ~stale =>
        IF kind = "replicas" THEN \A k \in Positions : Size(indices[k]) = ntotal
        ELSE ntotal = SumFunction(Sizes)

Labels == UNION {{a[1] : a \in Answers(k)} : k \in Positions}

(* Every vector has an id of its own. *)
IdsDistinct == Cardinality(Labels) = nadded

(* The vectors of a batch are returned as 0, 1, 2, ... in their order. *)
SuccessiveLabels ==
    UNION {Answers(k) : k \in Positions} = {<<i - 1, i>> : i \in 1 .. nadded}

(* All replicas hold all vectors, in the same order. *)
ReplicasEqual ==
    \A j, k \in Positions : sub[indices[j]].vecs = sub[indices[k]].vecs /\ Size(indices[k]) = nadded

(* A search over the collection answers as one index would: ids are unique, *)
(* successive ids are the positions in the batch although it was split and  *)
(* its parts numbered from 0, and all replicas answer alike.  It stays so   *)
(* in any sequence of calls, until one throws or an index that is not empty *)
(* joins or leaves, and is so again after reset.                            *)
AnswersAsOne ==
    call = Idle /\ past = {} /\ indices # <<>> =>
        CASE kind = "shards" -> IdsDistinct
          [] kind = "successive" -> SuccessiveLabels
          [] kind = "replicas" -> ReplicasEqual
===============================================================================
